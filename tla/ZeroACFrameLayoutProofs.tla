------------------------ MODULE ZeroACFrameLayoutProofs ------------------------
(***************************************************************************)
(* Proofs about ZeroACFrameLayout: for all programs, types and sizes, the  *)
(* variables of a function do not overlap, what it accesses is its own,    *)
(* and a call builds the frame and pushes the arguments that the return of *)
(* the called function removes, at the places where the function looks for *)
(* them.  The theorems need NamesApart: no variable has a function's name, *)
(* and no function is defined twice (the run MCZeroACFrameLayoutShadow     *)
(* shows that frames do not agree for names that are not apart).           *)
(*                                                                         *)
(* The argument: the parser is done before the first address is given, so  *)
(* that frame sizes do not depend on when they are computed; locals are    *)
(* placed below the base pointer, arguments above the saved pointers, and  *)
(* both areas only grow while a function is visited, which happens once.   *)
(* The locals with an address take up the sum of their sizes, which the    *)
(* sum over all locals, the frame, bounds.                                 *)
(***************************************************************************)
EXTENDS ZeroACFrameLayout, TLAPS, SequenceTheorems, FiniteSetTheorems, WellFoundedInduction

VarsApart  == Vars \intersect Funcs = {}
NamesApart == VarsApart /\ ~Redefine

\* what the definitions mention has been entered into the symbol table
DefNamed(d) ==
  /\ <<defs[d].fn>> \in DOMAIN syms
  /\ \A i \in DOMAIN defs[d].args : <<defs[d].fn, defs[d].args[i].name>> \in DOMAIN syms
  /\ \A i \in DOMAIN defs[d].body :
       defs[d].body[i].op = "decl" => <<defs[d].fn, defs[d].body[i].name>> \in DOMAIN syms

SymbolsTyped ==
  \A k \in DOMAIN syms : Len(k) = 2 => syms[k].ty \in Types

ParserOK ==
  /\ \A d \in DOMAIN defs : DefNamed(d)
  /\ SymbolsTyped
  /\ scope # <<>> => Len(defs) > 0 /\ scope = <<defs[Len(defs)].fn>>
  /\ phase \in {"parse", "start"} => cur = 0 /\ stage = "enter"
  /\ phase = "code" /\ stage = "args" => idx <= Len(Def.args) + 1

LEMMA Singletons ==
  /\ \A f, g : <<f>> = <<g>> => f = g
  /\ \A f, g, x, y : <<f, x>> = <<g, y>> => f = g /\ x = y
  /\ \A f, g, x : <<f>> # <<g, x>>
  /\ \A f, x : Append(<<f>>, x) = <<f, x>>
  /\ \A f : Len(<<f>>) = 1
  /\ \A f, x : Len(<<f, x>>) = 2
  /\ \A f, x : Scope(<<f, x>>) = <<f>>
  /\ \A f, x : <<f, x>>[1] = f /\ <<f, x>>[2] = x
  /\ \A f : <<f>>[1] = f
<1>1. \A f, g : <<f>> = <<g>> => f = g OBVIOUS
<1>2. \A f, g, x, y : <<f, x>> = <<g, y>> => f = g /\ x = y OBVIOUS
<1>3. \A f, g, x : <<f>> # <<g, x>>
  <2> SUFFICES ASSUME NEW f, NEW g, NEW x, <<f>> = <<g, x>> PROVE FALSE OBVIOUS
  <2>1. Len(<<f>>) = 1 OBVIOUS
  <2>2. Len(<<g, x>>) = 2 OBVIOUS
  <2> QED BY <2>1, <2>2
<1>4. \A f, x : Append(<<f>>, x) = <<f, x>>
  <2> TAKE f, x
  <2> DEFINE s == Append(<<f>>, x)
  <2>1. <<f>> \in Seq({f, x}) /\ Len(<<f>>) = 1 /\ <<f>>[1] = f OBVIOUS
  <2>2. s \in Seq({f, x}) /\ Len(s) = 2 /\ s[1] = f /\ s[2] = x
    BY <2>1, AppendProperties
  <2> HIDE DEF s
  <2>3. s = <<s[1], s[2]>>
    BY <2>2
  <2> QED BY <2>2, <2>3 DEF s
<1>5. \A f : Len(<<f>>) = 1 OBVIOUS
<1>6. \A f, x : Len(<<f, x>>) = 2 OBVIOUS
<1>7. \A f, x : Scope(<<f, x>>) = <<f>>
  <2> TAKE f, x
  <2>1. <<f, x>> \in Seq({f, x}) /\ Len(<<f, x>>) - 1 = 1 /\ <<f, x>>[1] = f OBVIOUS
  <2>2. SubSeq(<<f, x>>, 1, 1) = <<f>>
    <3> DEFINE s == SubSeq(<<f, x>>, 1, 1)
    <3>1. s \in Seq({f, x}) /\ Len(s) = 1 /\ s[1] = <<f, x>>[1]
      BY <2>1, SubSeqProperties
    <3> HIDE DEF s
    <3>2. s = <<s[1]>>
      BY <3>1
    <3> QED BY <2>1, <3>1, <3>2 DEF s
  <2> QED BY <2>1, <2>2 DEF Scope
<1>8. \A f, x : <<f, x>>[1] = f /\ <<f, x>>[2] = x OBVIOUS
<1>9. \A f : <<f>>[1] = f OBVIOUS
<1> QED BY <1>1, <1>2, <1>3, <1>4, <1>5, <1>6, <1>7, <1>8, <1>9

\* a key is the name of a function, or of a variable in a function
LEMMA KeyShape ==
  ASSUME NEW k \in Keys
  PROVE  \/ Len(k) = 1 /\ \E f \in Funcs : k = <<f>>
         \/ Len(k) = 2 /\ \E f \in Funcs, x \in Vars : k = <<f, x>> /\ Scope(k) = <<f>>
<1>1. CASE k \in {<<f>> : f \in Funcs}
  <2>1. PICK f \in Funcs : k = <<f>> BY <1>1
  <2> QED BY <2>1, Singletons
<1>2. CASE k \in {<<f, x>> : f \in Funcs, x \in Vars}
  <2>1. PICK f \in Funcs, x \in Vars : k = <<f, x>> BY <1>2
  <2>2. Len(k) = 2 /\ Scope(k) = <<f>> BY <2>1, Singletons
  <2> QED BY <2>1, <2>2
<1> QED BY <1>1, <1>2 DEF Keys

\* a set of numbers has a least one
LEMMA LeastNumber ==
  ASSUME NEW T, T \subseteq Nat, T # {}
  PROVE  \E x \in T : \A y \in T : x <= y
<1>1. IsWellFoundedOn(OpToRel(<, Nat), Nat)
  BY NatLessThanWellFounded
<1> DEFINE R == {ss \in Nat \X Nat : ss[1] < ss[2]}
<1>2. OpToRel(<, Nat) = R
  BY DEF OpToRel
<1>3. IsWellFoundedOn(R, Nat)
  BY <1>1, <1>2
<1> HIDE DEF R
<1>4. \E x \in T : \A y \in T : ~(<<y, x>> \in R)
  BY <1>3, WFMin
<1>5. PICK x \in T : \A y \in T : ~(<<y, x>> \in R)
  BY <1>4
<1>6. ASSUME NEW y \in T PROVE x <= y
  <2>1. x \in Nat /\ y \in Nat /\ ~(<<y, x>> \in R)
    BY <1>5
  <2>2. ~(y < x)
    BY <2>1 DEF R
  <2> QED
    BY <2>1, <2>2
<1> QED
  BY <1>6

LEMMA MaxInSet ==
  ASSUME NEW n \in Nat, NEW S \in SUBSET (1 .. n), S # {}
  PROVE  Max(S) \in S
<1> DEFINE T == {n - i : i \in S}
<1>1. T \subseteq Nat /\ T # {}
  <2>1. \A i \in S : n - i \in Nat OBVIOUS
  <2> QED BY <2>1
<1>2. PICK t \in T : \A u \in T : t <= u
  <2> HIDE DEF T
  <2> QED BY <1>1, LeastNumber
<1>3. PICK i \in S : t = n - i BY <1>2
<1>4. \A j \in S : i >= j
  <2> TAKE j \in S
  <2>1. t <= n - j BY <1>2
  <2> QED BY <2>1, <1>3
<1>5. \E x \in S : \A y \in S : x >= y BY <1>4
<1> QED BY <1>5 DEF Max

LEMMA ArgListType ==
  ASSUME NEW args \in ArgLists
  PROVE  /\ Len(args) \in 0 .. MaxArgs /\ DOMAIN args = 1 .. Len(args)
         /\ \A i \in DOMAIN args : args[i].name \in Vars /\ args[i].ty \in Types
<1>1. PICK n \in 0 .. MaxArgs : args \in [1 .. n -> Argument] BY DEF ArgLists
<1>2. args \in Seq(Argument) /\ Len(args) = n BY <1>1, LayoutAssumption
<1> QED BY <1>1, <1>2 DEF Argument

LEMMA RegisteredType ==
  ASSUME DOMAIN syms \subseteq Keys, syms \in [DOMAIN syms -> Symbols], SymbolsTyped,
         NEW f \in Funcs, NEW args \in ArgLists, NEW r, r = Registered(f, args)
  PROVE  /\ DOMAIN syms \subseteq DOMAIN r /\ DOMAIN r \subseteq Keys
         /\ r \in [DOMAIN r -> Symbols]
         /\ \A k \in DOMAIN r : Len(k) = 2 => r[k].ty \in Types
         /\ <<f>> \in DOMAIN r /\ r[<<f>>] = FuncSym(Len(args))
         /\ \A i \in DOMAIN args : <<f, args[i].name>> \in DOMAIN r
         /\ \A k \in DOMAIN syms : k = <<f>> \/ Len(k) = 2 \/ r[k] = syms[k]
<1> DEFINE Named(k) == {i \in DOMAIN args : <<f, args[i].name>> = k}
           new == {<<f, args[i].name>> : i \in DOMAIN args}
           D == DOMAIN syms \union new \union {<<f>>}
           val(k) == IF k = <<f>> THEN FuncSym(Len(args))
                     ELSE IF k \in new THEN VarSym(args[Max(Named(k))].ty, Max(Named(k)))
                     ELSE syms[k]
<1>1. r = [k \in D |-> val(k)]
  BY Zenon DEF Registered
<1>2. Len(args) \in 0 .. MaxArgs /\ DOMAIN args = 1 .. Len(args)
      /\ \A i \in DOMAIN args : args[i].name \in Vars /\ args[i].ty \in Types
  BY ArgListType
<1>3. \A k \in new : k \in Keys /\ Len(k) = 2
  <2> TAKE k \in new
  <2>1. PICK i \in DOMAIN args : k = <<f, args[i].name>> OBVIOUS
  <2> QED BY <2>1, <1>2, Singletons DEF Keys
<1>4. D \subseteq Keys
  BY <1>3 DEF Keys
<1>5. \A k \in new : VarSym(args[Max(Named(k))].ty, Max(Named(k))) \in Symbols
                     /\ VarSym(args[Max(Named(k))].ty, Max(Named(k))).ty \in Types
  <2> TAKE k \in new
  <2>1. Named(k) # {} /\ Named(k) \in SUBSET (1 .. Len(args)) BY <1>2
  <2>2. Max(Named(k)) \in Named(k)
    <3> HIDE DEF Named
    <3> QED BY <2>1, <1>2, MaxInSet
  <2>3. PICK m : m = Max(Named(k)) OBVIOUS
  <2>4. m \in DOMAIN args BY <2>2, <2>3
  <2> HIDE DEF Named
  <2>5. VarSym(args[m].ty, m) \in Symbols /\ VarSym(args[m].ty, m).ty \in Types
    BY <2>4, <1>2, LayoutAssumption DEF VarSym, Symbols
  <2> QED BY <2>3, <2>5
<1>6. FuncSym(Len(args)) \in Symbols
  BY <1>2, LayoutAssumption DEF FuncSym, Symbols
<1>7. Len(<<f>>) = 1 BY Singletons
<1> HIDE DEF Named, new
<1>8. \A k \in D : val(k) \in Symbols /\ (Len(k) = 2 => val(k).ty \in Types)
  <2> TAKE k \in D
  <2>1. CASE k = <<f>> BY <2>1, <1>6, <1>7
  <2>2. CASE k # <<f>> /\ k \in new BY <2>2, <1>5
  <2>3. CASE k # <<f>> /\ k \notin new BY <2>3 DEF SymbolsTyped
  <2> QED BY <2>1, <2>2, <2>3
<1>9. \A i \in DOMAIN args : <<f, args[i].name>> \in new BY DEF new
<1>10. DOMAIN r = D /\ \A k \in D : r[k] = val(k) BY <1>1
<1>11. r \in [D -> Symbols] BY <1>1, <1>8
<1>12. \A k \in DOMAIN syms : k = <<f>> \/ Len(k) = 2 \/ r[k] = syms[k]
  BY <1>10, <1>3
<1>13. <<f>> \in D /\ val(<<f>>) = FuncSym(Len(args)) OBVIOUS
<1>14. DOMAIN syms \subseteq D /\ new \subseteq D OBVIOUS
<1> HIDE DEF val, D
<1> QED BY <1>4, <1>8, <1>9, <1>10, <1>11, <1>12, <1>13, <1>14

TInv == TypeOK /\ ParserOK

LEMMA DefType ==
  ASSUME TypeOK, NEW d \in DOMAIN defs
  PROVE  /\ defs[d].fn \in Funcs /\ defs[d].args \in ArgLists
         /\ defs[d].body \in Seq(Item)
         /\ DOMAIN defs[d].args = 1 .. Len(defs[d].args)
         /\ Len(defs[d].args) \in 0 .. MaxArgs
         /\ \A i \in DOMAIN defs[d].args : defs[d].args[i].name \in Vars
         /\ \A i \in DOMAIN defs[d].body :
              /\ defs[d].body[i].op \in {"decl", "use"} => defs[d].body[i].name \in Vars
              /\ defs[d].body[i].op = "call" =>
                   defs[d].body[i].name \in Funcs /\ defs[d].body[i].args \in Seq(Types)
<1>1. defs \in Seq(Definition) BY DEF TypeOK
<1>2. defs[d] \in Definition BY <1>1
<1>3. defs[d].fn \in Funcs /\ defs[d].args \in ArgLists /\ defs[d].body \in Seq(Item)
  BY <1>2 DEF Definition
<1>4. \A i \in DOMAIN defs[d].body : defs[d].body[i] \in Item BY <1>3
<1>5. \A i \in DOMAIN defs[d].body :
        /\ defs[d].body[i].op \in {"decl", "use"} => defs[d].body[i].name \in Vars
        /\ defs[d].body[i].op = "call" =>
             defs[d].body[i].name \in Funcs /\ defs[d].body[i].args \in Seq(Types)
  <2> TAKE i \in DOMAIN defs[d].body
  <2> QED BY <1>4, LayoutAssumption DEF Item
<1> QED BY <1>3, <1>5, ArgListType

LEMMA SizeType ==
  ASSUME TInv, NEW k \in DOMAIN syms, Len(k) = 2
  PROVE  Size(k) \in Nat \ {0}
<1>1. syms[k].ty \in Types BY DEF TInv, ParserOK, SymbolsTyped
<1> QED BY <1>1, LayoutAssumption DEF Size

\* the visitor's function, and the keys of the names that it looks up there
LEMMA VisitedDef ==
  ASSUME TInv, stage # "enter"
  PROVE  /\ cur \in DOMAIN defs /\ cur \in Nat \ {0} /\ Def.fn \in Funcs /\ <<Def.fn>> \in DOMAIN syms
         /\ DOMAIN Def.args = 1 .. Len(Def.args) /\ DOMAIN Def.body = 1 .. Len(Def.body)
         /\ Len(Def.args) \in Nat /\ Len(Def.body) \in Nat
         /\ Find(CurScope, Def.fn) \in DOMAIN syms
         /\ \A i \in DOMAIN Def.args :
              /\ Find(CurScope, Def.args[i].name) = <<Def.fn, Def.args[i].name>>
              /\ <<Def.fn, Def.args[i].name>> \in DOMAIN syms
         /\ \A i \in DOMAIN Def.body : Def.body[i].op = "decl" =>
              /\ Find(CurScope, Def.body[i].name) = <<Def.fn, Def.body[i].name>>
              /\ <<Def.fn, Def.body[i].name>> \in DOMAIN syms
<1>1. cur \in DOMAIN defs /\ cur \in Nat \ {0}
  <2>1. cur \in 1 .. Len(defs) /\ defs \in Seq(Definition)
    BY DEF TInv, TypeOK
  <2> QED BY <2>1
<1>2. DefNamed(cur) BY <1>1 DEF TInv, ParserOK
<1>3. Def.fn \in Funcs /\ Def.body \in Seq(Item)
      /\ DOMAIN Def.args = 1 .. Len(Def.args) /\ Len(Def.args) \in Nat
  BY <1>1, DefType, LayoutAssumption DEF TInv, Def
<1>4. DOMAIN Def.body = 1 .. Len(Def.body) /\ Len(Def.body) \in Nat
  BY <1>3
<1>5. \A n : Append(CurScope, n) = <<Def.fn, n>> BY Singletons DEF CurScope
<1>6. Find(CurScope, Def.fn) \in DOMAIN syms
  BY <1>2 DEF DefNamed, Def, Find
<1>7. \A n : <<Def.fn, n>> \in DOMAIN syms => Find(CurScope, n) = <<Def.fn, n>>
  BY <1>5 DEF Find
<1>8. <<Def.fn>> \in DOMAIN syms
      /\ (\A i \in DOMAIN Def.args : <<Def.fn, Def.args[i].name>> \in DOMAIN syms)
      /\ (\A i \in DOMAIN Def.body :
            Def.body[i].op = "decl" => <<Def.fn, Def.body[i].name>> \in DOMAIN syms)
  BY <1>2 DEF DefNamed, Def
<1> QED BY <1>1, <1>3, <1>4, <1>6, <1>7, <1>8

LEMMA InitType == Init => TInv
<1> SUFFICES ASSUME Init PROVE TInv OBVIOUS
<1>1. TypeOK
  <2>1. defs \in Seq(Definition) /\ Len(defs) = 0
    BY DEF Init
  <2>2. DOMAIN syms = {} /\ DOMAIN addr = {} /\ DOMAIN local_stack = {}
        /\ DOMAIN rets = {} /\ DOMAIN entry = {}
    BY DEF Init
  <2>3. syms \in [{} -> Symbols] /\ addr \in [{} -> Int] /\ local_stack \in [{} -> Nat]
    BY DEF Init
  <2>4. phase = "parse" /\ scope = <<>> /\ cur = 0 /\ stage = "enter" /\ idx = 1
        /\ frame_addr = 0 /\ pos = 0
    BY DEF Init
  <2> QED BY <2>1, <2>2, <2>3, <2>4 DEF TypeOK
<1>2. ParserOK
  <2>1. DOMAIN syms = {} /\ DOMAIN defs = {} /\ scope = <<>> /\ cur = 0
        /\ stage = "enter" /\ phase = "parse"
    BY DEF Init
  <2> QED BY <2>1 DEF ParserOK, SymbolsTyped
<1> QED BY <1>1, <1>2 DEF TInv

\* what only the parser's state decides is kept by all steps of the generator
LEMMA ParserUnchanged ==
  ASSUME TInv, UNCHANGED parser,
         phase' \in {"parse", "start"} => cur' = 0 /\ stage' = "enter",
         phase' = "code" /\ stage' = "args" => idx' <= Len(defs[cur'].args) + 1
  PROVE  ParserOK'
<1>1. defs' = defs /\ scope' = scope /\ syms' = syms BY DEF parser
<1>2. \A d \in DOMAIN defs : DefNamed(d)' BY <1>1 DEF TInv, ParserOK, DefNamed
<1>3. SymbolsTyped' BY <1>1 DEF TInv, ParserOK, SymbolsTyped
<1>4. scope' # <<>> => Len(defs') > 0 /\ scope' = <<defs'[Len(defs')].fn>>
  BY <1>1 DEF TInv, ParserOK
<1>5. phase' = "code" /\ stage' = "args" => idx' <= Len(Def'.args) + 1
  BY <1>1 DEF Def
<1> QED BY <1>1, <1>2, <1>3, <1>4, <1>5 DEF ParserOK

LEMMA EnterScopeType ==
  ASSUME TInv, NEW f \in Funcs, NEW args \in ArgLists, EnterScope(f, args)
  PROVE  TInv'
<1> DEFINE new == [fn |-> f, args |-> args, body |-> <<>>]
<1>1. /\ phase = "parse" /\ phase' = phase /\ scope' = <<f>> /\ defs' = Append(defs, new)
      /\ syms' = Registered(f, args)
      /\ UNCHANGED <<cur, stage, idx, frame_addr, addr, local_stack, pos, rets, entry>>
  BY DEF EnterScope, visitor, written
<1>2. new \in Definition BY DEF Definition
<1>3. defs \in Seq(Definition) /\ Len(defs) \in Nat BY DEF TInv, TypeOK
<1>4. defs' \in Seq(Definition) /\ Len(defs') = Len(defs) + 1
      /\ DOMAIN defs' = 1 .. (Len(defs) + 1) /\ DOMAIN defs = 1 .. Len(defs)
      /\ defs'[Len(defs) + 1] = new /\ (\A d \in DOMAIN defs : defs'[d] = defs[d])
  <2> HIDE DEF new
  <2> QED BY <1>1, <1>2, <1>3, AppendProperties
<1>5. /\ DOMAIN syms \subseteq DOMAIN syms' /\ DOMAIN syms' \subseteq Keys
      /\ syms' \in [DOMAIN syms' -> Symbols]
      /\ \A k \in DOMAIN syms' : Len(k) = 2 => syms'[k].ty \in Types
      /\ <<f>> \in DOMAIN syms'
      /\ \A i \in DOMAIN args : <<f, args[i].name>> \in DOMAIN syms'
  <2>1. DOMAIN syms \subseteq Keys /\ syms \in [DOMAIN syms -> Symbols] /\ SymbolsTyped
    BY DEF TInv, TypeOK, ParserOK
  <2>2. PICK r : r = Registered(f, args) OBVIOUS
  <2>3. /\ DOMAIN syms \subseteq DOMAIN r /\ DOMAIN r \subseteq Keys
        /\ r \in [DOMAIN r -> Symbols]
        /\ \A k \in DOMAIN r : Len(k) = 2 => r[k].ty \in Types
        /\ <<f>> \in DOMAIN r /\ \A i \in DOMAIN args : <<f, args[i].name>> \in DOMAIN r
    BY <2>1, <2>2, RegisteredType
  <2>4. syms' = r BY <1>1, <2>2
  <2> QED BY <2>3, <2>4
<1>6. TypeOK'
  <2>1. scope' \in {<<>>} \union Globals BY <1>1 DEF Globals
  <2>2. cur' \in 0 .. Len(defs') /\ DOMAIN rets' \subseteq DOMAIN defs'
    BY <1>1, <1>3, <1>4 DEF TInv, TypeOK
  <2>3. DOMAIN addr' \subseteq DOMAIN syms' /\ addr' \in [DOMAIN addr' -> Int]
        /\ phase' \in {"parse", "start", "code", "done", "error"}
        /\ stage' \in {"enter", "args", "body"} /\ idx' \in Nat \ {0}
        /\ (stage' # "enter" => cur' > 0) /\ frame_addr' \in Nat /\ pos' \in Nat
        /\ DOMAIN local_stack' \subseteq Funcs /\ local_stack' \in [DOMAIN local_stack' -> Nat]
        /\ DOMAIN entry' \subseteq Nat
    BY <1>1, <1>5 DEF TInv, TypeOK
  <2> QED BY <1>4, <1>5, <2>1, <2>2, <2>3 DEF TypeOK
<1>7. ParserOK'
  <2>1. \A d \in DOMAIN defs' : DefNamed(d)'
    <3> TAKE d \in DOMAIN defs'
    <3>1. CASE d \in DOMAIN defs
      <4>1. DefNamed(d) /\ defs'[d] = defs[d] BY <3>1, <1>4 DEF TInv, ParserOK
      <4> QED BY <4>1, <1>5 DEF DefNamed
    <3>2. CASE d = Len(defs) + 1
      <4>1. defs'[d].fn = f /\ defs'[d].args = args /\ defs'[d].body = <<>>
        BY <3>2, <1>4
      <4> QED BY <4>1, <1>5 DEF DefNamed
    <3> QED BY <3>1, <3>2, <1>3, <1>4
  <2>2. SymbolsTyped' BY <1>5 DEF SymbolsTyped
  <2>3. scope' # <<>> => Len(defs') > 0 /\ scope' = <<defs'[Len(defs')].fn>>
    BY <1>1, <1>3, <1>4
  <2>4. phase' \in {"parse", "start"} /\ cur' = 0 /\ stage' = "enter"
    BY <1>1 DEF TInv, ParserOK
  <2> QED BY <2>1, <2>2, <2>3, <2>4 DEF ParserOK
<1> QED BY <1>6, <1>7 DEF TInv

\* what a statement does to the tree
LEMMA AddStatementDefs ==
  ASSUME TInv, NEW item \in Item, AddStatement(item)
  PROVE  /\ Len(defs) \in DOMAIN defs /\ scope = <<defs[Len(defs)].fn>>
         /\ defs' \in Seq(Definition) /\ Len(defs') = Len(defs) /\ DOMAIN defs' = DOMAIN defs
         /\ \A d \in DOMAIN defs :
              /\ defs'[d].fn = defs[d].fn /\ defs'[d].args = defs[d].args
              /\ d # Len(defs) => defs'[d] = defs[d]
         /\ defs'[Len(defs)].body = Append(defs[Len(defs)].body, item)
<1> DEFINE n == Len(defs)
           new == [defs[n] EXCEPT !.body = Append(@, item)]
<1>1. defs' = [defs EXCEPT ![n].body = Append(@, item)] /\ scope # <<>>
  BY DEF AddStatement
<1>2. defs \in Seq(Definition) /\ n \in Nat /\ n > 0 /\ scope = <<defs[n].fn>>
  BY <1>1 DEF TInv, TypeOK, ParserOK
<1>3. n \in DOMAIN defs /\ DOMAIN defs = 1 .. n BY <1>2
<1>4. defs[n] \in Definition BY <1>2, <1>3
<1>5. new \in Definition /\ new.fn = defs[n].fn /\ new.args = defs[n].args
      /\ new.body = Append(defs[n].body, item)
  BY <1>4 DEF Definition
<1>6. defs' = [defs EXCEPT ![n] = new] BY <1>1
<1> HIDE DEF new
<1>7. DOMAIN defs' = DOMAIN defs /\ defs'[n] = new /\ \A d \in DOMAIN defs : d # n => defs'[d] = defs[d]
  BY <1>2, <1>3, <1>6
<1>8. defs' \in Seq(Definition) /\ Len(defs') = n
  BY <1>2, <1>3, <1>5, <1>6
<1> QED BY <1>2, <1>3, <1>5, <1>7, <1>8

LEMMA AddStatementType ==
  ASSUME TInv, NEW item \in Item, AddStatement(item),
         DOMAIN syms \subseteq DOMAIN syms', DOMAIN syms' \subseteq Keys,
         syms' \in [DOMAIN syms' -> Symbols], SymbolsTyped',
         item.op = "decl" => Append(scope, item.name) \in DOMAIN syms'
  PROVE  TInv'
<1>1. /\ phase = "parse" /\ scope # <<>>
      /\ UNCHANGED <<phase, scope, cur, stage, idx, frame_addr, addr, local_stack, pos,
                     rets, entry>>
  BY DEF AddStatement, visitor, written
<1>2. /\ Len(defs) \in DOMAIN defs /\ scope = <<defs[Len(defs)].fn>>
      /\ defs' \in Seq(Definition) /\ Len(defs') = Len(defs) /\ DOMAIN defs' = DOMAIN defs
      /\ \A d \in DOMAIN defs :
           /\ defs'[d].fn = defs[d].fn /\ defs'[d].args = defs[d].args
           /\ d # Len(defs) => defs'[d] = defs[d]
      /\ defs'[Len(defs)].body = Append(defs[Len(defs)].body, item)
  BY AddStatementDefs
<1>3. TypeOK'
  <2>1. cur' \in 0 .. Len(defs') /\ DOMAIN rets' \subseteq DOMAIN defs'
    BY <1>1, <1>2 DEF TInv, TypeOK
  <2>2. DOMAIN addr' \subseteq DOMAIN syms' /\ addr' \in [DOMAIN addr' -> Int]
    BY <1>1 DEF TInv, TypeOK
  <2>3. phase' \in {"parse", "start", "code", "done", "error"}
        /\ scope' \in {<<>>} \union Globals
        /\ stage' \in {"enter", "args", "body"} /\ idx' \in Nat \ {0}
        /\ (stage' # "enter" => cur' > 0) /\ frame_addr' \in Nat /\ pos' \in Nat
        /\ DOMAIN local_stack' \subseteq Funcs /\ local_stack' \in [DOMAIN local_stack' -> Nat]
        /\ DOMAIN entry' \subseteq Nat
    BY <1>1 DEF TInv, TypeOK
  <2> QED BY <1>2, <2>1, <2>2, <2>3 DEF TypeOK
<1>4. ParserOK'
  <2>1. \A d \in DOMAIN defs' : DefNamed(d)'
    <3> TAKE d \in DOMAIN defs'
    <3>1. DefNamed(d) BY <1>2 DEF TInv, ParserOK
    <3>2. CASE d # Len(defs)
      <4>1. defs'[d] = defs[d] BY <3>2, <1>2
      <4> QED BY <3>1, <4>1 DEF DefNamed
    <3>3. CASE d = Len(defs)
      <4> DEFINE b == defs[d].body
      <4>1. b \in Seq(Item) /\ DOMAIN b = 1 .. Len(b) /\ Len(b) \in Nat
        <5>1. b \in Seq(Item) BY <3>3, <1>2, DefType DEF TInv
        <5> QED BY <5>1
      <4>2. Append(b, item) \in Seq(Item) /\ DOMAIN Append(b, item) = 1 .. (Len(b) + 1)
            /\ (\A i \in DOMAIN b : Append(b, item)[i] = b[i])
            /\ Append(b, item)[Len(b) + 1] = item
        <5> HIDE DEF b
        <5> QED BY <4>1, AppendProperties
      <4>3. defs'[d].fn = defs[d].fn /\ defs'[d].args = defs[d].args
            /\ defs'[d].body = Append(b, item)
        BY <3>3, <1>2
      <4>4. Append(scope, item.name) = <<defs[d].fn, item.name>>
        BY <3>3, <1>2, Singletons
      <4>5. \A i \in DOMAIN b : b[i].op = "decl" => <<defs[d].fn, b[i].name>> \in DOMAIN syms'
        BY <3>1 DEF DefNamed
      <4>6. <<defs[d].fn>> \in DOMAIN syms'
            /\ \A i \in DOMAIN defs[d].args : <<defs[d].fn, defs[d].args[i].name>> \in DOMAIN syms'
        BY <3>1 DEF DefNamed
      <4> HIDE DEF b
      <4>7. \A i \in DOMAIN Append(b, item) : Append(b, item)[i].op = "decl"
              => <<defs[d].fn, Append(b, item)[i].name>> \in DOMAIN syms'
        <5> TAKE i \in DOMAIN Append(b, item)
        <5>1. CASE i \in DOMAIN b BY <5>1, <4>2, <4>5
        <5>2. CASE i = Len(b) + 1 BY <5>2, <4>2, <4>4
        <5> QED BY <5>1, <5>2, <4>1, <4>2
      <4> QED BY <4>3, <4>6, <4>7 DEF DefNamed
    <3> QED BY <3>2, <3>3
  <2>2. scope' # <<>> => Len(defs') > 0 /\ scope' = <<defs'[Len(defs')].fn>>
    BY <1>1, <1>2 DEF TInv, ParserOK
  <2>3. phase' \in {"parse", "start"} /\ cur' = 0 /\ stage' = "enter"
    BY <1>1 DEF TInv, ParserOK
  <2> QED BY <2>1, <2>2, <2>3 DEF ParserOK
<1> QED BY <1>3, <1>4 DEF TInv

LEMMA ParseType == TInv /\ Parse => TInv'
<1> SUFFICES ASSUME TInv, Parse PROVE TInv' OBVIOUS
<1>1. ASSUME NEW f \in Funcs, NEW args \in ArgLists, EnterScope(f, args) PROVE TInv'
  BY <1>1, EnterScopeType
<1>2. ASSUME NEW x \in Vars, NEW t \in Types, Declare(x, t) PROVE TInv'
  <2> DEFINE item == [op |-> "decl", name |-> x, args |-> <<>>]
             k == Append(scope, x)
  <2>1. item \in Item /\ item.name = x BY DEF Item
  <2>2. AddStatement(item) /\ syms' = With(syms, k, VarSym(t, 0)) BY <1>2 DEF Declare
  <2>3. PICK f \in Funcs : scope = <<f>>
    BY <2>2 DEF AddStatement, TInv, TypeOK, Globals
  <2>4. k = <<f, x>> /\ k \in Keys BY <2>3, Singletons DEF Keys
  <2>5. VarSym(t, 0) \in Symbols /\ VarSym(t, 0).ty \in Types
    BY LayoutAssumption DEF VarSym, Symbols
  <2> HIDE DEF item, k
  <2>6. syms \in [DOMAIN syms -> Symbols] /\ DOMAIN syms \subseteq Keys BY DEF TInv, TypeOK
  <2>7. /\ DOMAIN syms' = DOMAIN syms \union {k} /\ syms' \in [DOMAIN syms' -> Symbols]
        /\ syms'[k] = VarSym(t, 0) /\ \A l \in DOMAIN syms : l # k => syms'[l] = syms[l]
    BY <2>2, <2>5, <2>6 DEF With
  <2>8. SymbolsTyped' BY <2>5, <2>7 DEF TInv, ParserOK, SymbolsTyped
  <2>9. Append(scope, item.name) \in DOMAIN syms' BY <2>1, <2>7 DEF k
  <2> QED BY <2>1, <2>2, <2>4, <2>6, <2>7, <2>8, <2>9, AddStatementType
<1>3. ASSUME NEW item \in Item, AddStatement(item), UNCHANGED syms, item.op # "decl" PROVE TInv'
  <2>1. DOMAIN syms' = DOMAIN syms /\ DOMAIN syms' \subseteq Keys
        /\ syms' \in [DOMAIN syms' -> Symbols] /\ SymbolsTyped'
    BY <1>3 DEF TInv, TypeOK, ParserOK, SymbolsTyped
  <2> QED BY <1>3, <2>1, AddStatementType
<1>4. ASSUME NEW x \in Vars, Mention(x) PROVE TInv'
  <2> DEFINE item == [op |-> "use", name |-> x, args |-> <<>>]
  <2>1. item \in Item /\ item.op # "decl" BY DEF Item
  <2>2. AddStatement(item) /\ UNCHANGED syms BY <1>4 DEF Mention
  <2> HIDE DEF item
  <2> QED BY <2>1, <2>2, <1>3
<1>5. ASSUME NEW g \in Funcs, NEW tys \in TypeLists, CallArgs(g, tys) PROVE TInv'
  <2> DEFINE item == [op |-> "call", name |-> g, args |-> tys]
  <2>1. item \in Item /\ item.op # "decl" BY DEF Item
  <2>2. AddStatement(item) /\ UNCHANGED syms BY <1>5 DEF CallArgs
  <2> HIDE DEF item
  <2> QED BY <2>1, <2>2, <1>3
<1>6. CASE LeaveScope
  <2>1. /\ scope' = <<>>
        /\ UNCHANGED <<phase, defs, syms, cur, stage, idx, frame_addr, addr, local_stack,
                       pos, rets, entry>>
    BY <1>6 DEF LeaveScope, visitor, written
  <2>2. TypeOK' BY <2>1 DEF TInv, TypeOK
  <2>3. \A d \in DOMAIN defs' : DefNamed(d)' BY <2>1 DEF TInv, ParserOK, DefNamed
  <2>4. SymbolsTyped' BY <2>1 DEF TInv, ParserOK, SymbolsTyped
  <2>5. phase = "parse" /\ cur = 0 /\ stage = "enter"
    BY <1>6 DEF LeaveScope, TInv, ParserOK
  <2> QED BY <2>1, <2>2, <2>3, <2>4, <2>5 DEF TInv, ParserOK
<1>7. CASE Parsed
  <2>1. /\ phase' = "start"
        /\ cur = 0 /\ stage = "enter"
        /\ UNCHANGED <<defs, scope, syms, cur, stage, idx, frame_addr, addr, local_stack,
                       pos, rets, entry>>
    BY <1>7 DEF Parsed, parser, visitor, written, TInv, ParserOK
  <2>2. TypeOK' BY <2>1 DEF TInv, TypeOK
  <2>3. ParserOK' BY <2>1, ParserUnchanged DEF parser
  <2> QED BY <2>2, <2>3 DEF TInv
<1> QED BY <1>1, <1>2, <1>4, <1>5, <1>6, <1>7 DEF Parse

LEMMA ThrowType == TInv /\ Throw => TInv'
<1> SUFFICES ASSUME TInv, Throw PROVE TInv' OBVIOUS
<1>1. /\ phase' = "error"
      /\ UNCHANGED <<defs, scope, syms, cur, stage, idx, frame_addr, addr, local_stack,
                     pos, rets, entry>>
  BY DEF Throw, parser, visitor, written
<1>2. TypeOK' BY <1>1 DEF TInv, TypeOK
<1>3. ParserOK' BY <1>1, ParserUnchanged DEF parser
<1> QED BY <1>2, <1>3 DEF TInv

\* the type invariant of a step that leaves the parser's state alone
LEMMA GeneratorType ==
  ASSUME TInv, UNCHANGED parser, phase' \in {"code", "done"},
         cur' \in 0 .. Len(defs), stage' \in {"enter", "args", "body"}, idx' \in Nat \ {0},
         stage' # "enter" => cur' > 0,
         stage' = "args" => idx' <= Len(defs[cur'].args) + 1,
         frame_addr' \in Nat, pos' \in Nat,
         DOMAIN addr' \subseteq DOMAIN syms, addr' \in [DOMAIN addr' -> Int],
         DOMAIN local_stack' \subseteq Funcs, local_stack' \in [DOMAIN local_stack' -> Nat],
         DOMAIN rets' \subseteq DOMAIN defs, DOMAIN entry' \subseteq Nat
  PROVE  TInv'
<1>1. TypeOK' BY DEF TInv, TypeOK, parser
<1>2. ParserOK' BY ParserUnchanged
<1> QED BY <1>1, <1>2 DEF TInv

\* the state before a step of the generator
LEMMA GeneratorState ==
  ASSUME TInv
  PROVE  /\ cur \in 0 .. Len(defs) /\ cur \in Int /\ Len(defs) \in Nat
         /\ idx \in Nat \ {0} /\ frame_addr \in Nat /\ pos \in Nat
         /\ DOMAIN addr \subseteq DOMAIN syms /\ addr \in [DOMAIN addr -> Int]
         /\ DOMAIN local_stack \subseteq Funcs /\ local_stack \in [DOMAIN local_stack -> Nat]
         /\ DOMAIN rets \subseteq DOMAIN defs /\ DOMAIN entry \subseteq Nat
         /\ stage \in {"enter", "args", "body"} /\ (stage # "enter" => cur > 0)
         /\ AddrSize \in Nat \ {0} /\ DOMAIN defs = 1 .. Len(defs)
<1>1. defs \in Seq(Definition) BY DEF TInv, TypeOK
<1>2. Len(defs) \in Nat /\ DOMAIN defs = 1 .. Len(defs) BY <1>1
<1> QED BY <1>2, LayoutAssumption DEF TInv, TypeOK

LEMMA LocalStackType ==
  ASSUME TInv, stage # "enter" PROVE LocalStack \in Nat
BY GeneratorState DEF LocalStack

LEMMA GenerateType == TInv /\ Generate => TInv'
<1> SUFFICES ASSUME TInv, Generate PROVE TInv' OBVIOUS
<1>0. /\ cur \in 0 .. Len(defs) /\ cur \in Int /\ Len(defs) \in Nat
      /\ idx \in Nat \ {0} /\ frame_addr \in Nat /\ pos \in Nat
      /\ DOMAIN addr \subseteq DOMAIN syms /\ addr \in [DOMAIN addr -> Int]
      /\ DOMAIN local_stack \subseteq Funcs /\ local_stack \in [DOMAIN local_stack -> Nat]
      /\ DOMAIN rets \subseteq DOMAIN defs /\ DOMAIN entry \subseteq Nat
      /\ stage \in {"enter", "args", "body"} /\ (stage # "enter" => cur > 0)
      /\ AddrSize \in Nat \ {0} /\ DOMAIN defs = 1 .. Len(defs)
  BY GeneratorState
<1>1. CASE Start
  <2>1. phase' = "code" /\ cur' = Len(defs) /\ pos' = pos + 1 /\ stage = "enter"
        /\ UNCHANGED <<parser, stage, idx, frame_addr, addr, local_stack, rets, entry>>
    <3>1. stage = "enter" BY <1>1 DEF Start, TInv, ParserOK
    <3> QED BY <1>1, <3>1 DEF Start
  <2> QED BY <1>0, <2>1, GeneratorType
<1>2. CASE EnterFunc
  <2>1. /\ phase' = "code" /\ stage' = "args" /\ idx' = 1 /\ frame_addr' = 2 * AddrSize
        /\ cur > 0 /\ UNCHANGED <<parser, cur, addr, local_stack, pos, rets, entry>>
    BY <1>2 DEF EnterFunc, written
  <2>2. Len(defs[cur].args) \in Nat BY <1>0, <2>1, DefType, LayoutAssumption DEF TInv
  <2> QED BY <1>0, <2>1, <2>2, GeneratorType
<1>3. CASE PlaceArg
  <2>1. /\ phase' = "code" /\ stage = "args" /\ idx <= Len(Def.args) /\ idx' = idx + 1
        /\ addr' = With(addr, ArgKey, frame_addr) /\ frame_addr' = frame_addr + Size(ArgKey)
        /\ UNCHANGED <<parser, cur, stage, local_stack, pos, rets, entry>>
    BY <1>3 DEF PlaceArg, NextArg, written
  <2>2. idx \in DOMAIN Def.args /\ Len(Def.args) \in Nat BY <1>0, <2>1, VisitedDef
  <2>3. ArgKey = <<Def.fn, Def.args[idx].name>> /\ ArgKey \in DOMAIN syms /\ Len(ArgKey) = 2
    BY <2>1, <2>2, VisitedDef, Singletons DEF ArgKey
  <2>4. Size(ArgKey) \in Nat BY <2>3, SizeType
  <2>5. DOMAIN addr' = DOMAIN addr \union {ArgKey} /\ addr' \in [DOMAIN addr' -> Int]
    BY <1>0, <2>1 DEF With
  <2>6. idx' <= Len(defs[cur'].args) + 1 BY <1>0, <2>1, <2>2 DEF Def
  <2>7. frame_addr' \in Nat /\ idx' \in Nat \ {0} BY <1>0, <2>1, <2>4
  <2>8. DOMAIN addr' \subseteq DOMAIN syms BY <1>0, <2>3, <2>5
  <2> HIDE DEF ArgKey
  <2>9. stage' = "args" /\ phase' = "code" /\ cur' = cur /\ pos' = pos /\ rets' = rets
        /\ entry' = entry /\ local_stack' = local_stack /\ UNCHANGED parser
    BY <2>1
  <2>10. cur' \in 0 .. Len(defs) /\ stage' \in {"enter", "args", "body"} /\ cur' > 0 /\ pos' \in Nat
         /\ DOMAIN local_stack' \subseteq Funcs /\ local_stack' \in [DOMAIN local_stack' -> Nat]
         /\ DOMAIN rets' \subseteq DOMAIN defs /\ DOMAIN entry' \subseteq Nat
    BY <1>0, <2>1, <2>9
  <2>11. addr' \in [DOMAIN addr' -> Int] BY <2>5
  <2> QED BY <2>6, <2>7, <2>8, <2>9, <2>10, <2>11, GeneratorType
<1>4. CASE AddressFunc
  <2>1. /\ phase' = "code" /\ stage = "args" /\ stage' = "body" /\ idx' = 1
        /\ addr' = With(addr, Find(CurScope, Def.fn), pos) /\ entry' = With(entry, pos, cur)
        /\ UNCHANGED <<parser, cur, frame_addr, local_stack, pos, rets>>
    BY <1>4 DEF AddressFunc
  <2>2. Find(CurScope, Def.fn) \in DOMAIN syms BY <2>1, VisitedDef
  <2>3. PICK k : k = Find(CurScope, Def.fn) OBVIOUS
  <2>4. DOMAIN addr' = DOMAIN addr \union {k} /\ addr' \in [DOMAIN addr' -> Int]
    BY <1>0, <2>1, <2>3 DEF With
  <2>5. DOMAIN entry' = DOMAIN entry \union {pos} BY <2>1 DEF With
  <2> QED BY <1>0, <2>1, <2>2, <2>3, <2>4, <2>5, GeneratorType
<1>5. CASE VisitVarDecl
  <2>1. /\ phase' = "code" /\ stage = "body" /\ idx <= Len(Def.body) /\ Stmt.op = "decl"
        /\ idx' = idx + 1 /\ pos' = pos + 1
        /\ addr' = With(addr, Key, -(LocalStack + Size(Key)))
        /\ local_stack' = With(local_stack, Def.fn, LocalStack + Size(Key))
        /\ UNCHANGED <<parser, cur, stage, frame_addr, rets, entry>>
    BY <1>5 DEF VisitVarDecl, Visits, WriteAccess
  <2>2. idx \in DOMAIN Def.body BY <1>0, <2>1, VisitedDef
  <2>3. Key = <<Def.fn, Stmt.name>> /\ Key \in DOMAIN syms /\ Len(Key) = 2
    BY <2>1, <2>2, VisitedDef, Singletons DEF Key, Stmt
  <2>4. Size(Key) \in Nat /\ LocalStack \in Nat BY <2>1, <2>3, SizeType, LocalStackType
  <2>5. DOMAIN addr' = DOMAIN addr \union {Key} /\ addr' \in [DOMAIN addr' -> Int]
    BY <1>0, <2>1, <2>4 DEF With
  <2>6. DOMAIN local_stack' = DOMAIN local_stack \union {Def.fn}
        /\ local_stack' \in [DOMAIN local_stack' -> Nat]
    BY <1>0, <2>1, <2>4 DEF With
  <2>7. Def.fn \in Funcs BY <2>1, VisitedDef
  <2>8. DOMAIN addr' \subseteq DOMAIN syms /\ DOMAIN local_stack' \subseteq Funcs
    BY <1>0, <2>3, <2>5, <2>6, <2>7
  <2>9. phase' = "code" /\ stage' = "body" /\ cur' = cur /\ idx' \in Nat \ {0} /\ pos' \in Nat
        /\ frame_addr' = frame_addr /\ rets' = rets /\ entry' = entry /\ UNCHANGED parser
    BY <1>0, <2>1
  <2>10. cur' \in 0 .. Len(defs) /\ stage' \in {"enter", "args", "body"} /\ cur' > 0
         /\ frame_addr' \in Nat /\ DOMAIN rets' \subseteq DOMAIN defs /\ DOMAIN entry' \subseteq Nat
    BY <1>0, <2>1, <2>9
  <2>11. addr' \in [DOMAIN addr' -> Int] /\ local_stack' \in [DOMAIN local_stack' -> Nat]
    BY <2>5, <2>6
  <2> QED BY <2>8, <2>9, <2>10, <2>11, GeneratorType
<1>6. CASE VisitVar
  <2>1. /\ phase' = "code" /\ stage = "body" /\ idx' = idx + 1 /\ pos' = pos + 1
        /\ UNCHANGED <<parser, cur, stage, frame_addr, addr, local_stack, rets, entry>>
    BY <1>6 DEF VisitVar, Visits, WriteAccess
  <2> QED BY <1>0, <2>1, GeneratorType
<1>7. CASE VisitCall
  <2>1. /\ phase' = "code" /\ stage = "body" /\ idx' = idx + 1 /\ pos' = pos + 1
        /\ UNCHANGED <<parser, cur, stage, frame_addr, addr, local_stack, rets, entry>>
    BY <1>7 DEF VisitCall, Visits
  <2> QED BY <1>0, <2>1, GeneratorType
<1>8. CASE LeaveFunc
  <2>1. /\ phase' = "code" /\ stage = "body" /\ stage' = "enter" /\ cur' = cur - 1
        /\ pos' = pos + 1 /\ DOMAIN rets' = DOMAIN rets \union {cur}
        /\ UNCHANGED <<parser, idx, frame_addr, addr, local_stack, entry>>
    BY <1>8 DEF LeaveFunc, With
  <2>2. cur \in DOMAIN defs BY <1>0, <2>1
  <2> QED BY <1>0, <2>1, <2>2, GeneratorType
<1>9. CASE Finish
  <2>1. /\ phase' = "done" /\ stage = "enter"
        /\ UNCHANGED <<parser, cur, stage, idx, frame_addr, addr, local_stack, pos, rets, entry>>
    BY <1>9 DEF Finish, AllVisited, visitor, written
  <2> QED BY <1>0, <2>1, GeneratorType
<1>10. CASE Throw BY <1>10, ThrowType
<1> QED BY <1>1, <1>2, <1>3, <1>4, <1>5, <1>6, <1>7, <1>8, <1>9, <1>10
        DEF Generate, StartError, PlaceArgError, VarDeclError, VarError, CallError, FinishError

LEMMA StutterType == TInv /\ UNCHANGED vars => TInv'
<1> SUFFICES ASSUME TInv, UNCHANGED vars PROVE TInv' OBVIOUS
<1>1. UNCHANGED <<phase, defs, scope, syms, cur, stage, idx, frame_addr, addr, local_stack,
                  pos, rets, entry>>
  BY DEF vars, parser, visitor, written
<1>2. TypeOK' BY <1>1 DEF TInv, TypeOK
<1>3. \A d \in DOMAIN defs' : DefNamed(d)' BY <1>1 DEF TInv, ParserOK, DefNamed
<1>4. SymbolsTyped' BY <1>1 DEF TInv, ParserOK, SymbolsTyped
<1>5. Def' = Def BY <1>1 DEF Def
<1> QED BY <1>1, <1>2, <1>3, <1>4, <1>5 DEF TInv, ParserOK

\* The types of the parser's and the generator's state, for all programs.
THEOREM TypeCorrect == Spec => []TypeOK
<1>1. Init => TInv BY InitType
<1>2. TInv /\ [Next]_vars => TInv' BY ParseType, GenerateType, StutterType DEF Next
<1>3. TInv => TypeOK BY DEF TInv
<1> QED BY <1>1, <1>2, <1>3, PTL DEF Spec

-------------------------------------------------------------------------------
(***************************************************************************)
(* Slots.  While a function is visited its arguments pile up from the      *)
(* saved pointers to frame_addr and its locals down to -local_stack; no    *)
(* variable of a function has an address before its visit.                 *)
(***************************************************************************)
Once == \A c, d \in DOMAIN defs : defs[c].fn = defs[d].fn => c = d

Untouched == phase \in {"parse", "start"} => DOMAIN addr = {}

VisitBegun ==
  \A k \in Variables : \E d \in DOMAIN defs :
    Scope(k) = <<defs[d].fn>> /\ (d > cur \/ (d = cur /\ stage # "enter"))

Above(k) == 2 * AddrSize <= addr[k]
Below(k) == \E f \in DOMAIN local_stack :
              Scope(k) = <<f>> /\ -local_stack[f] <= addr[k] /\ addr[k] + Size(k) <= 0

TwoAreas == \A k \in Variables : Above(k) \/ Below(k)

ArgsBelow ==
  stage = "args" =>
    /\ 2 * AddrSize <= frame_addr
    /\ \A k \in Variables : Scope(k) = <<Def.fn>> => addr[k] + Size(k) <= frame_addr

Apart(k, l) == addr[k] + Size(k) <= addr[l] \/ addr[l] + Size(l) <= addr[k]

SlotsApart == \A k, l \in Variables : Scope(k) = Scope(l) /\ k # l => Apart(k, l)

SlotInv == Once /\ Untouched /\ VisitBegun /\ TwoAreas /\ ArgsBelow /\ SlotsApart

LEMMA GenerateParser == Generate => UNCHANGED parser
BY DEF Generate, Start, StartError, EnterFunc, PlaceArg, PlaceArgError, AddressFunc,
       VisitVarDecl, VarDeclError, VisitVar, VarError, VisitCall, CallError, LeaveFunc,
       Finish, FinishError, WriteAccess, Throw, parser

LEMMA ParseState ==
  ASSUME TInv, Parse
  PROVE  /\ phase = "parse" /\ phase' \in {"parse", "start"} /\ stage = "enter" /\ cur = 0
         /\ UNCHANGED <<visitor, addr, local_stack, written>>
<1>1. phase = "parse" /\ phase' \in {"parse", "start"}
      /\ UNCHANGED <<visitor, addr, local_stack, written>>
  BY DEF Parse, EnterScope, Declare, Mention, CallArgs, AddStatement, LeaveScope, Parsed
<1> QED BY <1>1 DEF TInv, ParserOK

LEMMA OnceKept == TInv /\ Once /\ ~Redefine /\ Next => Once'
<1> SUFFICES ASSUME TInv, Once, ~Redefine, Next PROVE Once' OBVIOUS
<1>1. CASE defs' = defs BY <1>1 DEF Once
<1>2. ASSUME NEW f \in Funcs, NEW args \in ArgLists, EnterScope(f, args) PROVE Once'
  <2> DEFINE new == [fn |-> f, args |-> args, body |-> <<>>]
  <2>1. defs' = Append(defs, new) /\ \A d \in DOMAIN defs : defs[d].fn # f
    BY <1>2 DEF EnterScope
  <2>2. defs \in Seq(Definition) /\ new \in Definition /\ new.fn = f
    BY DEF TInv, TypeOK, Definition
  <2> HIDE DEF new
  <2>3. DOMAIN defs' = 1 .. (Len(defs) + 1) /\ DOMAIN defs = 1 .. Len(defs) /\ Len(defs) \in Nat
        /\ defs'[Len(defs) + 1] = new /\ (\A d \in DOMAIN defs : defs'[d] = defs[d])
    BY <2>1, <2>2, AppendProperties
  <2>4. \A d \in DOMAIN defs' : d \in DOMAIN defs \/ d = Len(defs) + 1 BY <2>3
  <2> QED BY <2>1, <2>2, <2>3, <2>4 DEF Once
<1>3. ASSUME NEW item \in Item, AddStatement(item) PROVE Once'
  <2>1. DOMAIN defs' = DOMAIN defs /\ \A d \in DOMAIN defs : defs'[d].fn = defs[d].fn
    BY <1>3, AddStatementDefs
  <2> QED BY <2>1 DEF Once
<1>4. ASSUME NEW x \in Vars, NEW t \in Types, Declare(x, t) PROVE Once'
  <2>1. [op |-> "decl", name |-> x, args |-> <<>>] \in Item BY DEF Item
  <2> QED BY <1>4, <2>1, <1>3 DEF Declare
<1>5. ASSUME NEW x \in Vars, Mention(x) PROVE Once'
  <2>1. [op |-> "use", name |-> x, args |-> <<>>] \in Item BY DEF Item
  <2> QED BY <1>5, <2>1, <1>3 DEF Mention
<1>6. ASSUME NEW g \in Funcs, NEW tys \in TypeLists, CallArgs(g, tys) PROVE Once'
  <2>1. [op |-> "call", name |-> g, args |-> tys] \in Item BY DEF Item
  <2> QED BY <1>6, <2>1, <1>3 DEF CallArgs
<1>7. LeaveScope \/ Parsed \/ Generate => defs' = defs
  BY GenerateParser DEF LeaveScope, Parsed, parser
<1> QED BY <1>1, <1>2, <1>4, <1>5, <1>6, <1>7 DEF Next, Parse

\* with names apart, a function's name is always that of the global function
LEMMA GlobalName ==
  ASSUME TInv, VarsApart, NEW f, NEW g \in Funcs
  PROVE  Find(<<f>>, g) = <<g>>
<1>0. Append(<<f>>, g) = <<f, g>> BY Singletons
<1>1. SUFFICES <<f, g>> \notin DOMAIN syms BY <1>0 DEF Find
<1>2. SUFFICES ASSUME <<f, g>> \in Keys PROVE FALSE BY DEF TInv, TypeOK
<1>3. PICK k \in Keys : k = <<f, g>> BY <1>2
<1>4. Len(k) = 2 BY <1>3, Singletons
<1>5. PICK e \in Funcs, x \in Vars : k = <<e, x>> BY <1>4, KeyShape
<1>6. g = x BY <1>3, <1>5, Singletons
<1> QED BY <1>6 DEF VarsApart

\* the invariant over a step of the generator that places no variable
LEMMA SlotsKept ==
  ASSUME SlotInv, UNCHANGED <<defs, syms>>, phase' \notin {"parse", "start"},
         Variables' = Variables, \A k \in Variables : addr'[k] = addr[k],
         local_stack' = local_stack,
         VisitBegun', ArgsBelow'
  PROVE  SlotInv'
<1>1. \A k : Size(k)' = Size(k) BY DEF Size
<1>2. Once' BY DEF SlotInv, Once
<1>3. Untouched' BY DEF Untouched
<1>4. TwoAreas'
  <2> SUFFICES ASSUME NEW k \in Variables' PROVE Above(k)' \/ Below(k)' BY DEF TwoAreas
  <2>1. Above(k) \/ Below(k) BY DEF SlotInv, TwoAreas
  <2>2. addr'[k] = addr[k] /\ Size(k)' = Size(k) BY <1>1
  <2> QED BY <2>1, <2>2 DEF Above, Below
<1>5. SlotsApart'
  <2> SUFFICES ASSUME NEW k \in Variables', NEW l \in Variables', Scope(k) = Scope(l), k # l
               PROVE  Apart(k, l)'
    BY DEF SlotsApart
  <2>1. Apart(k, l) BY DEF SlotInv, SlotsApart
  <2>2. addr'[k] = addr[k] /\ Size(k)' = Size(k) /\ addr'[l] = addr[l] /\ Size(l)' = Size(l)
    BY <1>1
  <2> QED BY <2>1, <2>2 DEF Apart
<1> QED BY <1>2, <1>3, <1>4, <1>5 DEF SlotInv

LEMMA VariableType ==
  ASSUME TInv, NEW k \in Variables
  PROVE  /\ k \in DOMAIN addr /\ k \in DOMAIN syms /\ Len(k) = 2
         /\ addr[k] \in Int /\ Size(k) \in Nat \ {0}
<1>1. k \in DOMAIN addr /\ k \in DOMAIN syms /\ k \in Keys /\ Len(k) > 1
  BY DEF Variables, TInv, TypeOK
<1>2. Len(k) = 2
  <2>1. Len(k) = 1 \/ Len(k) = 2 BY <1>1, KeyShape, Zenon
  <2>2. PICK n : n = Len(k) OBVIOUS
  <2>3. n > 1 BY <1>1, <2>2
  <2>4. n = 1 \/ n = 2 BY <2>1, <2>2
  <2>5. n = 2 BY <2>3, <2>4
  <2> QED BY <2>2, <2>5
<1>3. addr[k] \in Int BY <1>1, GeneratorState
<1>4. Size(k) \in Nat \ {0} BY <1>1, <1>2, SizeType
<1> QED BY <1>1, <1>2, <1>3, <1>4

LEMMA PlaceArgSlots == TInv /\ SlotInv /\ PlaceArg => SlotInv'
<1> SUFFICES ASSUME TInv, SlotInv, PlaceArg PROVE SlotInv' OBVIOUS
<1>1. /\ phase = "code" /\ phase' = "code" /\ stage = "args" /\ stage' = "args"
      /\ idx <= Len(Def.args) /\ ArgKey \notin DOMAIN addr
      /\ addr' = With(addr, ArgKey, frame_addr) /\ frame_addr' = frame_addr + Size(ArgKey)
      /\ defs' = defs /\ syms' = syms /\ cur' = cur /\ local_stack' = local_stack
  BY DEF PlaceArg, NextArg, ArgOK, parser
<1>2. idx \in DOMAIN Def.args
  <2>1. idx \in Nat \ {0} BY GeneratorState
  <2> QED BY <1>1, <2>1, VisitedDef
<1>3. ArgKey = <<Def.fn, Def.args[idx].name>> /\ ArgKey \in DOMAIN syms /\ cur \in DOMAIN defs
  BY <1>1, <1>2, VisitedDef DEF ArgKey
<1>4. PICK k : k = ArgKey OBVIOUS
<1>5. Len(k) = 2 /\ Scope(k) = <<Def.fn>> BY <1>3, <1>4, Singletons
<1>6. Size(k) \in Nat \ {0} BY <1>3, <1>4, <1>5, SizeType
<1>7. k \notin Variables /\ Variables' = Variables \union {k} /\ addr'[k] = frame_addr
      /\ \A l \in Variables : addr'[l] = addr[l]
  BY <1>1, <1>4, <1>5 DEF Variables, With
<1>8. \A l : Size(l)' = Size(l) BY <1>1 DEF Size
<1>9. frame_addr \in Nat /\ AddrSize \in Nat \ {0} BY GeneratorState
<1>10. 2 * AddrSize <= frame_addr
       /\ \A l \in Variables : Scope(l) = <<Def.fn>> => addr[l] + Size(l) <= frame_addr
  BY <1>1 DEF SlotInv, ArgsBelow
<1>11. Once' /\ Untouched' BY <1>1 DEF SlotInv, Once, Untouched
<1>12. VisitBegun'
  <2> SUFFICES ASSUME NEW l \in Variables'
               PROVE  \E d \in DOMAIN defs' :
                        Scope(l) = <<defs'[d].fn>> /\ (d > cur' \/ (d = cur' /\ stage' # "enter"))
    BY DEF VisitBegun
  <2>1. CASE l = k
    <3>1. Scope(l) = <<defs'[cur].fn>> BY <2>1, <1>1, <1>5 DEF Def
    <3> QED BY <3>1, <1>1, <1>3
  <2>2. CASE l \in Variables BY <2>2, <1>1 DEF SlotInv, VisitBegun
  <2> QED BY <2>1, <2>2, <1>7
<1>13. TwoAreas'
  <2> SUFFICES ASSUME NEW l \in Variables' PROVE Above(l)' \/ Below(l)' BY DEF TwoAreas
  <2>1. CASE l = k BY <2>1, <1>7, <1>10 DEF Above
  <2>2. CASE l \in Variables
    <3>1. Above(l) \/ Below(l) BY <2>2 DEF SlotInv, TwoAreas
    <3>2. addr'[l] = addr[l] /\ Size(l)' = Size(l) BY <2>2, <1>7, <1>8
    <3> QED BY <3>1, <3>2, <1>1 DEF Above, Below
  <2> QED BY <2>1, <2>2, <1>7
<1>14. ArgsBelow'
  <2>1. Def' = Def BY <1>1 DEF Def
  <2>2. 2 * AddrSize <= frame_addr' BY <1>1, <1>4, <1>6, <1>9, <1>10
  <2>3. ASSUME NEW l \in Variables', Scope(l) = <<Def.fn>>
        PROVE  addr'[l] + Size(l)' <= frame_addr'
    <3>1. CASE l = k BY <3>1, <1>1, <1>4, <1>6, <1>7, <1>8, <1>9
    <3>2. CASE l \in Variables
      <4>1. addr[l] \in Int /\ Size(l) \in Nat BY <3>2, VariableType
      <4>2. addr[l] + Size(l) <= frame_addr BY <3>2, <2>3, <1>10
      <4>3. addr'[l] = addr[l] /\ Size(l)' = Size(l) BY <3>2, <1>7, <1>8
      <4> QED BY <4>1, <4>2, <4>3, <1>1, <1>4, <1>6, <1>9
    <3> QED BY <3>1, <3>2, <1>7
  <2> QED BY <2>1, <2>2, <2>3 DEF ArgsBelow
<1>15. SlotsApart'
  <2>1. ASSUME NEW l \in Variables, Scope(l) = Scope(k) PROVE Apart(l, k)' /\ Apart(k, l)'
    <3>1. addr[l] + Size(l) <= frame_addr BY <2>1, <1>5, <1>10
    <3>2. addr'[l] = addr[l] /\ Size(l)' = Size(l) BY <1>7, <1>8
    <3> QED BY <3>1, <3>2, <1>7 DEF Apart
  <2>2. ASSUME NEW l \in Variables, NEW m \in Variables, Scope(l) = Scope(m), l # m
        PROVE  Apart(l, m)'
    <3>1. Apart(l, m) BY <2>2 DEF SlotInv, SlotsApart
    <3>2. addr'[l] = addr[l] /\ Size(l)' = Size(l) /\ addr'[m] = addr[m] /\ Size(m)' = Size(m)
      BY <1>7, <1>8
    <3> QED BY <3>1, <3>2 DEF Apart
  <2> QED BY <2>1, <2>2, <1>7 DEF SlotsApart
<1> QED BY <1>11, <1>12, <1>13, <1>14, <1>15 DEF SlotInv

LEMMA VisitVarDeclSlots == TInv /\ SlotInv /\ VisitVarDecl => SlotInv'
<1> SUFFICES ASSUME TInv, SlotInv, VisitVarDecl PROVE SlotInv' OBVIOUS
<1>1. /\ phase = "code" /\ phase' = "code" /\ stage = "body" /\ stage' = "body"
      /\ idx <= Len(Def.body) /\ Stmt.op = "decl" /\ Key \notin DOMAIN addr
      /\ addr' = With(addr, Key, -(LocalStack + Size(Key)))
      /\ local_stack' = With(local_stack, Def.fn, LocalStack + Size(Key))
      /\ defs' = defs /\ syms' = syms /\ cur' = cur
  BY DEF VisitVarDecl, Visits, WriteAccess, parser
<1>2. idx \in DOMAIN Def.body
  <2>1. idx \in Nat \ {0} BY GeneratorState
  <2> QED BY <1>1, <2>1, VisitedDef
<1>3. Key = <<Def.fn, Stmt.name>> /\ Key \in DOMAIN syms /\ cur \in DOMAIN defs
  BY <1>1, <1>2, VisitedDef DEF Key, Stmt
<1>4. PICK k : k = Key OBVIOUS
<1>5. Len(k) = 2 /\ Scope(k) = <<Def.fn>> BY <1>3, <1>4, Singletons
<1>6. PICK n : n = LocalStack + Size(k) OBVIOUS
<1>7. Size(k) \in Nat \ {0} /\ LocalStack \in Nat /\ n \in Nat
  BY <1>1, <1>3, <1>4, <1>5, <1>6, SizeType, LocalStackType
<1>8. k \notin Variables /\ Variables' = Variables \union {k} /\ addr'[k] = -n
      /\ \A l \in Variables : addr'[l] = addr[l]
  BY <1>1, <1>4, <1>5, <1>6 DEF Variables, With
<1>9. \A l : Size(l)' = Size(l) BY <1>1 DEF Size
<1>10. /\ DOMAIN local_stack' = DOMAIN local_stack \union {Def.fn} /\ local_stack'[Def.fn] = n
       /\ \A f \in DOMAIN local_stack : f # Def.fn => local_stack'[f] = local_stack[f]
  BY <1>1, <1>4, <1>6 DEF With
<1>11. Once' /\ Untouched' BY <1>1 DEF SlotInv, Once, Untouched
<1>12. VisitBegun'
  <2> SUFFICES ASSUME NEW l \in Variables'
               PROVE  \E d \in DOMAIN defs' :
                        Scope(l) = <<defs'[d].fn>> /\ (d > cur' \/ (d = cur' /\ stage' # "enter"))
    BY DEF VisitBegun
  <2>1. CASE l = k
    <3>1. Scope(l) = <<defs'[cur].fn>> BY <2>1, <1>1, <1>5 DEF Def
    <3> QED BY <3>1, <1>1, <1>3
  <2>2. CASE l \in Variables BY <2>2, <1>1 DEF SlotInv, VisitBegun
  <2> QED BY <2>1, <2>2, <1>8
\* the locals of the function are above the new one, as its arguments are
<1>13. ASSUME NEW l \in Variables, Scope(l) = <<Def.fn>>
       PROVE  -LocalStack <= addr[l] /\ (Above(l) \/ addr[l] + Size(l) <= 0)
  <2>1. addr[l] \in Int /\ AddrSize \in Nat BY VariableType, GeneratorState
  <2>2. CASE Above(l) BY <2>1, <2>2, <1>7 DEF Above
  <2>3. CASE Below(l)
    <3>1. PICK f \in DOMAIN local_stack :
            Scope(l) = <<f>> /\ -local_stack[f] <= addr[l] /\ addr[l] + Size(l) <= 0
      BY <2>3 DEF Below
    <3>2. f = Def.fn BY <3>1, <1>13, Singletons
    <3>3. LocalStack = local_stack[f] BY <3>1, <3>2 DEF LocalStack
    <3> QED BY <3>1, <3>3
  <2> QED BY <2>2, <2>3 DEF SlotInv, TwoAreas
<1>14. TwoAreas'
  <2> SUFFICES ASSUME NEW l \in Variables' PROVE Above(l)' \/ Below(l)' BY DEF TwoAreas
  <2>1. CASE l = k
    <3>1. -n <= addr'[k] /\ addr'[k] + Size(k)' <= 0 BY <1>6, <1>7, <1>8, <1>9
    <3> QED BY <3>1, <2>1, <1>5, <1>10 DEF Below
  <2>2. CASE l \in Variables
    <3>0. addr'[l] = addr[l] /\ Size(l)' = Size(l) /\ addr[l] \in Int
      BY <2>2, <1>8, <1>9, VariableType
    <3>1. CASE Above(l) BY <3>1, <3>0 DEF Above
    <3>2. CASE Below(l)
      <4>1. PICK f \in DOMAIN local_stack :
              Scope(l) = <<f>> /\ -local_stack[f] <= addr[l] /\ addr[l] + Size(l) <= 0
        BY <3>2 DEF Below
      <4>2. -local_stack'[f] <= addr[l]
        <5>1. CASE f # Def.fn BY <5>1, <4>1, <1>10
        <5>2. CASE f = Def.fn
          <6>1. -LocalStack <= addr[l] BY <5>2, <4>1, <2>2, <1>13
          <6> QED BY <6>1, <5>2, <1>6, <1>7, <1>10, <3>0
        <5> QED BY <5>1, <5>2
      <4> QED BY <4>1, <4>2, <3>0, <1>10 DEF Below
    <3> QED BY <3>1, <3>2, <2>2 DEF SlotInv, TwoAreas
  <2> QED BY <2>1, <2>2, <1>8
<1>15. ArgsBelow' BY <1>1 DEF ArgsBelow
<1>16. SlotsApart'
  <2>1. ASSUME NEW l \in Variables, Scope(l) = Scope(k) PROVE Apart(l, k)' /\ Apart(k, l)'
    <3>1. -LocalStack <= addr[l] BY <2>1, <1>5, <1>13
    <3>2. addr'[l] = addr[l] /\ Size(l)' = Size(l) /\ Size(k)' = Size(k) /\ addr[l] \in Int
      BY <1>8, <1>9, VariableType
    <3>3. addr'[k] + Size(k)' = -LocalStack BY <3>2, <1>6, <1>7, <1>8
    <3> QED BY <3>1, <3>2, <3>3 DEF Apart
  <2>2. ASSUME NEW l \in Variables, NEW m \in Variables, Scope(l) = Scope(m), l # m
        PROVE  Apart(l, m)'
    <3>1. Apart(l, m) BY <2>2 DEF SlotInv, SlotsApart
    <3>2. addr'[l] = addr[l] /\ Size(l)' = Size(l) /\ addr'[m] = addr[m] /\ Size(m)' = Size(m)
      BY <1>8, <1>9
    <3> QED BY <3>1, <3>2 DEF Apart
  <2> QED BY <2>1, <2>2, <1>8 DEF SlotsApart
<1> QED BY <1>11, <1>12, <1>14, <1>15, <1>16 DEF SlotInv

LEMMA GenerateSlots == TInv /\ NamesApart /\ SlotInv /\ Generate => SlotInv'
<1> SUFFICES ASSUME TInv, NamesApart, SlotInv, Generate PROVE SlotInv' OBVIOUS
<1>1. CASE Start
  <2>1. /\ phase = "start" /\ phase' = "code"
        /\ UNCHANGED <<defs, syms, stage, addr, local_stack>>
    BY <1>1 DEF Start, parser
  <2>2. stage = "enter" /\ DOMAIN addr = {} BY <2>1 DEF SlotInv, Untouched, TInv, ParserOK
  <2>3. Variables = {} /\ Variables' = {} BY <2>1, <2>2 DEF Variables
  <2>4. VisitBegun' /\ ArgsBelow' BY <2>1, <2>2, <2>3 DEF VisitBegun, ArgsBelow
  <2> QED BY <2>1, <2>3, <2>4, SlotsKept
\* no variable of the function has an address yet: it is defined once
<1>2. CASE EnterFunc
  <2>1. /\ phase = "code" /\ phase' = "code" /\ stage = "enter" /\ stage' = "args" /\ cur > 0
        /\ frame_addr' = 2 * AddrSize
        /\ UNCHANGED <<defs, syms, cur, addr, local_stack>>
    BY <1>2 DEF EnterFunc, parser
  <2>2. /\ cur \in DOMAIN defs /\ cur \in Int /\ AddrSize \in Nat
        /\ DOMAIN defs = 1 .. Len(defs) /\ Len(defs) \in Nat
    BY <2>1, GeneratorState
  <2>3. Variables' = Variables /\ Def' = Def BY <2>1 DEF Variables, Def
  <2>4. VisitBegun' BY <2>1, <2>3 DEF SlotInv, VisitBegun
  <2>5. ASSUME NEW k \in Variables PROVE Scope(k) # <<Def.fn>>
    <3>1. PICK d \in DOMAIN defs : Scope(k) = <<defs[d].fn>> /\ d > cur
      BY <2>1 DEF SlotInv, VisitBegun
    <3>2. d # cur BY <3>1, <2>2
    <3>3. defs[d].fn # defs[cur].fn BY <3>2, <2>2 DEF SlotInv, Once
    <3> QED BY <3>1, <3>3, Singletons DEF Def
  <2>6. 2 * AddrSize <= frame_addr' BY <2>1, <2>2
  <2>7. ArgsBelow' BY <2>1, <2>3, <2>5, <2>6 DEF ArgsBelow
  <2> QED BY <2>1, <2>3, <2>4, <2>7, SlotsKept
<1>3. CASE PlaceArg BY <1>3, PlaceArgSlots
<1>4. CASE AddressFunc
  <2>1. /\ phase = "code" /\ phase' = "code" /\ stage = "args" /\ stage' = "body"
        /\ addr' = With(addr, Find(CurScope, Def.fn), pos)
        /\ UNCHANGED <<defs, syms, cur, local_stack>>
    BY <1>4 DEF AddressFunc, parser
  <2>2. PICK k : k = <<Def.fn>> OBVIOUS
  <2>3. Find(CurScope, Def.fn) = k
    <3>1. Def.fn \in Funcs BY <2>1, VisitedDef
    <3> QED BY <3>1, <2>2, GlobalName DEF CurScope, NamesApart
  <2>4. Len(k) = 1 BY <2>2
  <2>5. /\ DOMAIN addr' = DOMAIN addr \union {k}
        /\ \A l \in DOMAIN addr : l # k => addr'[l] = addr[l]
    BY <2>1, <2>3 DEF With
  <2>6. Variables' = Variables /\ \A l \in Variables : addr'[l] = addr[l]
    <3>1. ~(Len(k) > 1) BY <2>4
    <3>2. \A l : l \in Variables' <=> l \in Variables BY <3>1, <2>5 DEF Variables
    <3>3. \A l \in Variables : l # k /\ l \in DOMAIN addr BY <3>1 DEF Variables
    <3> QED BY <3>2, <3>3, <2>5
  <2>7. VisitBegun' BY <2>1, <2>6 DEF SlotInv, VisitBegun
  <2>8. ArgsBelow' BY <2>1 DEF ArgsBelow
  <2> QED BY <2>1, <2>6, <2>7, <2>8, SlotsKept
<1>5. CASE VisitVarDecl BY <1>5, VisitVarDeclSlots
<1>6. CASE VisitVar \/ VisitCall
  <2>1. /\ phase = "code" /\ phase' = "code" /\ stage = "body"
        /\ UNCHANGED <<defs, syms, cur, stage, addr, local_stack>>
    BY <1>6 DEF VisitVar, VisitCall, Visits, WriteAccess, parser
  <2>2. Variables' = Variables BY <2>1 DEF Variables
  <2>3. VisitBegun' /\ ArgsBelow' BY <2>1, <2>2 DEF SlotInv, VisitBegun, ArgsBelow
  <2> QED BY <2>1, <2>2, <2>3, SlotsKept
<1>7. CASE LeaveFunc
  <2>1. /\ phase = "code" /\ phase' = "code" /\ stage = "body" /\ stage' = "enter"
        /\ cur' = cur - 1 /\ UNCHANGED <<defs, syms, addr, local_stack>>
    BY <1>7 DEF LeaveFunc, parser
  <2>2. cur \in Int /\ DOMAIN defs = 1 .. Len(defs) /\ Len(defs) \in Nat BY GeneratorState
  <2>3. Variables' = Variables BY <2>1 DEF Variables
  <2>4. VisitBegun'
    <3> SUFFICES ASSUME NEW k \in Variables'
                 PROVE  \E d \in DOMAIN defs' :
                          Scope(k) = <<defs'[d].fn>> /\ (d > cur' \/ (d = cur' /\ stage' # "enter"))
      BY DEF VisitBegun
    <3>1. PICK d \in DOMAIN defs : Scope(k) = <<defs[d].fn>> /\ (d > cur \/ d = cur)
      BY <2>3 DEF SlotInv, VisitBegun
    <3>2. d > cur' BY <3>1, <2>1, <2>2
    <3> QED BY <3>1, <3>2, <2>1
  <2>5. ArgsBelow' BY <2>1 DEF ArgsBelow
  <2> QED BY <2>1, <2>3, <2>4, <2>5, SlotsKept
<1>8. CASE Finish \/ Throw
  <2>1. /\ phase' \in {"done", "error"}
        /\ UNCHANGED <<defs, syms, cur, stage, frame_addr, addr, local_stack>>
    BY <1>8 DEF Finish, Throw, parser, visitor
  <2>2. Variables' = Variables /\ Def' = Def /\ \A k : Size(k)' = Size(k)
    BY <2>1 DEF Variables, Def, Size
  <2>3. VisitBegun' BY <2>1, <2>2 DEF SlotInv, VisitBegun
  <2>4. ArgsBelow' BY <2>1, <2>2 DEF SlotInv, ArgsBelow
  <2> QED BY <2>1, <2>2, <2>3, <2>4, SlotsKept
<1> QED BY <1>1, <1>2, <1>3, <1>4, <1>5, <1>6, <1>7, <1>8
        DEF Generate, StartError, PlaceArgError, VarDeclError, VarError, CallError, FinishError

LEMMA ParseSlots == TInv /\ NamesApart /\ SlotInv /\ Parse => SlotInv'
<1> SUFFICES ASSUME TInv, NamesApart, SlotInv, Parse PROVE SlotInv' OBVIOUS
<1>1. /\ phase = "parse" /\ stage = "enter" /\ UNCHANGED <<stage, addr>>
  BY ParseState DEF visitor
<1>2. DOMAIN addr = {} /\ DOMAIN addr' = {} BY <1>1 DEF SlotInv, Untouched
<1>3. Variables' = {} BY <1>2 DEF Variables
<1>4. Once' BY OnceKept DEF Next, NamesApart, SlotInv
<1> QED BY <1>1, <1>2, <1>3, <1>4
        DEF SlotInv, Untouched, VisitBegun, TwoAreas, ArgsBelow, SlotsApart

LEMMA NextSlots == TInv /\ NamesApart /\ SlotInv /\ [Next]_vars => (TInv /\ SlotInv)'
<1> SUFFICES ASSUME TInv, NamesApart, SlotInv, [Next]_vars PROVE (TInv /\ SlotInv)' OBVIOUS
<1>1. CASE Next BY <1>1, ParseType, GenerateType, ParseSlots, GenerateSlots DEF Next
<1>2. CASE UNCHANGED vars
  <2>1. UNCHANGED <<phase, defs, scope, syms, cur, stage, idx, frame_addr, addr, local_stack,
                    pos, rets, entry>>
    BY <1>2 DEF vars, parser, visitor, written
  <2>2. Variables' = Variables /\ Def' = Def /\ \A k : Size(k)' = Size(k)
    BY <2>1 DEF Variables, Def, Size
  <2>3. TInv' BY <1>2, StutterType
  <2>4. Once' /\ Untouched' /\ VisitBegun' /\ ArgsBelow'
    BY <2>1, <2>2 DEF SlotInv, Once, Untouched, VisitBegun, ArgsBelow
  <2>5. TwoAreas' BY <2>1, <2>2 DEF SlotInv, TwoAreas, Above, Below
  <2>6. SlotsApart' BY <2>1, <2>2 DEF SlotInv, SlotsApart, Apart
  <2> QED BY <2>3, <2>4, <2>5, <2>6 DEF SlotInv
<1> QED BY <1>1, <1>2

\* No two variables of a function share a byte, nor does one share a byte with
\* the saved base and instruction pointers, in every program whose variables are
\* named apart from its functions and whose functions are defined once.
THEOREM SlotsAreDisjoint ==
  ASSUME NamesApart
  PROVE  Spec => []SlotsDisjoint
<1>1. Init => TInv /\ SlotInv
  <2> SUFFICES ASSUME Init PROVE SlotInv BY InitType
  <2>1. defs = <<>> /\ DOMAIN addr = {} /\ stage = "enter" BY DEF Init
  <2>2. Variables = {} /\ DOMAIN defs = {} BY <2>1 DEF Variables
  <2> QED BY <2>1, <2>2
          DEF SlotInv, Once, Untouched, VisitBegun, TwoAreas, ArgsBelow, SlotsApart
<1>2. TInv /\ SlotInv /\ [Next]_vars => (TInv /\ SlotInv)' BY NextSlots, NamesApart
<1>3. TInv /\ SlotInv => SlotsDisjoint
  <2> SUFFICES ASSUME TInv, SlotInv PROVE SlotsDisjoint OBVIOUS
  <2>1. ASSUME NEW k \in Variables, NEW l \in Variables, Scope(k) = Scope(l), k # l
        PROVE  Slot(k) \intersect Slot(l) = {}
    <3>1. /\ addr[k] \in Int /\ Size(k) \in Nat
          /\ addr[l] \in Int /\ Size(l) \in Nat
      BY VariableType
    <3>2. Apart(k, l) BY <2>1 DEF SlotInv, SlotsApart
    <3> QED BY <3>1, <3>2 DEF Apart, Slot
  <2>2. ASSUME NEW k \in Variables PROVE Slot(k) \intersect 0 .. (2 * AddrSize - 1) = {}
    <3>1. addr[k] \in Int /\ Size(k) \in Nat /\ AddrSize \in Nat
      BY VariableType, GeneratorState
    <3>2. Above(k) \/ addr[k] + Size(k) <= 0 BY DEF SlotInv, TwoAreas, Below
    <3> QED BY <3>1, <3>2 DEF Above, Slot
  <2> QED BY <2>1, <2>2 DEF SlotsDisjoint
<1> QED BY <1>1, <1>2, <1>3, PTL DEF Spec

-------------------------------------------------------------------------------
(***************************************************************************)
(* Calls.  The parser is done when the first call is written, so a         *)
(* function's frame has the same size in all calls and in its RET; the     *)
(* code at a function's address is that of its only definition, and all    *)
(* definitions that have been visited have their RET.                      *)
(***************************************************************************)
NothingWritten ==
  phase \in {"parse", "start"} => func_comefroms = {} /\ DOMAIN rets = {}

\* the arguments of a call lie where it has pushed them
Pushed(c) == c.args \in Seq(Types) /\ c.places = ArgPlaces(c.args)

CallFrames ==
  \A c \in func_comefroms : c.fn \in Funcs /\ c.frame = FrameSize(<<c.fn>>) /\ Pushed(c)

RetFrames ==
  \A d \in DOMAIN rets : rets[d] = [frame |-> FrameSize(<<defs[d].fn>>), args |-> Len(defs[d].args)]

CodeOf(f) == entry[addr[<<f>>]]

Addressed ==
  \A f \in Funcs : <<f>> \in DOMAIN addr =>
    /\ addr[<<f>>] \in DOMAIN entry /\ CodeOf(f) \in DOMAIN defs /\ defs[CodeOf(f)].fn = f
    /\ CodeOf(f) > cur \/ (CodeOf(f) = cur /\ stage = "body")

EntriesBehind == \A p \in DOMAIN entry : p < pos \/ (p = pos /\ stage = "body")

Returned == phase \in {"code", "done"} => \A d \in DOMAIN defs : d > cur => d \in DOMAIN rets

Resolved == phase = "done" => cur = 0 /\ stage = "enter" /\ \A c \in func_comefroms : Resolvable(c)

ArgsKnown == \A d \in DOMAIN defs : syms[<<defs[d].fn>>].nargs = Len(defs[d].args)

CallInv ==
  /\ Once /\ Untouched /\ NothingWritten /\ CallFrames /\ RetFrames
  /\ Addressed /\ EntriesBehind /\ Returned /\ Resolved /\ ArgsKnown

LEMMA FrameSizeKept == ASSUME UNCHANGED syms, NEW f PROVE FrameSize(<<f>>)' = FrameSize(<<f>>)
<1>1. Locals(<<f>>)' = Locals(<<f>>) BY DEF Locals
<1>2. \A s : Size(s)' = Size(s) BY DEF Size
<1>3. [s \in Locals(<<f>>) |-> Size(s)]' = [s \in Locals(<<f>>) |-> Size(s)] BY <1>1, <1>2
<1> QED BY <1>1, <1>2, <1>3 DEF FrameSize

LEMMA RetSizeKept ==
  ASSUME UNCHANGED <<defs, syms>>, NEW d
  PROVE  FrameSize(<<defs[d].fn>>)' = FrameSize(<<defs[d].fn>>)
<1>1. Locals(<<defs[d].fn>>)' = Locals(<<defs[d].fn>>) BY DEF Locals
<1>2. \A s : Size(s)' = Size(s) BY DEF Size
<1> QED BY <1>1, <1>2 DEF FrameSize

\* the number of arguments that a function's symbol has is its definition's
LEMMA ArgsKnownKept == TInv /\ ArgsKnown /\ ~Redefine /\ Next => ArgsKnown'
<1> SUFFICES ASSUME TInv, ArgsKnown, ~Redefine, Next PROVE ArgsKnown' OBVIOUS
<1>1. ASSUME NEW f \in Funcs, NEW args \in ArgLists, EnterScope(f, args) PROVE ArgsKnown'
  <2> DEFINE new == [fn |-> f, args |-> args, body |-> <<>>]
  <2>1. defs' = Append(defs, new) /\ syms' = Registered(f, args)
        /\ \A d \in DOMAIN defs : defs[d].fn # f
    BY <1>1 DEF EnterScope
  <2>2. defs \in Seq(Definition) /\ new \in Definition /\ new.fn = f /\ new.args = args
    BY DEF TInv, TypeOK, Definition
  <2> HIDE DEF new
  <2>3. DOMAIN defs' = 1 .. (Len(defs) + 1) /\ DOMAIN defs = 1 .. Len(defs) /\ Len(defs) \in Nat
        /\ defs'[Len(defs) + 1] = new /\ (\A d \in DOMAIN defs : defs'[d] = defs[d])
    BY <2>1, <2>2, AppendProperties
  <2>4. syms'[<<f>>] = FuncSym(Len(args)) BY <2>1 DEF Registered
  <2>5. ASSUME NEW d \in DOMAIN defs PROVE syms'[<<defs[d].fn>>] = syms[<<defs[d].fn>>]
    <3>1. PICK k : k = <<defs[d].fn>> OBVIOUS
    <3>2. k \in DOMAIN syms BY <3>1 DEF TInv, ParserOK, DefNamed
    <3>3. k # <<f>> BY <3>1, <2>1, Singletons
    <3>4. k \notin {<<f, args[i].name>> : i \in DOMAIN args} BY <3>1, Singletons
    <3>5. syms'[k] = syms[k] BY <3>2, <3>3, <3>4, <2>1 DEF Registered
    <3> QED BY <3>1, <3>5
  <2>6. ASSUME NEW d \in DOMAIN defs' PROVE syms'[<<defs'[d].fn>>].nargs = Len(defs'[d].args)
    <3>1. CASE d \in DOMAIN defs BY <3>1, <2>3, <2>5 DEF ArgsKnown
    <3>2. CASE d = Len(defs) + 1 BY <3>2, <2>2, <2>3, <2>4 DEF FuncSym
    <3> QED BY <3>1, <3>2, <2>3
  <2> QED BY <2>6 DEF ArgsKnown
<1>2. ASSUME NEW item \in Item, AddStatement(item),
             \A d \in DOMAIN defs : syms'[<<defs[d].fn>>] = syms[<<defs[d].fn>>]
      PROVE  ArgsKnown'
  <2>1. DOMAIN defs' = DOMAIN defs
        /\ \A d \in DOMAIN defs : defs'[d].fn = defs[d].fn /\ defs'[d].args = defs[d].args
    BY <1>2, AddStatementDefs
  <2> QED BY <2>1, <1>2 DEF ArgsKnown
<1>3. ASSUME NEW x \in Vars, NEW t \in Types, Declare(x, t) PROVE ArgsKnown'
  <2>1. PICK item \in Item : item = [op |-> "decl", name |-> x, args |-> <<>>] BY DEF Item
  <2>2. AddStatement(item) /\ syms' = With(syms, Append(scope, x), VarSym(t, 0))
    BY <1>3, <2>1 DEF Declare
  <2>3. PICK g : scope = <<g>> BY <2>2, AddStatementDefs
  <2>4. ASSUME NEW d \in DOMAIN defs PROVE syms'[<<defs[d].fn>>] = syms[<<defs[d].fn>>]
    <3>1. PICK k : k = <<defs[d].fn>> OBVIOUS
    <3>2. k \in DOMAIN syms BY <3>1 DEF TInv, ParserOK, DefNamed
    <3>3. k # Append(scope, x) BY <3>1, <2>3, Singletons
    <3>4. syms'[k] = syms[k] BY <3>2, <3>3, <2>2 DEF With
    <3> QED BY <3>1, <3>4
  <2> QED BY <2>2, <2>4, <1>2
<1>4. ASSUME NEW x \in Vars, Mention(x) PROVE ArgsKnown'
  <2>1. [op |-> "use", name |-> x, args |-> <<>>] \in Item BY DEF Item
  <2> QED BY <1>4, <2>1, <1>2 DEF Mention
<1>5. ASSUME NEW g \in Funcs, NEW tys \in TypeLists, CallArgs(g, tys) PROVE ArgsKnown'
  <2>1. [op |-> "call", name |-> g, args |-> tys] \in Item BY DEF Item
  <2> QED BY <1>5, <2>1, <1>2 DEF CallArgs
<1>6. LeaveScope \/ Parsed \/ Generate => UNCHANGED <<defs, syms>>
  BY GenerateParser DEF LeaveScope, Parsed, parser
<1>7. CASE UNCHANGED <<defs, syms>> BY <1>7 DEF ArgsKnown
<1> QED BY <1>1, <1>3, <1>4, <1>5, <1>6, <1>7 DEF Next, Parse

LEMMA ParseCalls == TInv /\ NamesApart /\ CallInv /\ Parse => CallInv'
<1> SUFFICES ASSUME TInv, NamesApart, CallInv, Parse PROVE CallInv' OBVIOUS
<1>1. /\ phase = "parse" /\ phase' \in {"parse", "start"}
      /\ UNCHANGED <<stage, addr, func_comefroms, rets, entry, pos>>
  BY ParseState DEF visitor, written
<1>2. DOMAIN addr = {} /\ func_comefroms = {} /\ DOMAIN rets = {}
  BY <1>1 DEF CallInv, Untouched, NothingWritten
<1>3. Once' /\ ArgsKnown' BY OnceKept, ArgsKnownKept DEF Next, NamesApart, CallInv
<1>4. EntriesBehind' BY <1>1 DEF CallInv, EntriesBehind
<1>5. Addressed' BY <1>1, <1>2 DEF Addressed
<1>6. CallFrames' /\ RetFrames' BY <1>1, <1>2 DEF CallFrames, RetFrames
<1>7. Untouched' /\ NothingWritten' /\ Returned' /\ Resolved'
  BY <1>1, <1>2 DEF Untouched, NothingWritten, Returned, Resolved
<1> QED BY <1>3, <1>4, <1>5, <1>6, <1>7 DEF CallInv

\* what a step of the generator keeps by not touching it
LEMMA CallsKept ==
  ASSUME CallInv, UNCHANGED <<defs, syms>>, phase' \notin {"parse", "start"}
  PROVE  /\ Once' /\ Untouched' /\ NothingWritten' /\ ArgsKnown'
         /\ func_comefroms' = func_comefroms => CallFrames'
         /\ rets' = rets => RetFrames'
<1>1. Once' /\ ArgsKnown' /\ Untouched' /\ NothingWritten'
  BY DEF CallInv, Once, ArgsKnown, Untouched, NothingWritten
<1>2. ASSUME func_comefroms' = func_comefroms PROVE CallFrames'
  BY <1>2, FrameSizeKept DEF CallInv, CallFrames
<1>3. ASSUME rets' = rets PROVE RetFrames'
  BY <1>3, RetSizeKept DEF CallInv, RetFrames
<1> QED BY <1>1, <1>2, <1>3

\* functions keep their addresses, and the code there has been begun
LEMMA AddressedKept ==
  ASSUME Addressed, UNCHANGED <<defs, entry>>,
         \A f \in Funcs : /\ <<f>> \in DOMAIN addr' => <<f>> \in DOMAIN addr
                          /\ <<f>> \in DOMAIN addr => addr'[<<f>>] = addr[<<f>>],
         \A d \in DOMAIN defs :
           d > cur \/ (d = cur /\ stage = "body") => d > cur' \/ (d = cur' /\ stage' = "body")
  PROVE  Addressed'
<1> SUFFICES ASSUME NEW f \in Funcs, <<f>> \in DOMAIN addr'
             PROVE  /\ addr'[<<f>>] \in DOMAIN entry /\ entry[addr'[<<f>>]] \in DOMAIN defs
                    /\ defs[entry[addr'[<<f>>]]].fn = f
                    /\ \/ entry[addr'[<<f>>]] > cur'
                       \/ (entry[addr'[<<f>>]] = cur' /\ stage' = "body")
  BY DEF Addressed, CodeOf
<1>1. <<f>> \in DOMAIN addr /\ addr'[<<f>>] = addr[<<f>>] OBVIOUS
<1> QED BY <1>1 DEF Addressed, CodeOf

\* a variable's address is not that of a function
LEMMA VariablePlaced ==
  ASSUME NEW k, Len(k) = 2, NEW a, addr' = With(addr, k, a), NEW f
  PROVE  /\ <<f>> \in DOMAIN addr' => <<f>> \in DOMAIN addr
         /\ <<f>> \in DOMAIN addr => addr'[<<f>>] = addr[<<f>>]
<1>1. PICK g : g = <<f>> OBVIOUS
<1>2. Len(g) = 1 BY <1>1, Singletons
<1>3. g # k BY <1>2
<1>4. (g \in DOMAIN addr' => g \in DOMAIN addr) /\ (g \in DOMAIN addr => addr'[g] = addr[g])
  BY <1>3 DEF With
<1> QED BY <1>1, <1>4

\* the calls and returns over a step inside a function
LEMMA StepCalls ==
  ASSUME TInv, CallInv, UNCHANGED <<defs, syms, cur, entry, rets>>, phase = "code", phase' = "code",
         stage' = "body" => stage = "body", stage = "body" => stage' = "body",
         pos' = pos \/ (pos' = pos + 1 /\ stage = "body"),
         \A f \in Funcs : /\ <<f>> \in DOMAIN addr' => <<f>> \in DOMAIN addr
                          /\ <<f>> \in DOMAIN addr => addr'[<<f>>] = addr[<<f>>],
         CallFrames'
  PROVE  CallInv'
<1>1. Once' /\ Untouched' /\ NothingWritten' /\ ArgsKnown' /\ RetFrames' BY CallsKept
<1>2. Addressed' BY AddressedKept DEF CallInv
<1>3. EntriesBehind'
  <2> SUFFICES ASSUME NEW p \in DOMAIN entry PROVE p < pos' \/ (p = pos' /\ stage' = "body")
    BY DEF EntriesBehind
  <2>1. p \in Nat /\ pos \in Nat BY GeneratorState
  <2>2. p < pos \/ (p = pos /\ stage = "body") BY DEF CallInv, EntriesBehind
  <2> QED BY <2>1, <2>2
<1>4. Returned' /\ Resolved' BY DEF CallInv, Returned, Resolved
<1> QED BY <1>1, <1>2, <1>3, <1>4 DEF CallInv

LEMMA GenerateCalls == TInv /\ NamesApart /\ CallInv /\ Generate => CallInv'
<1> SUFFICES ASSUME TInv, NamesApart, CallInv, Generate PROVE CallInv' OBVIOUS
<1>0. /\ cur \in Int /\ cur \in 0 .. Len(defs) /\ Len(defs) \in Nat /\ DOMAIN defs = 1 .. Len(defs)
      /\ pos \in Nat /\ DOMAIN entry \subseteq Nat
      /\ idx \in Nat \ {0} /\ (stage # "enter" => cur > 0)
  BY GeneratorState
<1>1. CASE Start
  <2>1. /\ phase = "start" /\ phase' = "code" /\ cur' = Len(defs) /\ pos' = pos + 1
        /\ func_comefroms' = {ComeFrom(0, Main, <<Main>>, <<>>)}
        /\ UNCHANGED <<defs, syms, stage, addr, rets, entry>>
    BY <1>1 DEF Start, parser
  <2>2. DOMAIN addr = {} BY <2>1 DEF CallInv, Untouched
  <2>3. CallFrames'
    <3>1. \A c \in func_comefroms' : c.fn = Main /\ c.frame = FrameSize(<<Main>>) /\ Pushed(c)
      <4>1. PICK q : q = ComeFrom(0, Main, <<Main>>, <<>>) OBVIOUS
      <4>2. /\ q.fn = Main /\ q.frame = FrameSize(<<Main>>)
            /\ q.args = <<>> /\ q.places = ArgPlaces(<<>>)
        BY <4>1 DEF ComeFrom
      <4>3. Pushed(q) BY <4>2 DEF Pushed
      <4> QED BY <2>1, <4>1, <4>2, <4>3
    <3>2. FrameSize(<<Main>>)' = FrameSize(<<Main>>) BY <2>1, FrameSizeKept
    <3> QED BY <3>1, <3>2, LayoutAssumption DEF CallFrames
  <2>4. Addressed' BY <2>1, <2>2 DEF Addressed
  <2>5. EntriesBehind'
    <3> SUFFICES ASSUME NEW p \in DOMAIN entry PROVE p < pos' BY <2>1 DEF EntriesBehind
    <3>1. p \in Nat /\ (p < pos \/ p = pos) BY <1>0 DEF CallInv, EntriesBehind
    <3> QED BY <3>1, <2>1, <1>0
  <2>6. Returned' /\ Resolved' BY <2>1, <1>0 DEF Returned, Resolved
  <2> QED BY <2>1, <2>3, <2>4, <2>5, <2>6, CallsKept DEF CallInv
<1>2. CASE EnterFunc
  <2>1. /\ phase = "code" /\ phase' = "code" /\ stage = "enter" /\ stage' = "args" /\ pos' = pos
        /\ UNCHANGED <<defs, syms, cur, addr, func_comefroms, rets, entry>>
    BY <1>2 DEF EnterFunc, parser, written
  <2>2. CallFrames' BY <2>1, CallsKept
  <2> QED BY <2>1, <2>2, StepCalls
<1>3. CASE PlaceArg
  <2>1. /\ phase = "code" /\ phase' = "code" /\ stage = "args" /\ stage' = "args" /\ pos' = pos
        /\ idx <= Len(Def.args) /\ addr' = With(addr, ArgKey, frame_addr)
        /\ UNCHANGED <<defs, syms, cur, func_comefroms, rets, entry>>
    BY <1>3 DEF PlaceArg, NextArg, parser, written
  <2>2. PICK k : k = ArgKey OBVIOUS
  <2>3. idx \in DOMAIN Def.args BY <2>1, <1>0, VisitedDef
  <2>4. k = <<Def.fn, Def.args[idx].name>> BY <2>1, <2>2, <2>3, VisitedDef DEF ArgKey
  <2>5. Len(k) = 2 BY <2>4, Singletons
  <2>6. CallFrames' BY <2>1, CallsKept
  <2>7. \A f \in Funcs : /\ <<f>> \in DOMAIN addr' => <<f>> \in DOMAIN addr
                         /\ <<f>> \in DOMAIN addr => addr'[<<f>>] = addr[<<f>>]
    <3>1. PICK a : a = frame_addr OBVIOUS
    <3>2. addr' = With(addr, k, a) BY <2>1, <2>2, <3>1
    <3> QED BY <3>2, <2>5, VariablePlaced
  <2> QED BY <2>1, <2>6, <2>7, StepCalls
<1>4. CASE AddressFunc
  <2>1. /\ phase = "code" /\ phase' = "code" /\ stage = "args" /\ stage' = "body" /\ pos' = pos
        /\ addr' = With(addr, Find(CurScope, Def.fn), pos) /\ entry' = With(entry, pos, cur)
        /\ UNCHANGED <<defs, syms, cur, func_comefroms, rets>>
    BY <1>4 DEF AddressFunc, parser
  <2>2. PICK g \in Funcs : g = Def.fn BY <2>1, VisitedDef
  <2>3. Find(CurScope, Def.fn) = <<g>> BY <2>2, GlobalName DEF CurScope, NamesApart
  <2>4. cur \in DOMAIN defs /\ defs[cur].fn = g BY <2>1, <2>2, VisitedDef DEF Def
  <2>5. /\ DOMAIN entry' = DOMAIN entry \union {pos} /\ entry'[pos] = cur
        /\ \A p \in DOMAIN entry : p < pos /\ entry'[p] = entry[p]
    <3>1. \A p \in DOMAIN entry : p < pos BY <2>1 DEF CallInv, EntriesBehind
    <3> QED BY <3>1, <2>1, <1>0 DEF With
  <2>6. ASSUME NEW f \in Funcs, <<f>> \in DOMAIN addr'
        PROVE  /\ addr'[<<f>>] \in DOMAIN entry' /\ CodeOf(f)' \in DOMAIN defs
               /\ defs[CodeOf(f)'].fn = f /\ (CodeOf(f)' > cur \/ CodeOf(f)' = cur)
    <3>1. CASE f = g
      <4>1. addr'[<<f>>] = pos BY <3>1, <2>1, <2>3, <2>6 DEF With
      <4> QED BY <4>1, <3>1, <2>4, <2>5 DEF CodeOf
    <3>2. CASE f # g
      <4>1. PICK k : k = <<f>> OBVIOUS
      <4>2. k # <<g>> BY <4>1, <3>2, Singletons
      <4>3. k \in DOMAIN addr /\ addr'[k] = addr[k] BY <4>1, <4>2, <2>1, <2>3, <2>6 DEF With
      <4>4. /\ addr[k] \in DOMAIN entry /\ CodeOf(f) \in DOMAIN defs /\ defs[CodeOf(f)].fn = f
            /\ CodeOf(f) > cur \/ CodeOf(f) = cur
        BY <4>1, <4>3 DEF CallInv, Addressed
      <4>5. CodeOf(f)' = CodeOf(f) BY <4>1, <4>3, <4>4, <2>5 DEF CodeOf
      <4> QED BY <4>1, <4>3, <4>4, <4>5, <2>5
    <3> QED BY <3>1, <3>2
  <2>7. Addressed' BY <2>1, <2>6 DEF Addressed
  <2>8. EntriesBehind' BY <2>1, <2>5 DEF EntriesBehind
  <2>9. Returned' /\ Resolved' BY <2>1 DEF CallInv, Returned, Resolved
  <2> QED BY <2>1, <2>7, <2>8, <2>9, CallsKept DEF CallInv
<1>5. CASE VisitVarDecl
  <2>1. /\ phase = "code" /\ phase' = "code" /\ stage = "body" /\ stage' = "body" /\ pos' = pos + 1
        /\ idx <= Len(Def.body) /\ Stmt.op = "decl"
        /\ addr' = With(addr, Key, -(LocalStack + Size(Key)))
        /\ UNCHANGED <<defs, syms, cur, func_comefroms, rets, entry>>
    BY <1>5 DEF VisitVarDecl, Visits, WriteAccess, parser
  <2>2. PICK k : k = Key OBVIOUS
  <2>3. idx \in DOMAIN Def.body BY <2>1, <1>0, VisitedDef
  <2>4. k = <<Def.fn, Stmt.name>> BY <2>1, <2>2, <2>3, VisitedDef DEF Key, Stmt
  <2>5. Len(k) = 2 BY <2>4, Singletons
  <2>6. CallFrames' BY <2>1, CallsKept
  <2>7. \A f \in Funcs : /\ <<f>> \in DOMAIN addr' => <<f>> \in DOMAIN addr
                         /\ <<f>> \in DOMAIN addr => addr'[<<f>>] = addr[<<f>>]
    <3>1. PICK a : a = -(LocalStack + Size(Key)) OBVIOUS
    <3>2. addr' = With(addr, k, a) BY <2>1, <2>2, <3>1
    <3> QED BY <3>2, <2>5, VariablePlaced
  <2> QED BY <2>1, <2>6, <2>7, StepCalls
<1>6. CASE VisitVar
  <2>1. /\ phase = "code" /\ phase' = "code" /\ stage = "body" /\ stage' = "body" /\ pos' = pos + 1
        /\ UNCHANGED <<defs, syms, cur, addr, func_comefroms, rets, entry>>
    BY <1>6 DEF VisitVar, Visits, WriteAccess, parser
  <2>2. CallFrames' BY <2>1, CallsKept
  <2> QED BY <2>1, <2>2, StepCalls
\* the name of the called function is not that of a variable
<1>7. CASE VisitCall
  <2>1. /\ phase = "code" /\ phase' = "code" /\ stage = "body" /\ stage' = "body" /\ pos' = pos + 1
        /\ idx <= Len(Def.body) /\ Stmt.op = "call"
        /\ func_comefroms' = func_comefroms \union {ComeFrom(cur, Stmt.name, Key, Stmt.args)}
        /\ UNCHANGED <<defs, syms, cur, addr, rets, entry>>
    BY <1>7 DEF VisitCall, Visits, parser
  <2>2. idx \in DOMAIN Def.body /\ cur \in DOMAIN defs BY <2>1, <1>0, VisitedDef
  <2>3. PICK g \in Funcs : g = Stmt.name
    BY <2>1, <2>2, DefType DEF TInv, Stmt, Def
  <2>a. Stmt.args \in Seq(Types)
    BY <2>1, <2>2, DefType DEF TInv, Stmt, Def
  <2>4. Key = <<g>>
    <3>1. Def.fn \in Funcs BY <2>1, VisitedDef
    <3> QED BY <2>3, GlobalName DEF Key, CurScope, NamesApart
  <2>5. \A c \in func_comefroms' :
          c \in func_comefroms \/ (c.fn = g /\ c.frame = FrameSize(<<g>>) /\ Pushed(c))
    BY <2>1, <2>3, <2>4, <2>a DEF ComeFrom, Pushed
  <2>6. \A f : FrameSize(<<f>>)' = FrameSize(<<f>>) BY <2>1, FrameSizeKept
  <2>7. CallFrames' BY <2>5, <2>6 DEF CallInv, CallFrames
  <2> QED BY <2>1, <2>7, StepCalls
<1>8. CASE LeaveFunc
  <2>1. /\ phase = "code" /\ phase' = "code" /\ stage = "body" /\ stage' = "enter"
        /\ cur' = cur - 1 /\ pos' = pos + 1
        /\ rets' = With(rets, cur, [frame |-> FrameSize(Find(CurScope, Def.fn)),
                                    args  |-> Len(Def.args)])
        /\ UNCHANGED <<defs, syms, addr, func_comefroms, entry>>
    BY <1>8 DEF LeaveFunc, parser
  <2>2. PICK g \in Funcs : g = Def.fn BY <2>1, VisitedDef
  <2>3. Find(CurScope, Def.fn) = <<g>> BY <2>2, GlobalName DEF CurScope, NamesApart
  <2>4. RetFrames'
    <3>1. DOMAIN rets' = DOMAIN rets \union {cur}
          /\ rets'[cur] = [frame |-> FrameSize(<<defs[cur].fn>>), args |-> Len(defs[cur].args)]
          /\ \A d \in DOMAIN rets : d # cur => rets'[d] = rets[d]
      BY <2>1, <2>2, <2>3 DEF With, Def
    <3>2. \A d : FrameSize(<<defs[d].fn>>)' = FrameSize(<<defs[d].fn>>) BY <2>1, RetSizeKept
    <3>3. ASSUME NEW d \in DOMAIN rets'
          PROVE  rets'[d] = [frame |-> FrameSize(<<defs[d].fn>>)', args |-> Len(defs'[d].args)]
      <4>1. CASE d = cur BY <4>1, <3>1, <3>2, <2>1
      <4>2. CASE d # cur BY <4>2, <3>1, <3>2, <2>1 DEF CallInv, RetFrames
      <4> QED BY <4>1, <4>2
    <3> QED BY <3>3 DEF RetFrames
  <2>5. Addressed'
    <3>1. \A d \in DOMAIN defs : d > cur \/ d = cur => d > cur' BY <2>1, <1>0
    <3> QED BY <3>1, <2>1, AddressedKept DEF CallInv
  <2>6. EntriesBehind'
    <3> SUFFICES ASSUME NEW p \in DOMAIN entry PROVE p < pos' BY <2>1 DEF EntriesBehind
    <3>1. p \in Nat /\ (p < pos \/ p = pos) BY <1>0 DEF CallInv, EntriesBehind
    <3> QED BY <3>1, <2>1, <1>0
  <2>7. Returned'
    <3> SUFFICES ASSUME NEW d \in DOMAIN defs, d > cur' PROVE d \in DOMAIN rets'
      BY <2>1 DEF Returned
    <3>1. d > cur \/ d = cur BY <2>1, <1>0
    <3>2. DOMAIN rets' = DOMAIN rets \union {cur} BY <2>1 DEF With
    <3> QED BY <3>1, <3>2, <2>1 DEF CallInv, Returned
  <2>8. CallFrames' /\ Resolved' BY <2>1, CallsKept DEF Resolved
  <2> QED BY <2>1, <2>4, <2>5, <2>6, <2>7, <2>8, CallsKept DEF CallInv
<1>9. CASE Finish \/ Throw
  <2>1. /\ phase' \in {"done", "error"}
        /\ UNCHANGED <<defs, syms, cur, stage, addr, pos, func_comefroms, rets, entry>>
    BY <1>9 DEF Finish, Throw, parser, visitor, written
  <2>2. Addressed' BY <2>1, AddressedKept DEF CallInv
  <2>3. EntriesBehind' BY <2>1 DEF CallInv, EntriesBehind
  <2>4. Returned' /\ Resolved'
    <3>1. CASE phase' = "error" BY <3>1 DEF Returned, Resolved
    <3>2. CASE phase' = "done"
      <4>1. /\ phase = "code" /\ stage = "enter" /\ cur = 0
            /\ \A c \in func_comefroms : Resolvable(c)
        BY <3>2, <1>9 DEF Finish, Throw, AllVisited
      <4>2. \A c : Resolvable(c)' <=> Resolvable(c) BY <2>1 DEF Resolvable
      <4> QED BY <4>1, <4>2, <2>1 DEF CallInv, Returned, Resolved
    <3> QED BY <3>1, <3>2, <2>1
  <2>5. CallFrames' /\ RetFrames' BY <2>1, CallsKept
  <2> QED BY <2>1, <2>2, <2>3, <2>4, <2>5, CallsKept DEF CallInv
<1> QED BY <1>1, <1>2, <1>3, <1>4, <1>5, <1>6, <1>7, <1>8, <1>9
        DEF Generate, StartError, PlaceArgError, VarDeclError, VarError, CallError, FinishError

LEMMA InitCalls == Init => TInv /\ CallInv
<1> SUFFICES ASSUME Init PROVE CallInv BY InitType
<1>1. /\ phase = "parse" /\ defs = <<>> /\ DOMAIN addr = {} /\ func_comefroms = {}
      /\ DOMAIN rets = {} /\ DOMAIN entry = {}
  BY DEF Init
<1>2. DOMAIN defs = {} BY <1>1
<1>3. Once /\ Untouched /\ NothingWritten /\ CallFrames /\ RetFrames
  BY <1>1, <1>2 DEF Once, Untouched, NothingWritten, CallFrames, RetFrames
<1>4. Addressed /\ EntriesBehind /\ Returned /\ Resolved /\ ArgsKnown
  BY <1>1, <1>2 DEF Addressed, EntriesBehind, Returned, Resolved, ArgsKnown
<1> QED BY <1>3, <1>4 DEF CallInv

LEMMA NextCalls == TInv /\ NamesApart /\ CallInv /\ [Next]_vars => (TInv /\ CallInv)'
<1> SUFFICES ASSUME TInv, NamesApart, CallInv, [Next]_vars PROVE (TInv /\ CallInv)' OBVIOUS
<1>1. CASE Next BY <1>1, ParseType, GenerateType, ParseCalls, GenerateCalls DEF Next
<1>2. CASE UNCHANGED vars
  <2>1. UNCHANGED <<phase, defs, syms, cur, stage, addr, pos, func_comefroms, rets, entry>>
    BY <1>2 DEF vars, parser, visitor, written
  <2>2. Once' /\ Untouched' /\ NothingWritten' /\ ArgsKnown'
    BY <2>1 DEF CallInv, Once, Untouched, NothingWritten, ArgsKnown
  <2>3. CallFrames' BY <2>1, FrameSizeKept DEF CallInv, CallFrames
  <2>4. RetFrames' BY <2>1, RetSizeKept DEF CallInv, RetFrames
  <2>5. Addressed' BY <2>1, AddressedKept DEF CallInv
  <2>6. EntriesBehind' /\ Returned' BY <2>1 DEF CallInv, EntriesBehind, Returned
  <2>7. Resolved'
    <3>1. \A c : Resolvable(c)' <=> Resolvable(c) BY <2>1 DEF Resolvable
    <3> QED BY <2>1, <3>1 DEF CallInv, Resolved
  <2>8. TInv' BY <1>2, StutterType
  <2> QED BY <2>2, <2>3, <2>4, <2>5, <2>6, <2>7, <2>8 DEF CallInv
<1> QED BY <1>1, <1>2

\* the code that a call of a finished program leads to
LEMMA CalleeReturns ==
  ASSUME TInv, CallInv, phase = "done", NEW c \in func_comefroms
  PROVE  /\ c.frame = FrameSize(<<c.fn>>) /\ Len(c.args) = syms[<<c.fn>>].nargs /\ Pushed(c)
         /\ Callee(c) \in DOMAIN rets /\ Callee(c) \in DOMAIN defs /\ defs[Callee(c)].fn = c.fn
         /\ rets[Callee(c)].frame = FrameSize(<<c.fn>>)
         /\ rets[Callee(c)].args = Len(defs[Callee(c)].args)
<1>1. c.fn \in Funcs /\ c.frame = FrameSize(<<c.fn>>) /\ Pushed(c) BY DEF CallInv, CallFrames
<1>2. cur = 0 /\ stage = "enter" /\ Resolvable(c) BY DEF CallInv, Resolved
<1>3. <<c.fn>> \in DOMAIN addr /\ Len(c.args) = syms[<<c.fn>>].nargs BY <1>2 DEF Resolvable
<1>4. Callee(c) \in DOMAIN defs /\ defs[Callee(c)].fn = c.fn /\ Callee(c) > cur
  BY <1>1, <1>2, <1>3 DEF CallInv, Addressed, CodeOf, Callee
<1>5. Callee(c) \in DOMAIN rets BY <1>4 DEF CallInv, Returned
<1>6. PICK d \in DOMAIN rets : d = Callee(c) BY <1>5
<1>7. rets[d] = [frame |-> FrameSize(<<defs[d].fn>>), args |-> Len(defs[d].args)]
  BY DEF CallInv, RetFrames
<1>8. rets[d].frame = FrameSize(<<defs[d].fn>>) /\ rets[d].args = Len(defs[d].args) BY <1>7
<1> QED BY <1>1, <1>3, <1>4, <1>5, <1>6, <1>8

\* A call builds the frame that the return of the code it leads to removes, in
\* every program whose variables are named apart from its functions and whose
\* functions are defined once.
THEOREM FramesAgree ==
  ASSUME NamesApart
  PROVE  Spec => []CallFramesAgree
<1>1. TInv /\ CallInv => CallFramesAgree BY CalleeReturns DEF CallFramesAgree
<1>2. TInv /\ CallInv /\ [Next]_vars => (TInv /\ CallInv)' BY NextCalls, NamesApart
<1> QED BY <1>1, <1>2, InitCalls, PTL DEF Spec

\* A call pushes the arguments that the return of the code it leads to removes,
\* in the same programs.
THEOREM ArgsAgree ==
  ASSUME NamesApart
  PROVE  Spec => []CallArgsAgree
<1>1. TInv /\ CallInv => CallArgsAgree
  <2> SUFFICES ASSUME TInv, CallInv, phase = "done", NEW c \in func_comefroms
               PROVE  Len(c.args) = rets[Callee(c)].args
    BY DEF CallArgsAgree
  <2>1. /\ Len(c.args) = syms[<<c.fn>>].nargs
        /\ Callee(c) \in DOMAIN defs /\ defs[Callee(c)].fn = c.fn
        /\ rets[Callee(c)].args = Len(defs[Callee(c)].args)
    BY CalleeReturns
  <2>2. syms[<<defs[Callee(c)].fn>>].nargs = Len(defs[Callee(c)].args)
    BY <2>1 DEF CallInv, ArgsKnown
  <2> QED BY <2>1, <2>2
<1>2. TInv /\ CallInv /\ [Next]_vars => (TInv /\ CallInv)' BY NextCalls, NamesApart
<1> QED BY <1>1, <1>2, InitCalls, PTL DEF Spec

-------------------------------------------------------------------------------
(***************************************************************************)
(* Arguments.  Addresses of variables are given once; the next argument of *)
(* the function that is visited begins where the one before it ends, and   *)
(* all arguments of a function have their places when its body is visited. *)
(***************************************************************************)
ArgName(d, i) == <<defs[d].fn, defs[d].args[i].name>>

ArgStart(d, i) ==
  IF i = 1 THEN 2 * AddrSize ELSE addr[ArgName(d, i - 1)] + Size(ArgName(d, i - 1))

\* the first n arguments lie one behind the other
Tiled(d, n) ==
  \A i \in 1 .. n : ArgName(d, i) \in DOMAIN addr /\ addr[ArgName(d, i)] = ArgStart(d, i)

TileInv ==
  /\ NothingWritten
  /\ \A d \in DOMAIN rets : Tiled(d, Len(defs[d].args))
  /\ stage = "args" => Tiled(cur, idx - 1) /\ frame_addr = ArgStart(cur, idx)
  /\ stage = "body" => Tiled(cur, Len(Def.args))

VariablesKept ==
  \A k \in DOMAIN addr : Len(k) = 2 => k \in DOMAIN addr' /\ addr'[k] = addr[k]

LEMMA TilesKept ==
  ASSUME UNCHANGED <<defs, syms>>, VariablesKept, NEW d, NEW n \in Nat, Tiled(d, n)
  PROVE  /\ Tiled(d, n)'
         /\ \A i \in 1 .. (n + 1) : ArgStart(d, i)' = ArgStart(d, i)
<1>1. \A i : ArgName(d, i)' = ArgName(d, i) /\ Len(ArgName(d, i)) = 2
  BY Singletons DEF ArgName
<1>2. \A k : Size(k)' = Size(k) BY DEF Size
<1>3. ASSUME NEW i \in 1 .. n
      PROVE  ArgName(d, i) \in DOMAIN addr' /\ addr'[ArgName(d, i)] = addr[ArgName(d, i)]
  <2>1. ArgName(d, i) \in DOMAIN addr BY DEF Tiled
  <2> QED BY <2>1, <1>1 DEF VariablesKept
<1>4. ASSUME NEW i \in 1 .. (n + 1) PROVE ArgStart(d, i)' = ArgStart(d, i)
  <2>1. CASE i = 1 BY <2>1 DEF ArgStart
  <2>2. CASE i # 1
    <3>1. i - 1 \in 1 .. n BY <2>2
    <3>2. PICK j : j = i - 1 OBVIOUS
    <3>3. addr'[ArgName(d, j)] = addr[ArgName(d, j)] BY <3>1, <3>2, <1>3
    <3>4. ArgStart(d, i) = addr[ArgName(d, j)] + Size(ArgName(d, j)) BY <2>2, <3>2 DEF ArgStart
    <3>5. ArgStart(d, i)' = addr'[ArgName(d, j)'] + Size(ArgName(d, j))'
      BY <2>2, <3>2 DEF ArgStart
    <3>6. PICK k : k = ArgName(d, j) OBVIOUS
    <3>7. Size(ArgName(d, j))' = Size(k)' BY <3>6, <1>1 DEF Size
    <3> QED BY <3>3, <3>4, <3>5, <3>6, <3>7, <1>1, <1>2
  <2> QED BY <2>1, <2>2
<1>5. Tiled(d, n)'
  <2> SUFFICES ASSUME NEW i \in 1 .. n
               PROVE  ArgName(d, i)' \in DOMAIN addr' /\ addr'[ArgName(d, i)'] = ArgStart(d, i)'
    BY DEF Tiled
  <2>1. addr[ArgName(d, i)] = ArgStart(d, i) BY DEF Tiled
  <2> QED BY <2>1, <1>1, <1>3, <1>4
<1> QED BY <1>4, <1>5

\* the arguments over a step that places none
LEMMA TileStep ==
  ASSUME TInv, TileInv, UNCHANGED <<defs, syms, rets, frame_addr>>, VariablesKept,
         phase' \notin {"parse", "start"},
         stage' # "enter" => UNCHANGED <<stage, cur>>,
         stage' = "args" => idx' = idx
  PROVE  TileInv'
<1>1. NothingWritten' BY DEF NothingWritten
<1>2. \A d \in DOMAIN defs : Len(defs[d].args) \in Nat
  BY DefType, LayoutAssumption DEF TInv
<1>3. DOMAIN rets \subseteq DOMAIN defs BY GeneratorState
<1>4. ASSUME NEW d \in DOMAIN rets PROVE Tiled(d, Len(defs[d].args))'
  <2>1. PICK n \in Nat : n = Len(defs[d].args) BY <1>2, <1>3
  <2>2. Tiled(d, n) BY <2>1 DEF TileInv
  <2>3. Tiled(d, n)' BY <2>2, TilesKept
  <2> QED BY <2>1, <2>3
<1>5. ASSUME stage' = "args" PROVE Tiled(cur, idx - 1)' /\ frame_addr' = ArgStart(cur, idx)'
  <2>1. PICK d : d = cur OBVIOUS
  <2>2. PICK n \in Nat : n = idx - 1 BY GeneratorState
  <2>3. Tiled(d, n) /\ frame_addr = ArgStart(d, n + 1)
    <3>1. n + 1 = idx BY <2>2, GeneratorState
    <3> QED BY <1>5, <2>1, <2>2, <3>1 DEF TileInv
  <2>4. Tiled(d, n)' /\ ArgStart(d, n + 1)' = ArgStart(d, n + 1) BY <2>3, TilesKept
  <2>5. d = cur' /\ n = idx' - 1 /\ n + 1 = idx' BY <2>1, <2>2, <1>5, GeneratorState
  <2> QED BY <2>3, <2>4, <2>5
<1>6. ASSUME stage' = "body" PROVE Tiled(cur, Len(Def.args))'
  <2>1. PICK d : d = cur OBVIOUS
  <2>2. stage = "body" /\ d = cur' BY <1>6, <2>1
  <2>3. PICK n \in Nat : n = Len(Def.args) BY <2>2, VisitedDef
  <2>4. Tiled(d, n) BY <2>1, <2>2, <2>3 DEF TileInv
  <2>5. Tiled(d, n)' BY <2>4, TilesKept
  <2>6. n = Len(Def.args)' BY <2>1, <2>2, <2>3 DEF Def
  <2> QED BY <2>2, <2>5, <2>6
<1>7. \A d \in DOMAIN rets' : Tiled(d, Len(defs[d].args))' BY <1>4
<1> QED BY <1>1, <1>5, <1>6, <1>7 DEF TileInv

LEMMA PlaceArgTiles == TInv /\ TileInv /\ PlaceArg => TileInv'
<1> SUFFICES ASSUME TInv, TileInv, PlaceArg PROVE TileInv' OBVIOUS
<1>1. /\ phase' = "code" /\ stage = "args" /\ stage' = "args" /\ idx <= Len(Def.args)
      /\ ArgKey \notin DOMAIN addr /\ idx' = idx + 1
      /\ addr' = With(addr, ArgKey, frame_addr) /\ frame_addr' = frame_addr + Size(ArgKey)
      /\ UNCHANGED <<phase, defs, syms, cur, rets>>
  BY DEF PlaceArg, NextArg, ArgOK, parser, written
<1>2. idx \in Nat \ {0} /\ idx \in DOMAIN Def.args
  <2>1. idx \in Nat \ {0} BY GeneratorState
  <2> QED BY <2>1, <1>1, VisitedDef
<1>3. PICK k : k = ArgKey OBVIOUS
<1>4. PICK d, i \in Nat \ {0} : d = cur /\ i = idx BY <1>1, <1>2, VisitedDef
<1>5. k = ArgName(d, i) BY <1>1, <1>2, <1>3, <1>4, VisitedDef DEF ArgKey, ArgName, Def
<1>6. VariablesKept BY <1>1, <1>3 DEF VariablesKept, With
<1>7. Tiled(d, i - 1) /\ frame_addr = ArgStart(d, i) BY <1>1, <1>4 DEF TileInv
<1>8. Tiled(d, i - 1)' /\ ArgStart(d, i)' = ArgStart(d, i)
  <2>1. PICK n \in Nat : n = i - 1 OBVIOUS
  <2>2. Tiled(d, n) /\ i \in 1 .. (n + 1) BY <1>7, <2>1
  <2>3. Tiled(d, n)' /\ ArgStart(d, i)' = ArgStart(d, i) BY <2>2, <1>1, <1>6, TilesKept
  <2> QED BY <2>1, <2>3
<1>9. k \in DOMAIN addr' /\ addr'[k] = frame_addr BY <1>1, <1>3 DEF With
<1>10. ArgName(d, i)' = k BY <1>5, <1>1 DEF ArgName
<1>11. Tiled(d, i)'
  <2> SUFFICES ASSUME NEW j \in 1 .. i
               PROVE  ArgName(d, j)' \in DOMAIN addr' /\ addr'[ArgName(d, j)'] = ArgStart(d, j)'
    BY DEF Tiled
  <2>1. CASE j = i BY <2>1, <1>7, <1>8, <1>9, <1>10
  <2>2. CASE j # i
    <3>1. j \in 1 .. (i - 1) BY <2>2
    <3> QED BY <3>1, <1>8 DEF Tiled
  <2> QED BY <2>1, <2>2
<1>12. frame_addr' = ArgStart(d, i + 1)'
  <2>1. ArgStart(d, i + 1)' = addr'[k] + Size(k)'
    <3>1. i + 1 # 1 /\ (i + 1) - 1 = i OBVIOUS
    <3>2. ArgStart(d, i + 1) = addr[ArgName(d, i)] + Size(ArgName(d, i))
      BY <3>1 DEF ArgStart
    <3>3. ArgStart(d, i + 1)' = addr'[ArgName(d, i)'] + TypeSize[syms'[ArgName(d, i)'].ty]
      BY <3>1 DEF ArgStart, Size
    <3> QED BY <3>3, <1>10 DEF Size
  <2>2. Size(k)' = Size(k) BY <1>1 DEF Size
  <2> QED BY <2>1, <2>2, <1>1, <1>3, <1>9
<1>13. Tiled(cur, idx - 1)' /\ frame_addr' = ArgStart(cur, idx)'
  <2>1. d = cur' /\ i = idx' - 1 /\ i + 1 = idx' BY <1>1, <1>4
  <2> QED BY <2>1, <1>11, <1>12
<1>14. ASSUME NEW c \in DOMAIN rets PROVE Tiled(c, Len(defs[c].args))'
  <2>1. c \in DOMAIN defs BY GeneratorState
  <2>2. PICK n \in Nat : n = Len(defs[c].args)
    BY <2>1, DefType, LayoutAssumption DEF TInv
  <2>3. Tiled(c, n) BY <2>2 DEF TileInv
  <2>4. Tiled(c, n)' BY <2>3, <1>1, <1>6, TilesKept
  <2> QED BY <2>2, <2>4, <1>1
<1>15. NothingWritten' BY <1>1 DEF NothingWritten
<1> QED BY <1>1, <1>13, <1>14, <1>15 DEF TileInv

LEMMA GenerateTiles == TInv /\ VarsApart /\ TileInv /\ Generate => TileInv'
<1> SUFFICES ASSUME TInv, VarsApart, TileInv, Generate PROVE TileInv' OBVIOUS
<1>0. cur \in Int /\ idx \in Nat \ {0} /\ AddrSize \in Nat BY GeneratorState
<1>1. CASE Start
  <2>1. /\ phase = "start" /\ phase' = "code" /\ UNCHANGED <<stage, rets>>
    BY <1>1 DEF Start
  <2>2. DOMAIN rets = {} /\ stage = "enter"
    BY <2>1 DEF TileInv, NothingWritten, TInv, ParserOK
  <2> QED BY <2>1, <2>2 DEF TileInv, NothingWritten
<1>2. CASE EnterFunc
  <2>1. /\ phase' = "code" /\ stage' = "args" /\ idx' = 1 /\ frame_addr' = 2 * AddrSize
        /\ UNCHANGED <<defs, syms, addr, rets>>
    BY <1>2 DEF EnterFunc, parser, written
  <2>2. VariablesKept BY <2>1 DEF VariablesKept
  <2>3. ASSUME NEW d \in DOMAIN rets PROVE Tiled(d, Len(defs[d].args))'
    <3>1. d \in DOMAIN defs BY GeneratorState
    <3>2. PICK n \in Nat : n = Len(defs[d].args)
      BY <3>1, DefType, LayoutAssumption DEF TInv
    <3>3. Tiled(d, n) BY <3>2 DEF TileInv
    <3>4. Tiled(d, n)' BY <3>3, <2>1, <2>2, TilesKept
    <3> QED BY <3>2, <3>4, <2>1
  <2>4. Tiled(cur, idx - 1)' /\ frame_addr' = ArgStart(cur, idx)'
    <3>1. 1 .. (idx' - 1) = {} BY <2>1
    <3> QED BY <3>1, <2>1 DEF Tiled, ArgStart
  <2> QED BY <2>1, <2>3, <2>4 DEF TileInv, NothingWritten
<1>3. CASE PlaceArg BY <1>3, PlaceArgTiles
<1>4. CASE AddressFunc
  <2>1. /\ phase' = "code" /\ stage = "args" /\ stage' = "body" /\ idx > Len(Def.args)
        /\ phase = "code"
        /\ addr' = With(addr, Find(CurScope, Def.fn), pos)
        /\ UNCHANGED <<defs, syms, cur, rets>>
    BY <1>4 DEF AddressFunc, parser
  <2>2. PICK k : k = <<Def.fn>> OBVIOUS
  <2>3. Find(CurScope, Def.fn) = k /\ Len(k) = 1
    <3>1. Def.fn \in Funcs BY <2>1, VisitedDef
    <3> QED BY <3>1, <2>2, GlobalName, Singletons DEF CurScope
  <2>4. VariablesKept BY <2>1, <2>3 DEF VariablesKept, With
  <2>5. ASSUME NEW d \in DOMAIN rets PROVE Tiled(d, Len(defs[d].args))'
    <3>1. d \in DOMAIN defs BY GeneratorState
    <3>2. PICK n \in Nat : n = Len(defs[d].args)
      BY <3>1, DefType, LayoutAssumption DEF TInv
    <3>3. Tiled(d, n) BY <3>2 DEF TileInv
    <3>4. Tiled(d, n)' BY <3>3, <2>1, <2>4, TilesKept
    <3> QED BY <3>2, <3>4, <2>1
  <2>6. Tiled(cur, Len(Def.args))'
    <3>1. PICK d : d = cur OBVIOUS
    <3>2. PICK n \in Nat : n = Len(Def.args) BY <2>1, VisitedDef
    <3>3. n = idx - 1
      <4>1. idx <= n + 1 BY <2>1, <3>2 DEF TInv, ParserOK
      <4> QED BY <4>1, <3>2, <2>1, <1>0
    <3>4. Tiled(d, n) BY <2>1, <3>1, <3>3 DEF TileInv
    <3>5. Tiled(d, n)' BY <3>4, <2>1, <2>4, TilesKept
    <3>6. d = cur' /\ n = Len(Def.args)' BY <2>1, <3>1, <3>2 DEF Def
    <3> QED BY <3>5, <3>6
  <2> QED BY <2>1, <2>5, <2>6 DEF TileInv, NothingWritten
<1>5. CASE VisitVarDecl
  <2>1. /\ phase' = "code" /\ stage = "body" /\ stage' = "body" /\ Key \notin DOMAIN addr
        /\ addr' = With(addr, Key, -(LocalStack + Size(Key)))
        /\ UNCHANGED <<defs, syms, cur, rets, frame_addr>>
    BY <1>5 DEF VisitVarDecl, Visits, WriteAccess, parser
  <2>2. VariablesKept BY <2>1 DEF VariablesKept, With
  <2> QED BY <2>1, <2>2, TileStep
<1>6. CASE VisitVar \/ VisitCall
  <2>1. /\ phase' = "code" /\ stage = "body"
        /\ UNCHANGED <<defs, syms, cur, stage, addr, rets, frame_addr>>
    BY <1>6 DEF VisitVar, VisitCall, Visits, WriteAccess, parser
  <2>2. VariablesKept BY <2>1 DEF VariablesKept
  <2> QED BY <2>1, <2>2, TileStep
<1>7. CASE LeaveFunc
  <2>1. /\ phase' = "code" /\ stage = "body" /\ stage' = "enter"
        /\ DOMAIN rets' = DOMAIN rets \union {cur}
        /\ UNCHANGED <<defs, syms, addr>>
    BY <1>7 DEF LeaveFunc, parser, With
  <2>2. ASSUME NEW d \in DOMAIN rets' PROVE Tiled(d, Len(defs[d].args))
    <3>1. CASE d = cur BY <3>1, <2>1 DEF TileInv, Def
    <3>2. CASE d \in DOMAIN rets BY <3>2 DEF TileInv
    <3> QED BY <3>1, <3>2, <2>1
  <2>3. \A d, n : Tiled(d, n)' <=> Tiled(d, n)
    BY <2>1 DEF Tiled, ArgName, ArgStart, Size
  <2>4. \A d \in DOMAIN rets' : Tiled(d, Len(defs[d].args))'
    <3> TAKE d \in DOMAIN rets'
    <3>1. PICK n : n = Len(defs[d].args) OBVIOUS
    <3>2. Tiled(d, n)' BY <2>2, <2>3, <3>1
    <3> QED BY <3>1, <3>2, <2>1
  <2> QED BY <2>1, <2>4 DEF TileInv, NothingWritten
<1>8. CASE Finish \/ Throw
  <2>1. /\ phase' \in {"done", "error"}
        /\ UNCHANGED <<defs, syms, cur, stage, idx, addr, rets, frame_addr>>
    BY <1>8 DEF Finish, Throw, parser, visitor, written
  <2>2. VariablesKept BY <2>1 DEF VariablesKept
  <2> QED BY <2>1, <2>2, TileStep
<1> QED BY <1>1, <1>2, <1>3, <1>4, <1>5, <1>6, <1>7, <1>8
        DEF Generate, StartError, PlaceArgError, VarDeclError, VarError, CallError, FinishError

LEMMA InitTiles == Init => TInv /\ TileInv
<1> SUFFICES ASSUME Init PROVE TileInv BY InitType
<1>1. phase = "parse" /\ func_comefroms = {} /\ DOMAIN rets = {} /\ stage = "enter" BY DEF Init
<1> QED BY <1>1 DEF TileInv, NothingWritten

LEMMA NextTiles == TInv /\ VarsApart /\ TileInv /\ [Next]_vars => (TInv /\ TileInv)'
<1> SUFFICES ASSUME TInv, VarsApart, TileInv, [Next]_vars PROVE (TInv /\ TileInv)' OBVIOUS
<1>1. CASE Generate BY <1>1, GenerateType, GenerateTiles
<1>2. CASE Parse
  <2>1. /\ phase = "parse" /\ phase' \in {"parse", "start"} /\ stage = "enter"
        /\ UNCHANGED <<stage, func_comefroms, rets>>
    BY <1>2, ParseState DEF visitor, written
  <2>2. TileInv' BY <2>1 DEF TileInv, NothingWritten
  <2> QED BY <2>2, <1>2, ParseType
<1>3. CASE UNCHANGED vars
  <2>1. UNCHANGED <<phase, defs, syms, cur, stage, idx, frame_addr, addr, func_comefroms, rets>>
    BY <1>3 DEF vars, parser, visitor, written
  <2>2. \A d, n : Tiled(d, n)' <=> Tiled(d, n)
    BY <2>1 DEF Tiled, ArgName, ArgStart, Size
  <2>3. TileInv'
    BY <2>1 DEF TileInv, NothingWritten, Tiled, ArgName, ArgStart, Size, Def
  <2> QED BY <2>3, <1>3, StutterType
<1> QED BY <1>1, <1>2, <1>3 DEF Next

-------------------------------------------------------------------------------
(***************************************************************************)
(* Sums.  A frame's size is a fold over the sizes of the locals.  The      *)
(* folding function exists on the subsets of a finite set, by induction on *)
(* their cardinality (a set of numbers without a least one is empty); its  *)
(* value does not depend on the order, and grows with each number.         *)
(***************************************************************************)
Pick(s) == CHOOSE x \in s : TRUE

SumStep(f, g, s) == IF s = {} THEN 0 ELSE f[Pick(s)] + g[s \ {Pick(s)}]

\* g has the sums of f over the subsets of S
Sums(f, g, S) == g = [s \in SUBSET S |-> SumStep(f, g, s)]

LEMMA SumUnfold ==
  ASSUME NEW f
  PROVE  SumOf(f) = (CHOOSE g : Sums(f, g, DOMAIN f))[DOMAIN f]
BY DEF SumOf, FoldFunction, FoldFunctionOnSet, MapThenFoldSet, Sums, SumStep, Pick

LEMMA Picked == \A s : s # {} => Pick(s) \in s
BY DEF Pick

\* of finite sets, one has no other of them as a subset
LEMMA LeastSubset ==
  ASSUME NEW S, IsFiniteSet(S), NEW B, B \subseteq SUBSET S, B # {}
  PROVE  \E s \in B : \A x \in s : s \ {x} \notin B
<1> DEFINE T == {Cardinality(s) : s \in B}
<1>1. \A s \in B : IsFiniteSet(s) /\ Cardinality(s) \in Nat
  BY FS_Subset, FS_CardinalityType
<1>2. T \subseteq Nat /\ T # {}
  BY <1>1
<1>3. PICK n \in T : \A m \in T : n <= m
  <2> HIDE DEF T
  <2> QED BY <1>2, LeastNumber
<1>4. PICK s \in B : n = Cardinality(s)
  OBVIOUS
<1>5. ASSUME NEW x \in s, s \ {x} \in B PROVE FALSE
  <2>1. Cardinality(s \ {x}) = Cardinality(s) - 1
    BY <1>1, <1>4, FS_RemoveElement
  <2>2. n <= Cardinality(s \ {x})
    BY <1>3, <1>5
  <2> QED BY <2>1, <2>2, <1>1, <1>4
<1> QED BY <1>4, <1>5

LEMMA SumsExist ==
  ASSUME NEW f, NEW S, IsFiniteSet(S)
  PROVE  \E g : Sums(f, g, S)
<1> DEFINE Upto(g, n) == \A s \in SUBSET S : Cardinality(s) <= n => g[s] = SumStep(f, g, s)
           Bad == {n \in Nat : ~ \E g : Upto(g, n)}
<1>1. \A s \in SUBSET S : IsFiniteSet(s) /\ Cardinality(s) \in Nat
  BY FS_Subset, FS_CardinalityType
<1>2. \E g : Upto(g, 0)
  <2>1. PICK g : g = [s \in SUBSET S |-> 0] OBVIOUS
  <2>2. \A s \in SUBSET S : Cardinality(s) <= 0 => s = {}
    <3> TAKE s \in SUBSET S
    <3>1. Cardinality(s) <= 0 => Cardinality(s) = 0 BY <1>1
    <3> QED BY <3>1, <1>1, FS_EmptySet
  <2>3. \A s \in SUBSET S : Cardinality(s) <= 0 => g[s] = SumStep(f, g, s)
    BY <2>1, <2>2 DEF SumStep
  <2> QED BY <2>3
<1>3. ASSUME NEW n \in Nat, \E g : Upto(g, n) PROVE \E g : Upto(g, n + 1)
  <2>1. PICK g : Upto(g, n) BY <1>3
  <2>2. PICK h : h = [s \in SUBSET S |-> SumStep(f, g, s)] OBVIOUS
  <2>3. ASSUME NEW s \in SUBSET S, Cardinality(s) <= n + 1 PROVE h[s] = SumStep(f, h, s)
    <3>1. CASE s = {} BY <3>1, <2>2 DEF SumStep
    <3>2. CASE s # {}
      <4>1. PICK t : t = s \ {Pick(s)} OBVIOUS
      <4>2. Pick(s) \in s BY <3>2, Picked
      <4>3. t \in SUBSET S /\ Cardinality(t) = Cardinality(s) - 1
        BY <4>1, <4>2, <1>1, FS_RemoveElement
      <4>4. Cardinality(t) <= n BY <4>3, <2>3, <1>1
      <4>5. g[t] = SumStep(f, g, t) BY <4>3, <4>4, <2>1
      <4>6. h[t] = SumStep(f, g, t) /\ h[s] = SumStep(f, g, s) BY <4>3, <2>2
      <4> QED BY <4>1, <4>5, <4>6, <3>2 DEF SumStep
    <3> QED BY <3>1, <3>2
  <2> QED BY <2>3
<1> HIDE DEF Upto
<1>4. Bad = {}
  <2> SUFFICES ASSUME Bad # {} PROVE FALSE OBVIOUS
  <2>1. PICK n \in Bad : \A m \in Bad : n <= m BY LeastNumber
  <2>2. n # 0 /\ n \in Nat BY <1>2
  <2>3. n - 1 \in Nat /\ n - 1 \notin Bad BY <2>1, <2>2
  <2>4. n = (n - 1) + 1 BY <2>2
  <2>5. \E g : Upto(g, n - 1) BY <2>3
  <2>6. \E g : Upto(g, (n - 1) + 1) BY <1>3, <2>3, <2>5
  <2> QED BY <2>4, <2>6
<1>5. Cardinality(S) \in Nat BY <1>1
<1>6. PICK g : Upto(g, Cardinality(S)) BY <1>4, <1>5
<1>7. PICK h : h = [s \in SUBSET S |-> SumStep(f, g, s)] OBVIOUS
<1>8. \A s \in SUBSET S : g[s] = SumStep(f, g, s)
  <2> TAKE s \in SUBSET S
  <2>1. Cardinality(s) <= Cardinality(S) BY FS_Subset
  <2> QED BY <2>1, <1>6 DEF Upto
<1>9. \A s \in SUBSET S : SumStep(f, h, s) = SumStep(f, g, s)
  <2> TAKE s \in SUBSET S
  <2>1. CASE s = {} BY <2>1 DEF SumStep
  <2>2. CASE s # {}
    <3>1. s \ {Pick(s)} \in SUBSET S OBVIOUS
    <3>2. h[s \ {Pick(s)}] = g[s \ {Pick(s)}] BY <3>1, <1>7, <1>8
    <3> QED BY <3>2, <2>2 DEF SumStep
  <2> QED BY <2>1, <2>2
<1>10. h = [s \in SUBSET S |-> SumStep(f, h, s)] BY <1>7, <1>9
<1> QED BY <1>10 DEF Sums

SumsOf(f) == CHOOSE g : Sums(f, g, DOMAIN f)

\* the sums of numbers are numbers, and it does not matter which is added last
LEMMA SumsFacts ==
  ASSUME NEW S, IsFiniteSet(S), NEW f \in [S -> Nat], NEW g, Sums(f, g, S)
  PROVE  /\ g[{}] = 0
         /\ \A s \in SUBSET S : g[s] \in Nat
         /\ \A s \in SUBSET S : \A x \in s : g[s] = f[x] + g[s \ {x}]
<1>1. \A s \in SUBSET S : g[s] = SumStep(f, g, s)
  BY DEF Sums
<1>2. g[{}] = 0
  BY <1>1 DEF SumStep
<1>3. \A s \in SUBSET S : g[s] \in Nat
  <2> DEFINE B == {s \in SUBSET S : g[s] \notin Nat}
  <2> SUFFICES ASSUME B # {} PROVE FALSE OBVIOUS
  <2>1. PICK s \in B : \A x \in s : s \ {x} \notin B BY LeastSubset
  <2>2. s # {} BY <1>2
  <2>3. Pick(s) \in s BY <2>2, Picked
  <2>4. g[s \ {Pick(s)}] \in Nat BY <2>1, <2>3
  <2>5. f[Pick(s)] \in Nat BY <2>3
  <2>6. g[s] = f[Pick(s)] + g[s \ {Pick(s)}] BY <1>1, <2>2 DEF SumStep
  <2> QED BY <2>4, <2>5, <2>6
<1>4. \A s \in SUBSET S : \A x \in s : g[s] = f[x] + g[s \ {x}]
  <2> DEFINE B == {s \in SUBSET S : ~ \A x \in s : g[s] = f[x] + g[s \ {x}]}
  <2> SUFFICES ASSUME B # {} PROVE FALSE OBVIOUS
  <2>1. PICK s \in B : \A x \in s : s \ {x} \notin B BY LeastSubset
  <2>2. PICK x \in s : g[s] # f[x] + g[s \ {x}] OBVIOUS
  <2>3. PICK c \in s : c = Pick(s) BY Picked
  <2>4. g[s] = f[c] + g[s \ {c}] BY <1>1, <2>3 DEF SumStep
  <2>5. x # c BY <2>2, <2>4
  <2>6. g[s \ {c}] = f[x] + g[(s \ {c}) \ {x}] BY <2>1, <2>5
  <2>7. g[s \ {x}] = f[c] + g[(s \ {x}) \ {c}] BY <2>1, <2>5
  <2>8. (s \ {c}) \ {x} = (s \ {x}) \ {c} OBVIOUS
  <2>9. PICK u : u = (s \ {c}) \ {x} OBVIOUS
  <2>10. g[u] \in Nat /\ f[x] \in Nat /\ f[c] \in Nat BY <2>9, <1>3
  <2>11. g[s \ {c}] = f[x] + g[u] /\ g[s \ {x}] = f[c] + g[u] BY <2>6, <2>7, <2>8, <2>9
  <2> QED BY <2>2, <2>4, <2>10, <2>11
<1> QED BY <1>2, <1>3, <1>4

\* the sums over the subsets of a smaller set are the same
LEMMA SumsRestrict ==
  ASSUME NEW S, IsFiniteSet(S), NEW T \in SUBSET S, NEW f \in [S -> Nat], NEW e \in [T -> Nat],
         \A x \in T : e[x] = f[x],
         NEW g, Sums(f, g, S), NEW h, Sums(e, h, T)
  PROVE  \A s \in SUBSET T : h[s] = g[s]
<1> DEFINE B == {s \in SUBSET T : h[s] # g[s]}
<1>0. IsFiniteSet(T) BY FS_Subset
<1> SUFFICES ASSUME B # {} PROVE FALSE OBVIOUS
<1>1. PICK s \in B : \A x \in s : s \ {x} \notin B BY <1>0, LeastSubset
<1>2. s # {}
  <2>1. h[{}] = 0 /\ g[{}] = 0 BY <1>0, SumsFacts
  <2> QED BY <2>1
<1>3. PICK x : x \in s BY <1>2
<1>4. h[s] = e[x] + h[s \ {x}]
  BY <1>0, <1>3, SumsFacts
<1>5. g[s] = f[x] + g[s \ {x}]
  BY <1>3, SumsFacts
<1>6. h[s \ {x}] = g[s \ {x}] /\ e[x] = f[x] BY <1>1, <1>3
<1> QED BY <1>4, <1>5, <1>6

LEMMA SumIsOfSums ==
  ASSUME NEW S, IsFiniteSet(S), NEW f \in [S -> Nat]
  PROVE  \E g : Sums(f, g, S) /\ SumOf(f) = g[S]
<1>1. \E g : Sums(f, g, S) BY SumsExist
<1>2. PICK g : g = CHOOSE h : Sums(f, h, S) OBVIOUS
<1>3. Sums(f, g, S) BY <1>1, <1>2
<1>4. DOMAIN f = S OBVIOUS
<1>5. SumOf(f) = g[S] BY <1>2, <1>4, SumUnfold
<1> QED BY <1>3, <1>5

\* a sum of numbers is a number, and that of none is zero
LEMMA SumType ==
  ASSUME NEW S, IsFiniteSet(S), NEW f \in [S -> Nat]
  PROVE  SumOf(f) \in Nat /\ (S = {} => SumOf(f) = 0)
<1>1. PICK g : Sums(f, g, S) /\ SumOf(f) = g[S] BY SumIsOfSums
<1>2. g[{}] = 0 /\ \A s \in SUBSET S : g[s] \in Nat BY <1>1, SumsFacts
<1> QED BY <1>1, <1>2

\* a sum grows by the number that is added to it
LEMMA SumAdd ==
  ASSUME NEW S, IsFiniteSet(S), NEW x, x \notin S,
         NEW f \in [S \union {x} -> Nat], NEW e \in [S -> Nat], \A y \in S : e[y] = f[y]
  PROVE  SumOf(f) = SumOf(e) + f[x]
<1>1. PICK R : R = S \union {x} OBVIOUS
<1>2. IsFiniteSet(R) /\ S \in SUBSET R /\ x \in R /\ R \ {x} = S BY <1>1, FS_AddElement
<1>3. f \in [R -> Nat] BY <1>1
<1>4. PICK g : Sums(f, g, R) /\ SumOf(f) = g[R] BY <1>2, <1>3, SumIsOfSums
<1>5. PICK h : Sums(e, h, S) /\ SumOf(e) = h[S] BY SumIsOfSums
<1>6. h[S] = g[S] BY <1>2, <1>3, <1>4, <1>5, SumsRestrict
<1>7. g[R] = f[x] + g[S] /\ g[S] \in Nat /\ f[x] \in Nat BY <1>2, <1>3, <1>4, SumsFacts
<1> QED BY <1>4, <1>5, <1>6, <1>7

\* the sum of fewer numbers is not larger
LEMMA SumMonotone ==
  ASSUME NEW S, IsFiniteSet(S), NEW T \in SUBSET S,
         NEW f \in [S -> Nat], NEW e \in [T -> Nat], \A y \in T : e[y] = f[y]
  PROVE  SumOf(e) <= SumOf(f)
<1>1. IsFiniteSet(T) BY FS_Subset
<1>2. PICK g : Sums(f, g, S) /\ SumOf(f) = g[S] BY SumIsOfSums
<1>3. PICK h : Sums(e, h, T) /\ SumOf(e) = h[T] BY <1>1, SumIsOfSums
<1>4. h[T] = g[T] BY <1>2, <1>3, SumsRestrict
<1>5. \A s \in SUBSET S : g[s] \in Nat BY <1>2, SumsFacts
<1> DEFINE B == {s \in SUBSET S : T \subseteq s /\ ~(g[T] <= g[s])}
<1>6. B = {}
  <2> SUFFICES ASSUME B # {} PROVE FALSE OBVIOUS
  <2>0. B \subseteq SUBSET S OBVIOUS
  <2>1. PICK s \in B : \A x \in s : s \ {x} \notin B
    <3> HIDE DEF B
    <3> QED BY <2>0, LeastSubset
  <2>2. T # s BY <1>5
  <2>3. PICK x \in s : x \notin T BY <2>2
  <2>4. T \subseteq s \ {x} /\ s \ {x} \in SUBSET S BY <2>3
  <2>5. g[T] <= g[s \ {x}] BY <2>1, <2>4
  <2>6. g[s] = f[x] + g[s \ {x}] BY <1>2, SumsFacts
  <2>7. g[T] \in Nat /\ g[s \ {x}] \in Nat /\ f[x] \in Nat BY <1>5, <2>4
  <2>8. g[T] <= g[s] BY <2>5, <2>6, <2>7
  <2> QED BY <2>8
<1> QED BY <1>2, <1>3, <1>4, <1>6

-------------------------------------------------------------------------------
(***************************************************************************)
(* Passing of arguments.  The places of what a call has pushed grow by the *)
(* actual sizes, the addresses of the arguments by the declared ones; both *)
(* begin above the saved pointers, and agree up to the first argument      *)
(* behind one of another size.                                             *)
(***************************************************************************)
LEMMA PlacesStep ==
  ASSUME NEW tys \in Seq(Types), NEW i \in 1 .. Len(tys)
  PROVE  /\ ArgPlaces(tys)[i] \in Int
         /\ i = 1 => ArgPlaces(tys)[i] = 2 * AddrSize
         /\ i > 1 => ArgPlaces(tys)[i] = ArgPlaces(tys)[i - 1] + TypeSize[tys[i - 1]]
<1> DEFINE e(k) == [j \in 1 .. (k - 1) |-> TypeSize[tys[j]]]
<1>1. /\ Len(tys) \in Nat /\ DOMAIN tys = 1 .. Len(tys)
      /\ AddrSize \in Nat /\ \A j \in 1 .. Len(tys) : TypeSize[tys[j]] \in Nat
  BY LayoutAssumption
<1>2. ASSUME NEW k \in 1 .. Len(tys)
      PROVE  ArgPlaces(tys)[k] = 2 * AddrSize + SumOf(e(k)) /\ e(k) \in [1 .. (k - 1) -> Nat]
  BY <1>1 DEF ArgPlaces
<1>3. ASSUME NEW k \in 1 .. Len(tys)
      PROVE  SumOf(e(k)) \in Nat /\ (k = 1 => SumOf(e(k)) = 0) /\ IsFiniteSet(1 .. (k - 1))
  <2>1. IsFiniteSet(1 .. (k - 1)) BY FS_Interval
  <2>2. k = 1 => 1 .. (k - 1) = {} OBVIOUS
  <2> HIDE DEF e
  <2> QED BY <1>2, <2>1, <2>2, SumType
<1>4. ASSUME i > 1 PROVE SumOf(e(i)) = SumOf(e(i - 1)) + TypeSize[tys[i - 1]]
  <2>1. PICK k \in 1 .. Len(tys) : k = i - 1 BY <1>1, <1>4
  <2>2. /\ 1 .. (i - 1) = (1 .. (k - 1)) \union {k} /\ k \notin 1 .. (k - 1)
        /\ e(i)[k] = TypeSize[tys[k]]
    BY <2>1
  <2>3. \A y \in 1 .. (k - 1) : e(k)[y] = e(i)[y] BY <2>1
  <2>4. e(i) \in [1 .. (i - 1) -> Nat] /\ e(k) \in [1 .. (k - 1) -> Nat] BY <1>2
  <2>5. IsFiniteSet(1 .. (k - 1)) BY <1>3
  <2> HIDE DEF e
  <2>6. PICK S : S = 1 .. (k - 1) OBVIOUS
  <2>7. PICK f : f = e(i) OBVIOUS
  <2>8. PICK g : g = e(k) OBVIOUS
  <2>9. /\ IsFiniteSet(S) /\ k \notin S /\ f \in [S \union {k} -> Nat] /\ g \in [S -> Nat]
        /\ \A y \in S : g[y] = f[y]
    BY <2>2, <2>3, <2>4, <2>5, <2>6, <2>7, <2>8
  <2>10. SumOf(f) = SumOf(g) + f[k] BY <2>9, SumAdd
  <2> QED BY <2>1, <2>2, <2>7, <2>8, <2>10
<1> HIDE DEF e
<1>5. i > 1 => i - 1 \in 1 .. Len(tys) BY <1>1
<1>6. i > 1 => TypeSize[tys[i - 1]] \in Nat BY <1>1, <1>5
<1>7. PICK p : p = ArgPlaces(tys) OBVIOUS
<1>8. \A k \in 1 .. Len(tys) : p[k] = 2 * AddrSize + SumOf(e(k)) BY <1>2, <1>7
<1>9. \A k \in 1 .. Len(tys) : SumOf(e(k)) \in Nat /\ (k = 1 => SumOf(e(k)) = 0) BY <1>3
<1>10. p[i] \in Int /\ (i = 1 => p[i] = 2 * AddrSize) BY <1>1, <1>8, <1>9
<1>11. i > 1 => p[i] = p[i - 1] + TypeSize[tys[i - 1]]
  <2> SUFFICES ASSUME i > 1 PROVE p[i] = p[i - 1] + TypeSize[tys[i - 1]] OBVIOUS
  <2>1. PICK k \in 1 .. Len(tys) : k = i - 1 BY <1>5
  <2>2. SumOf(e(i)) = SumOf(e(k)) + TypeSize[tys[k]] BY <1>4, <2>1
  <2>3. SumOf(e(k)) \in Nat /\ TypeSize[tys[k]] \in Nat BY <1>1, <1>9
  <2>4. p[k] = 2 * AddrSize + SumOf(e(k)) /\ p[i] = 2 * AddrSize + SumOf(e(i)) BY <1>8
  <2>5. p[i] = p[k] + TypeSize[tys[k]] BY <1>1, <2>2, <2>3, <2>4
  <2> QED BY <2>1, <2>5
<1> QED BY <1>7, <1>10, <1>11

\* A function looks for an argument where a call has pushed it if the arguments before
\* it have the sizes that are declared, in every program whose variables are named
\* apart from its functions and whose functions are defined once.
THEOREM ArgsArriveHolds ==
  ASSUME NamesApart
  PROVE  Spec => []ArgsArrive
<1>1. TInv /\ CallInv /\ TileInv => ArgsArrive
  <2> SUFFICES ASSUME TInv, CallInv, TileInv, phase = "done", NEW c \in func_comefroms
               PROVE  \A i \in DOMAIN c.args :
                        LET key(j) == <<c.fn, defs[Callee(c)].args[j].name>>
                        IN  (\A j \in 1 .. (i - 1) : TypeSize[c.args[j]] = Size(key(j)))
                            => addr[key(i)] = c.places[i]
    BY DEF ArgsArrive
  <2>1. PICK d : d = Callee(c) OBVIOUS
  <2>2. /\ Len(c.args) = syms[<<c.fn>>].nargs /\ Pushed(c)
        /\ d \in DOMAIN rets /\ d \in DOMAIN defs /\ defs[d].fn = c.fn
    BY <2>1, CalleeReturns
  <2>3. syms[<<defs[d].fn>>].nargs = Len(defs[d].args) BY <2>2 DEF CallInv, ArgsKnown
  <2>4. PICK n \in Nat : n = Len(defs[d].args) BY <2>2, DefType, LayoutAssumption DEF TInv
  <2>5. Tiled(d, n) BY <2>2, <2>4 DEF TileInv
  <2>6. c.args \in Seq(Types) /\ Len(c.args) = n /\ DOMAIN c.args = 1 .. n
        /\ c.places = ArgPlaces(c.args)
    BY <2>2, <2>3, <2>4 DEF Pushed
  <2> DEFINE Agrees(i) == \A j \in 1 .. (i - 1) : TypeSize[c.args[j]] = Size(ArgName(d, j))
             Bad == {i \in 1 .. n : Agrees(i) /\ addr[ArgName(d, i)] # c.places[i]}
  <2>7. Bad = {}
    <3> SUFFICES ASSUME Bad # {} PROVE FALSE OBVIOUS
    <3>1. Bad \subseteq Nat OBVIOUS
    <3>2. PICK i \in Bad : \A k \in Bad : i <= k
      <4> HIDE DEF Bad
      <4> QED BY <3>1, LeastNumber
    <3>3. i \in 1 .. n /\ Agrees(i) /\ addr[ArgName(d, i)] # c.places[i] BY <3>2
    <3>4. addr[ArgName(d, i)] = ArgStart(d, i) BY <2>5, <3>3 DEF Tiled
    <3>5. CASE i = 1
      <4>1. ArgStart(d, i) = 2 * AddrSize BY <3>5 DEF ArgStart
      <4>2. c.places[i] = 2 * AddrSize BY <2>6, <3>3, <3>5, PlacesStep
      <4> QED BY <3>3, <3>4, <4>1, <4>2
    <3>6. CASE i > 1
      <4>1. PICK k \in 1 .. n : k = i - 1 BY <3>3, <3>6
      <4>2. k < i /\ k \notin Bad /\ Agrees(k) BY <3>2, <3>3, <4>1
      <4>3. addr[ArgName(d, k)] = c.places[k] BY <4>2
      <4>4. Size(ArgName(d, k)) = TypeSize[c.args[k]] BY <3>3, <4>1
      <4>5. ArgStart(d, i) = addr[ArgName(d, k)] + Size(ArgName(d, k))
        BY <3>6, <4>1 DEF ArgStart
      <4>6. c.places[i] = c.places[k] + TypeSize[c.args[k]] BY <2>6, <3>3, <3>6, <4>1, PlacesStep
      <4> QED BY <3>3, <3>4, <4>3, <4>4, <4>5, <4>6
    <3> QED BY <3>3, <3>5, <3>6
  <2>8. \A j : ArgName(d, j) = <<c.fn, defs[Callee(c)].args[j].name>> BY <2>1, <2>2 DEF ArgName
  <2> QED BY <2>6, <2>7, <2>8
<1>2. TInv /\ CallInv /\ TileInv /\ [Next]_vars => (TInv /\ CallInv /\ TileInv)'
  BY NextCalls, NextTiles, NamesApart DEF NamesApart
<1> QED BY <1>1, <1>2, InitCalls, InitTiles, PTL DEF Spec

-------------------------------------------------------------------------------
(***************************************************************************)
(* Accesses.  The stack of a function that has been visited so far is the  *)
(* sum of the sizes of its locals that have an address, so that it is      *)
(* never larger than the frame; a symbol is an argument or a local in the  *)
(* symbol table as it is in the frame.                                     *)
(***************************************************************************)
DeclsLocal ==
  \A d \in DOMAIN defs : \A i \in DOMAIN defs[d].body :
    defs[d].body[i].op = "decl" => syms[<<defs[d].fn, defs[d].body[i].name>>].arg = 0

NothingAccessed == phase \in {"parse", "start"} => accesses = {}

ArgOf(k) == \E d \in DOMAIN defs :
              Scope(k) = <<defs[d].fn>> /\ syms[k].arg <= Len(defs[d].args)

SidesKnown ==
  \A k \in Variables : IF syms[k].arg > 0 THEN ArgOf(k) ELSE addr[k] + Size(k) <= 0

PlacedLocals(f) == Locals(<<f>>) \intersect DOMAIN addr

StackOf(f) == IF f \in DOMAIN local_stack THEN local_stack[f] ELSE 0

StacksFilled ==
  \A f \in Funcs : StackOf(f) = SumOf([k \in PlacedLocals(f) |-> Size(k)])

OwnVariable(a) ==
  /\ a.def \in DOMAIN defs /\ a.key \in Variables
  /\ Scope(a.key) = <<defs[a.def].fn>> /\ a.addr = addr[a.key]

AccessesOwn == \A a \in accesses : OwnVariable(a)

AccessInv ==
  /\ IsFiniteSet(DOMAIN syms)
  /\ DeclsLocal /\ NothingAccessed /\ SidesKnown /\ StacksFilled /\ AccessesOwn

LEMMA LocalType ==
  ASSUME TInv, NEW f, NEW k \in Locals(<<f>>)
  PROVE  /\ k \in DOMAIN syms /\ Len(k) = 2 /\ Scope(k) = <<f>> /\ syms[k].arg = 0
         /\ Size(k) \in Nat
<1>1. k \in DOMAIN syms /\ k \in Keys /\ Len(k) > 1 /\ Scope(k) = <<f>> /\ syms[k].arg = 0
  BY DEF Locals, TInv, TypeOK
<1>2. Len(k) = 2
  <2>1. Len(k) = 1 \/ Len(k) = 2 BY <1>1, KeyShape, Zenon
  <2>2. PICK n : n = Len(k) OBVIOUS
  <2>3. n > 1 /\ (n = 1 \/ n = 2) BY <1>1, <2>1, <2>2
  <2> QED BY <2>2, <2>3
<1> QED BY <1>1, <1>2, SizeType

\* a definition enters finitely many symbols, and none of another function
LEMMA EnterScopeSymbols ==
  ASSUME TInv, IsFiniteSet(DOMAIN syms), NEW f \in Funcs, NEW args \in ArgLists,
         NEW r, r = Registered(f, args)
  PROVE  /\ IsFiniteSet(DOMAIN r)
         /\ \A g, x : g # f /\ <<g, x>> \in DOMAIN syms => r[<<g, x>>] = syms[<<g, x>>]
<1> DEFINE new == {<<f, args[i].name>> : i \in DOMAIN args}
<1>1. DOMAIN args = 1 .. Len(args) /\ Len(args) \in Nat
  BY ArgListType, LayoutAssumption
<1>2. IsFiniteSet(new)
  <2>1. IsFiniteSet(DOMAIN args) BY <1>1, FS_Interval
  <2>2. PICK m : m = [i \in DOMAIN args |-> <<f, args[i].name>>] OBVIOUS
  <2>3. m \in Surjection(DOMAIN args, new) BY <2>2 DEF Surjection
  <2> HIDE DEF new
  <2> QED BY <2>1, <2>3, FS_Surjection
<1>3. DOMAIN r = (DOMAIN syms \union new) \union {<<f>>} BY DEF Registered
<1>4. IsFiniteSet(DOMAIN r)
  <2> HIDE DEF new
  <2>1. IsFiniteSet(DOMAIN syms \union new) BY <1>2, FS_Union
  <2>2. PICK T : T = DOMAIN syms \union new OBVIOUS
  <2>3. IsFiniteSet(T \union {<<f>>}) BY <2>1, <2>2, FS_AddElement
  <2> QED BY <2>2, <2>3, <1>3
<1>5. ASSUME NEW g, NEW x, g # f, <<g, x>> \in DOMAIN syms PROVE r[<<g, x>>] = syms[<<g, x>>]
  <2>1. PICK k : k = <<g, x>> OBVIOUS
  <2>2. k # <<f>> BY <2>1, Singletons
  <2>3. k \notin new BY <2>1, <1>5, Singletons
  <2>4. r[k] = syms[k] BY <1>5, <2>1, <2>2, <2>3 DEF Registered
  <2> QED BY <2>1, <2>4
<1> QED BY <1>4, <1>5

\* what is declared in a function's body is local to it
LEMMA DeclsKept ==
  TInv /\ IsFiniteSet(DOMAIN syms) /\ DeclsLocal /\ ~Redefine /\ Next
    => IsFiniteSet(DOMAIN syms)' /\ DeclsLocal'
<1> DEFINE Kept == IsFiniteSet(DOMAIN syms') /\ DeclsLocal'
<1> SUFFICES ASSUME TInv, IsFiniteSet(DOMAIN syms), DeclsLocal, ~Redefine, Next PROVE Kept OBVIOUS
<1>0. \A d \in DOMAIN defs : \A i \in DOMAIN defs[d].body : defs[d].body[i].op = "decl" =>
        /\ <<defs[d].fn, defs[d].body[i].name>> \in DOMAIN syms
        /\ syms[<<defs[d].fn, defs[d].body[i].name>>].arg = 0
  BY DEF DeclsLocal, TInv, ParserOK, DefNamed
<1>1. ASSUME NEW f \in Funcs, NEW args \in ArgLists, EnterScope(f, args) PROVE Kept
  <2> DEFINE new == [fn |-> f, args |-> args, body |-> <<>>]
  <2>1. defs' = Append(defs, new) /\ syms' = Registered(f, args)
        /\ \A d \in DOMAIN defs : defs[d].fn # f
    BY <1>1 DEF EnterScope
  <2>2. defs \in Seq(Definition) /\ new \in Definition /\ DOMAIN new.body = {}
    BY DEF TInv, TypeOK, Definition
  <2> HIDE DEF new
  <2>3. DOMAIN defs' = 1 .. (Len(defs) + 1) /\ DOMAIN defs = 1 .. Len(defs) /\ Len(defs) \in Nat
        /\ defs'[Len(defs) + 1] = new /\ (\A d \in DOMAIN defs : defs'[d] = defs[d])
    BY <2>1, <2>2, AppendProperties
  <2>4. PICK r : r = Registered(f, args) OBVIOUS
  <2>5. /\ IsFiniteSet(DOMAIN r)
        /\ \A g, x : g # f /\ <<g, x>> \in DOMAIN syms => r[<<g, x>>] = syms[<<g, x>>]
    BY <2>4, EnterScopeSymbols
  <2>6. ASSUME NEW d \in DOMAIN defs', NEW i \in DOMAIN defs'[d].body, defs'[d].body[i].op = "decl"
        PROVE  r[<<defs'[d].fn, defs'[d].body[i].name>>].arg = 0
    <3>1. d # Len(defs) + 1 BY <2>2, <2>3, <2>6
    <3>2. d \in DOMAIN defs /\ defs'[d] = defs[d] BY <3>1, <2>3
    <3> QED BY <3>2, <2>1, <2>5, <2>6, <1>0, SMTT(30)
  <2>7. syms' = r BY <2>1, <2>4
  <2> QED BY <2>5, <2>6, <2>7 DEF DeclsLocal
<1>2. ASSUME NEW item \in Item, AddStatement(item), IsFiniteSet(DOMAIN syms'),
             \A k \in DOMAIN syms : syms[k].arg = 0 => syms'[k].arg = 0,
             item.op = "decl" => syms'[Append(scope, item.name)].arg = 0
      PROVE  Kept
  <2>1. PICK n : n = Len(defs) OBVIOUS
  <2>2. /\ n \in DOMAIN defs /\ scope = <<defs[n].fn>> /\ DOMAIN defs' = DOMAIN defs
        /\ \A d \in DOMAIN defs : defs'[d].fn = defs[d].fn /\ (d # n => defs'[d] = defs[d])
        /\ defs'[n].body = Append(defs[n].body, item)
    BY <2>1, <1>2, AddStatementDefs
  <2>3. PICK b : b = defs[n].body OBVIOUS
  <2>4. b \in Seq(Item) BY <2>2, <2>3, DefType DEF TInv
  <2>5. /\ DOMAIN defs'[n].body = 1 .. (Len(b) + 1) /\ DOMAIN b = 1 .. Len(b) /\ Len(b) \in Nat
        /\ defs'[n].body[Len(b) + 1] = item
        /\ \A i \in DOMAIN b : defs'[n].body[i] = b[i]
    BY <2>2, <2>3, <2>4, AppendProperties
  <2>6. ASSUME NEW d \in DOMAIN defs', NEW i \in DOMAIN defs'[d].body, defs'[d].body[i].op = "decl"
        PROVE  syms'[<<defs'[d].fn, defs'[d].body[i].name>>].arg = 0
    <3>1. CASE d # n \/ i \in DOMAIN b
      <4>1. d \in DOMAIN defs /\ defs'[d].fn = defs[d].fn BY <2>2
      <4>2. i \in DOMAIN defs[d].body /\ defs'[d].body[i] = defs[d].body[i]
        BY <3>1, <2>2, <2>3, <2>5, <2>6
      <4> QED BY <4>1, <4>2, <2>6, <1>0, <1>2
    <3>2. CASE d = n /\ i \notin DOMAIN b
      <4>1. i = Len(b) + 1 BY <3>2, <2>5, <2>6
      <4>2. defs'[d].body[i] = item /\ defs'[d].fn = defs[n].fn BY <4>1, <3>2, <2>2, <2>5
      <4>3. Append(scope, item.name) = <<defs[n].fn, item.name>> BY <2>2, Singletons
      <4> QED BY <4>2, <4>3, <2>6, <1>2
    <3> QED BY <3>1, <3>2
  <2> QED BY <2>6, <1>2 DEF DeclsLocal
<1>3. ASSUME NEW x \in Vars, NEW t \in Types, Declare(x, t) PROVE Kept
  <2>1. PICK item \in Item : item = [op |-> "decl", name |-> x, args |-> <<>>] BY DEF Item
  <2>2. PICK k : k = Append(scope, x) OBVIOUS
  <2>3. AddStatement(item) /\ syms' = With(syms, k, VarSym(t, 0)) /\ item.name = x
    BY <1>3, <2>1, <2>2 DEF Declare
  <2>4. DOMAIN syms' = DOMAIN syms \union {k} /\ syms'[k].arg = 0
        /\ \A l \in DOMAIN syms : l # k => syms'[l] = syms[l]
    BY <2>3 DEF With, VarSym
  <2>5. IsFiniteSet(DOMAIN syms') BY <2>4, FS_AddElement
  <2> QED BY <2>2, <2>3, <2>4, <2>5, <1>2
<1>4. ASSUME NEW x \in Vars, Mention(x) PROVE Kept
  <2>1. PICK item \in Item : item = [op |-> "use", name |-> x, args |-> <<>>] BY DEF Item
  <2>2. AddStatement(item) /\ syms' = syms /\ item.op # "decl" BY <1>4, <2>1 DEF Mention
  <2> QED BY <2>2, <1>2
<1>5. ASSUME NEW g \in Funcs, NEW tys \in TypeLists, CallArgs(g, tys) PROVE Kept
  <2>1. PICK item \in Item : item = [op |-> "call", name |-> g, args |-> tys] BY DEF Item
  <2>2. AddStatement(item) /\ syms' = syms /\ item.op # "decl" BY <1>5, <2>1 DEF CallArgs
  <2> QED BY <2>2, <1>2
<1>6. LeaveScope \/ Parsed \/ Generate => UNCHANGED <<defs, syms>>
  BY GenerateParser DEF LeaveScope, Parsed, parser
<1>7. CASE UNCHANGED <<defs, syms>> BY <1>7 DEF DeclsLocal
<1> QED BY <1>1, <1>3, <1>4, <1>5, <1>6, <1>7 DEF Next, Parse

LEMMA PlacedType ==
  ASSUME TInv, IsFiniteSet(DOMAIN syms), NEW f
  PROVE  /\ IsFiniteSet(Locals(<<f>>)) /\ IsFiniteSet(PlacedLocals(f))
         /\ PlacedLocals(f) \in SUBSET Locals(<<f>>)
         /\ [k \in Locals(<<f>>) |-> Size(k)] \in [Locals(<<f>>) -> Nat]
         /\ [k \in PlacedLocals(f) |-> Size(k)] \in [PlacedLocals(f) -> Nat]
<1>1. Locals(<<f>>) \in SUBSET (DOMAIN syms) /\ PlacedLocals(f) \in SUBSET Locals(<<f>>)
  BY DEF Locals, PlacedLocals
<1>2. IsFiniteSet(Locals(<<f>>)) BY <1>1, FS_Subset
<1>3. IsFiniteSet(PlacedLocals(f)) BY <1>1, <1>2, FS_Subset
<1>4. \A k \in Locals(<<f>>) : Size(k) \in Nat BY LocalType
<1> QED BY <1>1, <1>2, <1>3, <1>4

\* the stacks over a step that places no local
LEMMA StacksKept ==
  ASSUME StacksFilled, UNCHANGED <<syms, local_stack>>,
         \A k \in DOMAIN syms : Len(k) > 1 /\ syms[k].arg = 0
            => (k \in DOMAIN addr' <=> k \in DOMAIN addr)
  PROVE  StacksFilled'
<1> SUFFICES ASSUME NEW f \in Funcs
             PROVE  StackOf(f)' = SumOf([k \in PlacedLocals(f) |-> Size(k)])'
  BY DEF StacksFilled
<1>1. StackOf(f)' = StackOf(f) BY DEF StackOf
<1>2. PlacedLocals(f)' = PlacedLocals(f) BY DEF PlacedLocals, Locals
<1>3. \A k : Size(k)' = Size(k) BY DEF Size
<1>4. SumOf([k \in PlacedLocals(f) |-> Size(k)])' = SumOf([k \in PlacedLocals(f)' |-> Size(k)'])
  OBVIOUS
<1>5. [k \in PlacedLocals(f)' |-> Size(k)'] = [k \in PlacedLocals(f) |-> Size(k)]
  BY <1>2, <1>3
<1> QED BY <1>1, <1>4, <1>5 DEF StacksFilled

\* accesses and sides over a step that keeps the addresses
LEMMA AccessesKept ==
  ASSUME TInv, AccessInv, UNCHANGED <<defs, syms>>, VariablesKept
  PROVE  /\ \A a \in accesses : OwnVariable(a)'
         /\ \A k \in Variables : IF syms'[k].arg > 0 THEN ArgOf(k)' ELSE addr'[k] + Size(k)' <= 0
<1>1. \A k \in Variables : k \in Variables' /\ addr'[k] = addr[k]
  BY VariableType DEF VariablesKept, Variables
<1>2. \A a \in accesses : OwnVariable(a)' BY <1>1 DEF AccessInv, AccessesOwn, OwnVariable
<1>3. \A k : Size(k)' = Size(k) /\ (ArgOf(k)' <=> ArgOf(k)) BY DEF Size, ArgOf
<1> QED BY <1>1, <1>2, <1>3 DEF AccessInv, SidesKnown

LEMMA PlaceArgAccesses ==
  TInv /\ AccessInv /\ PlaceArg => SidesKnown' /\ StacksFilled' /\ AccessesOwn'
<1> SUFFICES ASSUME TInv, AccessInv, PlaceArg
             PROVE  SidesKnown' /\ StacksFilled' /\ AccessesOwn'
  OBVIOUS
<1>1. /\ stage = "args" /\ idx <= Len(Def.args) /\ ArgKey \notin DOMAIN addr
      /\ syms[ArgKey].arg = idx /\ addr' = With(addr, ArgKey, frame_addr)
      /\ UNCHANGED <<defs, syms, local_stack, accesses>>
  BY DEF PlaceArg, NextArg, ArgOK, parser, written
<1>2. idx \in Nat \ {0} /\ idx \in DOMAIN Def.args /\ cur \in DOMAIN defs
  <2>1. idx \in Nat \ {0} BY GeneratorState
  <2> QED BY <2>1, <1>1, VisitedDef
<1>3. PICK k : k = ArgKey OBVIOUS
<1>4. Len(k) = 2 /\ Scope(k) = <<Def.fn>>
  <2>1. k = <<Def.fn, Def.args[idx].name>> BY <1>1, <1>2, <1>3, VisitedDef DEF ArgKey
  <2> QED BY <2>1, Singletons
<1>5. VariablesKept BY <1>1, <1>3 DEF VariablesKept, With
<1>6. Variables' = Variables \union {k}
  <2>1. DOMAIN addr' = DOMAIN addr \union {k} BY <1>1, <1>3 DEF With
  <2>2. Len(k) > 1 BY <1>4
  <2> QED BY <2>1, <2>2 DEF Variables
<1>7. AccessesOwn' BY <1>1, <1>5, AccessesKept DEF AccessesOwn
<1>8. SidesKnown'
  <2> SUFFICES ASSUME NEW l \in Variables'
               PROVE  IF syms'[l].arg > 0 THEN ArgOf(l)' ELSE addr'[l] + Size(l)' <= 0
    BY DEF SidesKnown
  <2>1. CASE l = k
    <3>1. syms'[l].arg > 0 BY <2>1, <1>1, <1>2, <1>3
    <3>2. ArgOf(l) BY <2>1, <1>1, <1>2, <1>3, <1>4 DEF ArgOf, Def
    <3> QED BY <3>1, <3>2, <1>1 DEF ArgOf
  <2>2. CASE l \in Variables BY <2>2, <1>1, <1>5, AccessesKept
  <2> QED BY <2>1, <2>2, <1>6
<1>9. StacksFilled'
  <2>1. syms[k].arg # 0 BY <1>1, <1>2, <1>3
  <2>2. \A l : l # k => (l \in DOMAIN addr' <=> l \in DOMAIN addr)
    BY <1>1, <1>3 DEF With
  <2> QED BY <2>1, <2>2, <1>1, StacksKept DEF AccessInv
<1> QED BY <1>7, <1>8, <1>9

LEMMA VisitVarDeclAccesses ==
  TInv /\ AccessInv /\ VisitVarDecl => SidesKnown' /\ StacksFilled' /\ AccessesOwn'
<1> SUFFICES ASSUME TInv, AccessInv, VisitVarDecl
             PROVE  SidesKnown' /\ StacksFilled' /\ AccessesOwn'
  OBVIOUS
<1>1. /\ stage = "body" /\ idx <= Len(Def.body) /\ Stmt.op = "decl" /\ Key \notin DOMAIN addr
      /\ addr' = With(addr, Key, -(LocalStack + Size(Key)))
      /\ local_stack' = With(local_stack, Def.fn, LocalStack + Size(Key))
      /\ accesses' = accesses \union {[def |-> cur, key |-> Key, addr |-> addr'[Key]]}
      /\ UNCHANGED <<defs, syms, cur>>
  BY DEF VisitVarDecl, Visits, WriteAccess, parser
<1>2. idx \in DOMAIN Def.body /\ cur \in DOMAIN defs /\ Def.fn \in Funcs
  <2>1. idx \in Nat \ {0} BY GeneratorState
  <2> QED BY <2>1, <1>1, VisitedDef
<1>3. PICK g \in Funcs : g = Def.fn BY <1>2
<1>a. PICK k : k = Key OBVIOUS
<1>4. k = <<g, Stmt.name>> /\ k \in DOMAIN syms /\ Len(k) = 2 /\ Scope(k) = <<g>>
  <2>1. k = <<g, Stmt.name>> /\ k \in DOMAIN syms
    BY <1>1, <1>2, <1>3, <1>a, VisitedDef DEF Key, Stmt
  <2> QED BY <2>1, Singletons
<1>5. syms[k].arg = 0
  BY <1>1, <1>2, <1>3, <1>a, <1>4 DEF AccessInv, DeclsLocal, Stmt, Def
<1>6. PICK n : n = LocalStack + Size(k) OBVIOUS
<1>7. Size(k) \in Nat \ {0} /\ LocalStack \in Nat /\ n \in Nat
  BY <1>1, <1>4, <1>6, SizeType, LocalStackType
<1>8. /\ k \notin DOMAIN addr /\ DOMAIN addr' = DOMAIN addr \union {k} /\ addr'[k] = -n
      /\ Variables' = Variables \union {k}
  BY <1>1, <1>3, <1>a, <1>4, <1>6 DEF Variables, With
<1>9. VariablesKept BY <1>1, <1>a DEF VariablesKept, With
<1>10. \A l : Size(l)' = Size(l) BY <1>1 DEF Size
<1>11. AccessesOwn'
  <2> SUFFICES ASSUME NEW a \in accesses' PROVE OwnVariable(a)' BY DEF AccessesOwn
  <2>1. CASE a \in accesses BY <2>1, <1>1, <1>9, AccessesKept
  <2>2. CASE a = [def |-> cur, key |-> Key, addr |-> addr'[Key]]
    <3>1. a.def = cur /\ a.key = k /\ a.addr = addr'[k] BY <2>2, <1>a
    <3> QED BY <3>1, <1>1, <1>2, <1>3, <1>a, <1>4, <1>8 DEF OwnVariable, Def
  <2> QED BY <2>1, <2>2, <1>1
<1>12. SidesKnown'
  <2> SUFFICES ASSUME NEW l \in Variables'
               PROVE  IF syms'[l].arg > 0 THEN ArgOf(l)' ELSE addr'[l] + Size(l)' <= 0
    BY DEF SidesKnown
  <2>1. CASE l = k
    <3>1. addr'[k] + Size(k)' <= 0 BY <1>6, <1>7, <1>8, <1>10
    <3>2. ~(syms'[k].arg > 0) BY <1>1, <1>5
    <3> QED BY <3>1, <3>2, <2>1
  <2>2. CASE l \in Variables BY <2>2, <1>1, <1>9, AccessesKept
  <2> QED BY <2>1, <2>2, <1>8
\* the function's sum has the new local, and the others' are what they were
<1>13. StacksFilled'
  <2> SUFFICES ASSUME NEW f \in Funcs
               PROVE  StackOf(f)' = SumOf([l \in PlacedLocals(f) |-> Size(l)])'
    BY DEF StacksFilled
  <2>1. PICK e : e = [l \in PlacedLocals(f) |-> Size(l)] OBVIOUS
  <2>2. PICK h : h = [l \in PlacedLocals(f)' |-> Size(l)'] OBVIOUS
  <2>3. SumOf([l \in PlacedLocals(f) |-> Size(l)])' = SumOf(h) BY <2>2
  <2>4. StackOf(f) = SumOf(e) BY <2>1 DEF AccessInv, StacksFilled
  <2>5. Locals(<<f>>)' = Locals(<<f>>) BY <1>1 DEF Locals
  <2>6. CASE f = g
    <3>1. k \in Locals(<<f>>)
      <4>1. Len(k) > 1 BY <1>4
      <4> QED BY <4>1, <2>6, <1>4, <1>5 DEF Locals
    <3>2. PlacedLocals(f)' = PlacedLocals(f) \union {k} /\ k \notin PlacedLocals(f)
      BY <3>1, <2>5, <1>8 DEF PlacedLocals
    <3>3. PICK S : S = PlacedLocals(f) OBVIOUS
    <3>4. IsFiniteSet(S) /\ e \in [S -> Nat] BY <3>3, <2>1, PlacedType DEF AccessInv
    <3>5. h = [l \in S \union {k} |-> Size(l)] BY <2>2, <3>2, <3>3, <1>10
    <3>6. e = [l \in S |-> Size(l)] BY <2>1, <3>3
    <3>7. h[k] = Size(k) /\ \A l \in S : h[l] = e[l] BY <3>5, <3>6
    <3>8. h \in [S \union {k} -> Nat]
      <4>1. \A l \in S \union {k} : h[l] \in Nat BY <3>4, <3>7, <1>7
      <4> QED BY <4>1, <3>5
    <3>9. SumOf(h) = SumOf(e) + Size(k) BY <3>2, <3>3, <3>4, <3>7, <3>8, SumAdd
    <3>10. StackOf(f) = LocalStack BY <2>6, <1>3 DEF StackOf, LocalStack
    <3>11. StackOf(f)' = n BY <2>6, <1>1, <1>3, <1>a, <1>6 DEF StackOf, With
    <3> QED BY <2>3, <2>4, <3>9, <3>10, <3>11, <1>6
  <2>7. CASE f # g
    <3>1. k \notin Locals(<<f>>) BY <2>7, <1>4, Singletons DEF Locals
    <3>2. PlacedLocals(f)' = PlacedLocals(f) BY <3>1, <2>5, <1>8 DEF PlacedLocals
    <3>3. h = e BY <2>1, <2>2, <3>2, <1>10
    <3>4. StackOf(f)' = StackOf(f) BY <2>7, <1>1, <1>3 DEF StackOf, With
    <3> QED BY <2>3, <2>4, <3>3, <3>4
  <2> QED BY <2>6, <2>7
<1> QED BY <1>11, <1>12, <1>13

\* what is read or assigned is a variable of the function that is visited
LEMMA VisitVarAccesses == TInv /\ VarsApart /\ AccessInv /\ VisitVar => AccessesOwn'
<1> SUFFICES ASSUME TInv, VarsApart, AccessInv, VisitVar PROVE AccessesOwn' OBVIOUS
<1>1. /\ stage = "body" /\ idx <= Len(Def.body) /\ Stmt.op = "use" /\ Key \in DOMAIN addr
      /\ accesses' = accesses \union {[def |-> cur, key |-> Key, addr |-> addr[Key]]}
      /\ UNCHANGED <<defs, syms, addr>>
  BY DEF VisitVar, Visits, WriteAccess, parser
<1>2. idx \in DOMAIN Def.body /\ cur \in DOMAIN defs /\ Def.fn \in Funcs
  <2>1. idx \in Nat \ {0} BY GeneratorState
  <2> QED BY <2>1, <1>1, VisitedDef
<1>3. PICK x \in Vars : x = Stmt.name BY <1>1, <1>2, DefType DEF TInv, Stmt, Def
<1>4. PICK k : k = Key OBVIOUS
<1>5. k \in Keys BY <1>1, <1>4 DEF TInv, TypeOK
<1>6. k = <<Def.fn, x>>
  <2>1. k = <<Def.fn, x>> \/ k = <<x>> BY <1>3, <1>4, Singletons DEF Key, Find, CurScope
  <2>2. ASSUME k = <<x>> PROVE FALSE
    <3>1. Len(k) = 1 BY <2>2, Singletons
    <3>2. PICK f \in Funcs : k = <<f>>
      <4>1. Len(k) # 2 BY <3>1
      <4> QED BY <4>1, <1>5, KeyShape, Zenon
    <3>3. f = x BY <2>2, <3>2, Singletons
    <3> QED BY <3>3 DEF VarsApart
  <2> QED BY <2>1, <2>2
<1>7. Len(k) = 2 /\ Scope(k) = <<Def.fn>> BY <1>6, Singletons
<1>8. k \in Variables /\ Variables' = Variables
  <2>1. Len(k) > 1 BY <1>7
  <2> QED BY <2>1, <1>1, <1>4 DEF Variables
<1>9. \A a \in accesses : OwnVariable(a)'
  BY <1>1, <1>8 DEF AccessInv, AccessesOwn, OwnVariable
<1>10. ASSUME NEW a, a = [def |-> cur, key |-> Key, addr |-> addr[Key]] PROVE OwnVariable(a)'
  <2>1. a.def = cur /\ a.key = k /\ a.addr = addr[k] BY <1>4, <1>10
  <2> QED BY <2>1, <1>1, <1>2, <1>7, <1>8 DEF OwnVariable, Def
<1> QED BY <1>1, <1>9, <1>10 DEF AccessesOwn

LEMMA GenerateAccesses == TInv /\ NamesApart /\ AccessInv /\ Generate => AccessInv'
<1> SUFFICES ASSUME TInv, NamesApart, AccessInv, Generate PROVE AccessInv' OBVIOUS
<1>1. IsFiniteSet(DOMAIN syms)' /\ DeclsLocal' BY DeclsKept DEF Next, NamesApart, AccessInv
<1>2. UNCHANGED <<defs, syms>> BY GenerateParser DEF parser
<1>3. phase' \notin {"parse", "start"}
  BY DEF Generate, Start, StartError, EnterFunc, PlaceArg, NextArg, PlaceArgError, AddressFunc,
         VisitVarDecl, VarDeclError, VisitVar, VarError, VisitCall, CallError, LeaveFunc,
         Finish, FinishError, WriteAccess, Throw, Visits
<1>4. NothingAccessed' BY <1>3 DEF NothingAccessed
<1>5. ASSUME UNCHANGED <<local_stack, accesses>>, VariablesKept, Variables' = Variables
      PROVE  SidesKnown' /\ StacksFilled' /\ AccessesOwn'
  <2>1. SidesKnown' /\ AccessesOwn' BY <1>2, <1>5, AccessesKept DEF SidesKnown, AccessesOwn
  <2>2. \A k : Len(k) > 1 => (k \in DOMAIN addr' <=> k \in DOMAIN addr)
    BY <1>5 DEF Variables
  <2> QED BY <2>1, <2>2, <1>2, <1>5, StacksKept DEF AccessInv
<1>6. CASE PlaceArg BY <1>6, PlaceArgAccesses, <1>1, <1>4 DEF AccessInv
<1>7. CASE AddressFunc
  <2>1. stage = "args" /\ addr' = With(addr, Find(CurScope, Def.fn), pos)
        /\ UNCHANGED <<local_stack, accesses>>
    BY <1>7 DEF AddressFunc
  <2>2. PICK k : k = <<Def.fn>> OBVIOUS
  <2>3. Find(CurScope, Def.fn) = k /\ Len(k) = 1
    <3>1. Def.fn \in Funcs BY <2>1, VisitedDef
    <3> QED BY <3>1, <2>2, GlobalName, Singletons DEF CurScope, NamesApart
  <2>4. VariablesKept BY <2>1, <2>3 DEF VariablesKept, With
  <2>5. Variables' = Variables
    <3>1. ~(Len(k) > 1) BY <2>3
    <3> QED BY <3>1, <2>1, <2>3 DEF Variables, With
  <2> QED BY <2>1, <2>4, <2>5, <1>1, <1>4, <1>5 DEF AccessInv
<1>8. CASE VisitVarDecl BY <1>8, VisitVarDeclAccesses, <1>1, <1>4 DEF AccessInv
<1>9. CASE VisitVar
  <2>1. UNCHANGED <<addr, local_stack>> BY <1>9 DEF VisitVar
  <2>2. AccessesOwn' BY <1>9, VisitVarAccesses DEF NamesApart
  <2>3. SidesKnown'
    <3>1. VariablesKept /\ Variables' = Variables BY <2>1 DEF VariablesKept, Variables
    <3> QED BY <3>1, <1>2, AccessesKept DEF SidesKnown
  <2>4. StacksFilled' BY <2>1, <1>2, StacksKept DEF AccessInv
  <2> QED BY <2>2, <2>3, <2>4, <1>1, <1>4 DEF AccessInv
<1>10. CASE Start \/ EnterFunc \/ VisitCall \/ LeaveFunc \/ Finish \/ Throw
  <2>1. UNCHANGED <<addr, local_stack, accesses>>
    BY <1>10 DEF Start, EnterFunc, VisitCall, LeaveFunc, Finish, Throw, written
  <2> QED BY <2>1, <1>1, <1>4, <1>5 DEF AccessInv, VariablesKept, Variables
<1> QED BY <1>6, <1>7, <1>8, <1>9, <1>10
        DEF Generate, StartError, PlaceArgError, VarDeclError, VarError, CallError, FinishError

LEMMA ParseAccesses == TInv /\ NamesApart /\ SlotInv /\ AccessInv /\ Parse => AccessInv'
<1> SUFFICES ASSUME TInv, NamesApart, SlotInv, AccessInv, Parse PROVE AccessInv' OBVIOUS
<1>1. /\ phase = "parse" /\ phase' \in {"parse", "start"}
      /\ UNCHANGED <<addr, local_stack, accesses>>
  BY ParseState DEF written
<1>2. DOMAIN addr = {} /\ DOMAIN addr' = {} /\ accesses' = {}
  BY <1>1 DEF SlotInv, Untouched, AccessInv, NothingAccessed
<1>3. IsFiniteSet(DOMAIN syms)' /\ DeclsLocal' BY DeclsKept DEF Next, NamesApart, AccessInv
<1>4. NothingAccessed' /\ SidesKnown' /\ AccessesOwn'
  BY <1>2 DEF NothingAccessed, SidesKnown, AccessesOwn, Variables
<1>5. StacksFilled'
  <2> SUFFICES ASSUME NEW f \in Funcs
               PROVE  StackOf(f)' = SumOf([k \in PlacedLocals(f) |-> Size(k)])'
    BY DEF StacksFilled
  <2>1. PlacedLocals(f) = {} /\ PlacedLocals(f)' = {} BY <1>2 DEF PlacedLocals
  <2>2. \A e : DOMAIN e = {} /\ e = [k \in {} |-> e[k]] => SumOf(e) = 0
    <3> SUFFICES ASSUME NEW e, DOMAIN e = {}, e = [k \in {} |-> e[k]] PROVE SumOf(e) = 0
      OBVIOUS
    <3>1. e \in [{} -> Nat] OBVIOUS
    <3> QED BY <3>1, SumType, FS_EmptySet
  <2>3. PICK e : e = [k \in PlacedLocals(f) |-> Size(k)] OBVIOUS
  <2>4. PICK h : h = [k \in PlacedLocals(f)' |-> Size(k)'] OBVIOUS
  <2>5. SumOf(e) = 0 /\ SumOf(h) = 0 BY <2>1, <2>2, <2>3, <2>4
  <2>6. StackOf(f) = 0 BY <2>3, <2>5 DEF AccessInv, StacksFilled
  <2>7. StackOf(f)' = StackOf(f) BY <1>1 DEF StackOf
  <2> QED BY <2>4, <2>5, <2>6, <2>7
<1> QED BY <1>3, <1>4, <1>5 DEF AccessInv

LEMMA InitAccesses == Init => TInv /\ SlotInv /\ AccessInv
<1> SUFFICES ASSUME Init PROVE SlotInv /\ AccessInv BY InitType
<1>1. /\ defs = <<>> /\ DOMAIN addr = {} /\ stage = "enter" /\ DOMAIN syms = {}
      /\ accesses = {} /\ DOMAIN local_stack = {}
  BY DEF Init
<1>2. Variables = {} /\ DOMAIN defs = {} BY <1>1 DEF Variables
<1>3. SlotInv
  BY <1>1, <1>2 DEF SlotInv, Once, Untouched, VisitBegun, TwoAreas, ArgsBelow, SlotsApart
<1>4. StacksFilled
  <2> SUFFICES ASSUME NEW f \in Funcs
               PROVE  StackOf(f) = SumOf([k \in PlacedLocals(f) |-> Size(k)])
    BY DEF StacksFilled
  <2>1. StackOf(f) = 0 /\ PlacedLocals(f) = {} BY <1>1 DEF StackOf, PlacedLocals
  <2>2. PICK e : e = [k \in PlacedLocals(f) |-> Size(k)] OBVIOUS
  <2>3. e \in [{} -> Nat] BY <2>1, <2>2
  <2>4. SumOf(e) = 0 BY <2>3, SumType, FS_EmptySet
  <2> QED BY <2>1, <2>2, <2>4
<1>5. IsFiniteSet(DOMAIN syms) BY <1>1, FS_EmptySet
<1> QED BY <1>1, <1>2, <1>3, <1>4, <1>5
        DEF AccessInv, DeclsLocal, NothingAccessed, SidesKnown, AccessesOwn

\* What the code of a function accesses are its own arguments, or its own
\* variables inside the frame that it removes, in every program whose variables
\* are named apart from its functions and whose functions are defined once.
THEOREM AccessesStay ==
  ASSUME NamesApart
  PROVE  Spec => []AccessesInFrame
<1> DEFINE I == TInv /\ SlotInv /\ AccessInv
<1>1. Init => I BY InitAccesses
<1>2. I /\ [Next]_vars => I'
  <2> SUFFICES ASSUME TInv, SlotInv, AccessInv, [Next]_vars PROVE I' OBVIOUS
  <2>1. TInv' /\ SlotInv' BY NextSlots, NamesApart
  <2>2. CASE Next BY <2>1, <2>2, ParseAccesses, GenerateAccesses, NamesApart DEF Next
  <2>3. CASE UNCHANGED vars
    <3>1. UNCHANGED <<phase, defs, syms, addr, local_stack, accesses>>
      BY <2>3 DEF vars, parser, written
    <3>2. VariablesKept /\ Variables' = Variables BY <3>1 DEF VariablesKept, Variables
    <3>3. SidesKnown' /\ AccessesOwn' BY <3>1, <3>2, AccessesKept DEF SidesKnown, AccessesOwn
    <3>4. StacksFilled' BY <3>1, StacksKept DEF AccessInv
    <3>5. DeclsLocal' /\ NothingAccessed' BY <3>1 DEF AccessInv, DeclsLocal, NothingAccessed
    <3> QED BY <2>1, <3>1, <3>3, <3>4, <3>5 DEF AccessInv
  <2> QED BY <2>2, <2>3
<1>3. I => AccessesInFrame
  <2> SUFFICES ASSUME TInv, SlotInv, AccessInv, NEW a \in accesses
               PROVE  /\ Len(a.key) > 1 /\ Scope(a.key) = <<defs[a.def].fn>>
                      /\ a.addr = addr[a.key]
                      /\ IF syms[a.key].arg > 0 THEN syms[a.key].arg <= Len(defs[a.def].args)
                         ELSE /\ a.addr + Size(a.key) <= 0
                              /\ -a.addr <= FrameSize(<<defs[a.def].fn>>)
    BY DEF AccessesInFrame
  <2>0. OwnVariable(a) BY DEF AccessInv, AccessesOwn
  <2>1. PICK d \in DOMAIN defs, k \in Variables : k = a.key /\ d = a.def BY <2>0 DEF OwnVariable
  <2>2. k \in Variables /\ Scope(k) = <<defs[d].fn>> /\ a.addr = addr[k]
    BY <2>0, <2>1 DEF OwnVariable
  <2>3. k \in DOMAIN addr /\ k \in DOMAIN syms /\ Len(k) > 1
        /\ addr[k] \in Int /\ Size(k) \in Nat \ {0}
    BY <2>2, VariableType DEF Variables
  <2>4. CASE syms[k].arg > 0
    <3>1. ArgOf(k) BY <2>2, <2>4 DEF AccessInv, SidesKnown
    <3>2. PICK c \in DOMAIN defs : Scope(k) = <<defs[c].fn>> /\ syms[k].arg <= Len(defs[c].args)
      BY <3>1 DEF ArgOf
    <3>3. c = d BY <3>2, <2>2, Singletons DEF SlotInv, Once
    <3> QED BY <3>2, <3>3, <2>1, <2>2, <2>3, <2>4
  <2>5. CASE ~(syms[k].arg > 0)
    <3>1. addr[k] + Size(k) <= 0 BY <2>2, <2>5 DEF AccessInv, SidesKnown
    <3>2. ~Above(k)
      <4>1. AddrSize \in Nat BY LayoutAssumption
      <4> QED BY <4>1, <3>1, <2>3 DEF Above
    <3>3. PICK f \in DOMAIN local_stack : Scope(k) = <<f>> /\ -local_stack[f] <= addr[k]
      BY <3>2, <2>2 DEF SlotInv, TwoAreas, Below
    <3>4. f = defs[d].fn /\ f \in Funcs /\ local_stack[f] \in Nat
      <4>1. f \in Funcs /\ local_stack[f] \in Nat BY GeneratorState
      <4> QED BY <4>1, <3>3, <2>2, Singletons
    <3>5. local_stack[f] = SumOf([l \in PlacedLocals(f) |-> Size(l)])
      BY <3>3, <3>4 DEF AccessInv, StacksFilled, StackOf
    <3>6. SumOf([l \in PlacedLocals(f) |-> Size(l)]) <= FrameSize(<<f>>)
      <4>1. /\ IsFiniteSet(Locals(<<f>>)) /\ PlacedLocals(f) \in SUBSET Locals(<<f>>)
            /\ [l \in Locals(<<f>>) |-> Size(l)] \in [Locals(<<f>>) -> Nat]
            /\ [l \in PlacedLocals(f) |-> Size(l)] \in [PlacedLocals(f) -> Nat]
        BY PlacedType DEF AccessInv
      <4>2. PICK S, T, e, h : /\ S = Locals(<<f>>) /\ T = PlacedLocals(f)
                              /\ h = [l \in Locals(<<f>>) |-> Size(l)]
                              /\ e = [l \in PlacedLocals(f) |-> Size(l)]
        OBVIOUS
      <4>3. IsFiniteSet(S) /\ T \in SUBSET S /\ h \in [S -> Nat] /\ e \in [T -> Nat]
        BY <4>1, <4>2
      <4>4. \A l \in T : e[l] = h[l] BY <4>2, <4>3
      <4>5. SumOf(e) <= SumOf(h) BY <4>3, <4>4, SumMonotone
      <4> QED BY <4>2, <4>5 DEF FrameSize
    <3>7. FrameSize(<<f>>) \in Nat
      <4>1. /\ IsFiniteSet(Locals(<<f>>))
            /\ [l \in Locals(<<f>>) |-> Size(l)] \in [Locals(<<f>>) -> Nat]
        BY PlacedType DEF AccessInv
      <4>2. PICK S, h : S = Locals(<<f>>) /\ h = [l \in Locals(<<f>>) |-> Size(l)] OBVIOUS
      <4>3. SumOf(h) \in Nat BY <4>1, <4>2, SumType
      <4> QED BY <4>2, <4>3 DEF FrameSize
    <3>8. syms[k].arg \in Nat /\ -addr[k] <= FrameSize(<<f>>)
      <4>1. syms[k].arg \in Nat
        BY <2>3, LayoutAssumption DEF TInv, TypeOK, Symbols
      <4>2. local_stack[f] <= FrameSize(<<f>>) BY <3>5, <3>6
      <4> QED BY <4>1, <4>2, <3>3, <3>4, <3>7, <2>3
    <3> QED BY <3>1, <3>4, <3>8, <2>1, <2>2, <2>3, <2>5
  <2> QED BY <2>4, <2>5, <2>1, <2>2, <2>3
<1> HIDE DEF I
<1> QED BY <1>1, <1>2, <1>3, PTL DEF Spec

================================================================================
