SPECIFICATION Spec
CONSTANTS
  Funcs = {start, g}
  Main = start
  Vars = {x, y}
  Types <- MCTypes
  TypeSize <- MCTypeSize
  AddrSize = 9
  Redefine = FALSE
  MaxDefs = 2
  MaxArgs = 2
  MaxItems = 3
  TypeLists <- MCTypeLists
SYMMETRY Symmetric
CHECK_DEADLOCK FALSE
INVARIANTS
  TypeOK
  SlotsDisjoint
  AccessesInFrame
  CallFramesAgree
  CallArgsAgree
  ArgsArrive
