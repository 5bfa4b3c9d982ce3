SPECIFICATION Spec
CONSTANTS
  Funcs = {start, g}
  Main = start
  Vars = {x, g}
  Types <- MCTypes
  TypeSize <- MCTypeSize
  AddrSize = 9
  Redefine = FALSE
  MaxDefs = 2
  MaxArgs = 2
  MaxItems = 3
  TypeLists <- MCTypeLists
CHECK_DEADLOCK FALSE
INVARIANTS
  CallFramesAgree
