SPECIFICATION Spec
CONSTANTS
  start = start
  f = f
  c = c
  d = d
  Funcs <- TwoFuncs
  Main = start
  NumArgs <- MCNumArgs
  Consts <- TwoConsts
  ConstSize <- MCConstSize
  AddrSize = 2
  IntSize = 2
  ExprSizes = {6}
  Depths = {0}
  ArgCounts = {0, 1}
  MaxCode = 30
  MaxVisits = 3
INVARIANTS TypeOK StructureLinked CallsLinked ConstsLinked
\* the compiler ends
CHECK_DEADLOCK FALSE
