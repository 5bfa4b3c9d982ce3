SPECIFICATION Spec
CONSTANTS
  start = start
  f = f
  c = c
  d = d
  Funcs <- OneFunc
  Main = start
  NumArgs <- MCNumArgs
  Consts <- NoConsts
  ConstSize <- MCConstSize
  AddrSize = 1
  IntSize = 1
  ExprSizes = {6}
  Depths <- AnyDepth
  ArgCounts = {}
  MaxCode = 44
  MaxVisits = 4
INVARIANTS LoopsLinked
\* the compiler ends
CHECK_DEADLOCK FALSE
