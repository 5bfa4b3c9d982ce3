SPECIFICATION Spec
CONSTANTS
  x = x
  Vars = {x}
  ArgLists <- MaybeArg
  RetTypes = {"void", "scalar", "heap"}
  Exprs = {"const", "array", "comp", "string"}
  Depths <- AnyDepth
  MaxStmts = 5
  MaxVisits = 5
  MaxStack = 6
  Blocks = {1, 2}
INVARIANTS TypeOK BranchesLinked ScopesLive LoopsRelease HeapBalanced
\* the function returns
CHECK_DEADLOCK FALSE
