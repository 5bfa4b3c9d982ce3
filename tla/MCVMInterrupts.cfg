SPECIFICATION FairSpec
CONSTANTS
  NumIrqs = 3
  MaxDepth = 2
  HostIrqs <- MCHostIrqs
INVARIANTS TypeOK TimerOwned RequestKept OneLateTick
PROPERTIES StopReturns AllServed
\* the program ends
CHECK_DEADLOCK FALSE
