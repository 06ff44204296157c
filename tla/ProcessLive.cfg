CONSTANTS
  MaxProcesses = 3
  Pages = {g1, g2, g3}
  NoPage = NoPage
  Signals = {"CHLD"}
  WindowCalls = TRUE
SPECIFICATION FairSpec
INVARIANTS
  ReadyQueue
  StackOwned
  NoStackLeak
PROPERTIES
  NoStarvation
  WaitReturns
