CONSTANTS
  MaxProcesses = 2
  Pages = {g1, g2}
  NoPage = NoPage
  Signals = {}
  WindowCalls = FALSE
SPECIFICATION FairSpec
PROPERTIES
  ExitedStackFreed
