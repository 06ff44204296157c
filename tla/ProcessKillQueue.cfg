CONSTANTS
  MaxProcesses = 4
  Pages = {g1, g2, g3, g4}
  NoPage = NoPage
  Signals = {"KILL"}
  WindowCalls = FALSE
SPECIFICATION Spec
SYMMETRY PageSymmetry
INVARIANTS
  ReadyInQueue
