CONSTANTS
  MaxProcesses = 3
  Pages = {g1, g2, g3}
  NoPage = NoPage
  Signals = {"TERM"}
  WindowCalls = TRUE
SPECIFICATION Spec
SYMMETRY PageSymmetry
INVARIANTS
  WaiterHasChild
