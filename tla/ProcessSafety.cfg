CONSTANTS
  MaxProcesses = 4
  Pages = {g1, g2, g3, g4}
  NoPage = NoPage
  Signals = {"TERM", "KILL"}
  WindowCalls = FALSE
SPECIFICATION Spec
SYMMETRY PageSymmetry
INVARIANTS
  CurrentRunning
  WaiterHasChild
  ParentAlive
  AddressSpace
PROPERTIES
  ZombieKept
