CONSTANTS
  Frames = {f1, f2, f3, f4, f5, f6, f7}
  NoFrame = NoFrame
  Kernel = K
  Spaces = {K, a, b}
  NumTables = 1
  PagesPerTable = 1
  Values = {0, 1}
  Zero = 0
SPECIFICATION Spec
SYMMETRY PagingSymmetry
INVARIANTS
  ReferencesCounted
  SharedReadOnly
PROPERTIES
  PrivateMemory
