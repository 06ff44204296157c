CONSTANTS
  Frames = {f1, f2, f3, f4, f5, f6, f7, f8, f9}
  NoFrame = NoFrame
  Kernel = K
  Spaces = {K, a, b}
  NumTables = 2
  PagesPerTable = 1
  Values = {0}
  Zero = 0
SPECIFICATION Spec
INVARIANT
  WritableIsPrivate
