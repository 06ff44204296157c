SPECIFICATION Spec
CONSTANTS
  Fat <- ThreeClusters
  Files <- OneFile
  EntriesPer = 2
  SecSize = 2
  Spc = 2
  CacheSlots = 2
  MaxRead = 5
  MaxOff = 12
  Crossing <- MayCross
INVARIANT ReadsFile
