CONSTANTS
  Holders = {w1, w2}
  Nil = Nil
SPECIFICATION MemorySpec
INVARIANTS MemoryInv CopyEqualsOriginal TemplateIsTheUsers OnlyAnnotationsShared
CHECK_DEADLOCK FALSE
