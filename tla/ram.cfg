\* The controller built with its cache or, as the boards do, without it
CONSTANTS
  Word = {w0, w1}
  Zero = w0
  Tag = {t0, t1}
  ZeroTag = t0
  High = 1
  Z = Z
  X = X
SPECIFICATION Spec
INVARIANTS
  TypeOK
  NoContention
  SampledIsDriven
  CacheCoherent
  ReadReturnsChipWord
  IInv
PROPERTIES
  StoresOnlyAnswered
  ReadyAgain
  ImplementsAtomicMemory
CHECK_DEADLOCK TRUE
