SPECIFICATION FairSpec
CONSTANTS
  Threads = {t1, t2, t3}
  Backends = {b1, b2}
  None = None
  MaxMappings = 2
INVARIANTS
  TypeOK
  PointersValid
  NoHandleLeaks
PROPERTIES
  EveryLoadReturns
  ImplementsInitOnce
