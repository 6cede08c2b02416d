SPECIFICATION Spec
CONSTANTS
  None = None
  Handles = {1, 2, 3, 4, 5, 6}
  Cap = 2
  Threads = {t1, t2}
  Seeds = {"s1"}
  Names = {"vault", "other"}
  EmptySeed = "empty"
  Provisionings <- OneSeed
  Paths <- AccountPath
  MaxDepth = 2
  MaxCopies = 2
  MaxWire = 0
  Envs <- Neither
  InOrder = TRUE
  Reissue = TRUE
INVARIANTS
  PubMapOK
  PairsMatch
  AccountResolves
  XpubIsOwn
SYMMETRY SymThreads
