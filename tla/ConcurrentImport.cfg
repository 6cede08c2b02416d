SPECIFICATION FairSpec
CONSTANTS
  None = None
  Handles = {1, 2, 3, 4}
  Cap = 1
  Threads = {t1, t2}
  Seeds = {"s1", "s2"}
  Names = {"vault", "other"}
  EmptySeed = "empty"
  Provisionings <- TwoSeedsBareLabel
  Paths <- NoPath
  MaxDepth = 1
  MaxCopies = 1
  MaxWire = 1
  Envs <- AllEnvs
  InOrder = TRUE
  Reissue = FALSE

  
PROPERTIES
  
  EveryCallReturns
