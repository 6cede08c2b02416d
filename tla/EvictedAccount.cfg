SPECIFICATION Spec
CONSTANTS
  None = None
  Handles = {1, 2, 3, 4, 5, 6}
  Cap = 1
  Threads = {t1, t2}
  Seeds = {"s1", "s2"}
  Names = {"vault", "other"}
  EmptySeed = "empty"
  Provisionings <- OneSeed
  Paths <- TwoPaths
  MaxDepth = 1
  MaxCopies = 1
  MaxWire = 0
  Envs <- Neither
  InOrder = TRUE
  Reissue = FALSE
INVARIANT AccountNotMixed
