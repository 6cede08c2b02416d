SPECIFICATION Spec
CONSTANTS
  None = None
  Handles = {1, 2, 3, 4, 5, 6}
  Cap = 2
  Threads = {t1}
  Seeds = {"s1", "s2"}
  Names = {"vault", "other"}
  EmptySeed = "empty"
  Provisionings <- TwoSeedsOneLabel
  Paths <- NoPath
  MaxDepth = 1
  MaxCopies = 2
  MaxWire = 0
  Envs <- Both
  InOrder = TRUE
  Reissue = FALSE
INVARIANT DuplicateHasSeed
