SPECIFICATION FairSpec
CONSTANTS
  None = None
  Threads = {t1, t2}
  Labels = {"vault", "other"}
  Seeds = {"s1", "s2"}
  Provisionings <- TwoSeedsTwoLabels
  KeyNames <- MasterAndAccount
  Sighashes = {"h1", "h2"}
  Refreshing = TRUE
  MaxTokens = 2
  MaxWire = 1
INVARIANTS
  TypeOK
  AnswersOwnKey
  DuplicateIsForeign
PROPERTIES
  RefreshIsTransparent
  EveryCallReturns
  ImplementsImportOnce
