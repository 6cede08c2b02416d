SPECIFICATION VaultSpec
CONSTANTS
  None = None
  Handles = {1, 2, 3, 4, 5, 6}
  Cap = 1
  Threads = {t1}
  Seeds = {"s1", "s2"}
  Names = {"vault", "other"}
  EmptySeed = "empty"
  Provisionings <- OneSeedPerLabel
  Paths <- AccountPath
  MaxDepth = 1
  MaxCopies = 2
  MaxWire = 1
  Envs <- AllEnvs
  InOrder = TRUE
  Reissue = FALSE
  VaultNames = {"vault", "other"}
  LeafPaths <- Leaves
INVARIANTS
  TypeOK
  PairsMatch
  MasterIsFromSeed
  XpubIsOwn
  MasterReloads
  SchnorrVerifies
  ProvisionedSigns
PROPERTIES
  TsbMasterDerivable
