SPECIFICATION Spec
CONSTANTS
  None = None
  NoLabel = NoLabel
  Labels = {"a", "b"}
  Slots = {0, 1}
  Probes = {p1, p2}
  MaxUnplug = 1
CHECK_DEADLOCK FALSE
INVARIANTS
  ObjectsNeedSession
PROPERTIES
  NothingPersisted
  EveryRunEnds
