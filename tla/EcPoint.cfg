SPECIFICATION Spec
CONSTANTS
  None = None
  Xs <- SmallXs
  YOf <- SmallYOf
  Firsts = {4, 33, 65, 128, 158, 159, 255}
  Lasts = {0, 2, 3}
  Lengths = {0, 31, 32, 33}
INVARIANTS
  WrappedRoundTrips
  MisreadOnlyIfAligned
  SpkiIsOwn
  ProbeAgrees
