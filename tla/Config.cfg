SPECIFICATION Spec
CONSTANTS
  None = None
  Prefixes <- WholeOrHalf
  MaxOdd = 2
  MaxEdits = 1
INVARIANTS
  FieldsAreLayered
  TaprootAfterConfig
  ErrorNamesCause
