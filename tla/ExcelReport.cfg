SPECIFICATION Spec
CONSTANTS
  g1 = g1
  g2 = g2
  Links = {g1, g2}
  Takers = {k1, k2}
  TTL = 1
  Horizon = 2
  MaxInstances = 2
  None = None
  Worlds <- MCWorlds
  SheetRows = 11
  DefaultMaxRows = 6
CONSTRAINT Small
CHECK_DEADLOCK FALSE
INVARIANTS
  TypeOK
  ServedOnce
  FramesIntact
  NoMixedSheet
  ValidationSound
  FramesRectangular
  RowDictsUnion
  KeysOnlyAdd
  OnlyNestedValuesPanic
PROPERTIES
  TakesAreExact
