\* A third caller of either cache would add nothing to two: one banks, one hits.
\* The database's second file is a WAL, whose commits show after their last write.
SPECIFICATION StorageSpec
SYMMETRY Symmetry
CONSTANTS
  Paths = {1, 2, 3}
  MaxWrites = 4
  MaxTurns = 2
  MaxPacks = 4
  MaxTable = 4
  MaxKeys = 3
  MaxHot = 1
  Pauses = 1
  FetchChunk = 1
  Readers = {r1, r2}
  MaxSize = 3
  MaxFinals = 2
  Callers = {c1, c2}
  Parts = 2
  MaxVersion = 2
  MaxMod = 1
  LateFiles = {2}
INVARIANTS
  SessionsReachable
  CopiesExact
  TurnsCountedOnce
  HermesPageExact
PROPERTIES
  RolloutListedOnce
  FinalsServeCurrent
  ServesCurrent
CHECK_DEADLOCK FALSE
