SPECIFICATION Spec
SYMMETRY Symmetry
CONSTANTS
  Tools <- MCTools
  toolKindOf <- MCToolKindOf
  toolKind <- MCToolKind
  Calls <- MCCalls
  Files = {f1, f2}
  f1 = f1
  f2 = f2
  MaxRows = 4
  c1 = c1
  c2 = c2
  a1 = a1
  p1 = p1
  NoProject = NoProject
  Order <- MCOrder
  Subagents = {a1}
  Reporting = {c2}
  ProjectOf <- MCProjectOf
  Enough = 2
  Limits = {1, 2}
  MaxClock = 3
  Callers = {k1, k2}
  k1 = k1
  k2 = k2
  Fixed = {"fixed"}
  Relative = {"7d"}
  Ttl = 2
  Slow = 1
  MaxSteps = 4
  MaxChanges = 1
  MaxAsks = 3
  Ids <- MCIds
  SourceModes <- MCSourceModes
  CLIOf <- MCCLIOf
  MaxRecords = 4
  MaxMessages = 5
  Listed = {"s1", "s2", "s3"}
  MaxListMoves = 2
  PageLimits = {1, 2}
  MaxOffset = 3
INVARIANTS
  SelectionsNameRounds
  RoundsReadAlike
  ReportsAgree
  ServableIsRecent
  LookupExact
  WalksReachAll
PROPERTIES
  ClosedRoundsStay
CHECK_DEADLOCK FALSE
