\* A violation: the parent is archived, and not compressed, while its fork's final
\* result is read.
SPECIFICATION CodexSpec
CONSTANTS
  MaxTurns = 2
  MaxPacks = 0
INVARIANT MissingNotKept
CHECK_DEADLOCK FALSE
