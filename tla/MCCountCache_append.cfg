\* One growing file, one caller: exact counts, and their convergence.
SPECIFICATION FairSpec
CONSTANTS
  Paths = {p1}
  Resumable = {p1}
  Rounds = {r1}
  Workers = {w1}
  Limit = 1
  MaxMod = 3
  Sizes = {0, 1, 2, 3, 5, 6}
  Messages <- MCMessages
  Rewrites = FALSE
INVARIANT BankedExact
PROPERTIES CountNeverShrinks CountsConverge
