\* One file created, replaced and deleted under two overlapping callers, with
\* a worker slot to spare.
SPECIFICATION Spec
CONSTANTS
  Paths = {p1}
  Resumable = {p1}
  Rounds = {r1, r2}
  Workers = {w1, w2}
  Limit = 1
  MaxMod = 2
  Sizes = {0}
  Messages <- MCMessages
  Rewrites = TRUE
SYMMETRY MCSymmetry
INVARIANTS
  QueueOK
  ListAnswersCurrent
