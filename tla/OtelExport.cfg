\* Two rows, in one session or in two, over pages of one row and posts of one
\* span, two failures and one restart.
SPECIFICATION Spec
CONSTANTS
  Sessions = {s1, s2}
  MaxRows = 2
  PageRows = 1
  BatchSpans = 1
  SameInstant = FALSE
  MaxFailures = 2
  MaxCrashes = 1
INVARIANT CursorTrue
PROPERTIES AllExported
