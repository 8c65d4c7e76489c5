\* The poll, one other request and a usage report; archived sessions left out.
SPECIFICATION Spec
CONSTANTS
  Others = {o1}
  Reports = {u1}
  Sessions = {s1}
  Archived = FALSE
  MaxVersion = 1
  MaxMoves = 1
  MaxOutages = 1
INVARIANT WithinTTL
PROPERTY ClientCatchesUp
