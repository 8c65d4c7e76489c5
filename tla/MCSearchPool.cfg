\* Two workers; every distribution of hits over three sessions, one of them with
\* a subagent, with and without a page.
SPECIFICATION Spec
CONSTANTS
  Jobs = 4
  UnitOf <- OneAgent
  Workers = {w1, w2}
  Limits = {0, 1, 2}
  PerSession = 1
  MaxHits = 2
INVARIANTS AnswerExact OnlyLastIsShort
PROPERTY SearchEnds
