\* Connections: one permit, one queue slot and four connections: straight admission,
\* the queue, a full queue and a second Close all meet, with failing accepts and a
\* shutdown at any moment.  Background: the child listens or gives up one interval
\* after its start, and is given two.  Labels: two askers of a source of each
\* kind, one write, and two hand-outs of the same rows.
SPECIFICATION ServerSpec
CONSTANTS
  Conns = {k1, k2, k3, k4}
  MaxConnections = 1
  QueueSlots = 1
  MayFail = TRUE
  MayStop = TRUE
  ProbeTimeout = 3
  SettleDelay = 2
  MaxBind = 1
  MaxNow = 6
  Modes <- MCModes
  Labels <- MCLabels
  Databases = {"db1", "db2"}
  MaxMoves = 3
  Askers = {l1, l2}
  Rows = 2
  Sharing = {TRUE, FALSE}
  MaxWrites = 1
  MaxLists = 4
  MaxHands = 2
INVARIANTS CapKept DaemonVerdict SourcesFollow LabelsPerHandOut
PROPERTIES EveryConnectionEnds
\* every connection has ended, or the process has exited; the clock stops
CHECK_DEADLOCK FALSE
