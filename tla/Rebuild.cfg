CONSTANTS
  None = None
  Watcher = Watcher
  Sets = {s1, s2}
  Clients = {p1, p2}
  Handlers <- AllCommands
  MaxMoves = 2
  MaxFails = 1
SPECIFICATION Spec
INVARIANTS  CacheIsCurrent  LastReportsAnnounced
SYMMETRY ClientSymmetry
CHECK_DEADLOCK FALSE
