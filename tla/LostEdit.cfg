CONSTANTS
  None = None
  Watcher = Watcher
  Sets = {s1}
  Clients = {p1}
  Handlers = {}
  MaxMoves = 2
  MaxFails = 0
SPECIFICATION Spec
INVARIANT EveryEditIsBuilt
CHECK_DEADLOCK FALSE
