CONSTANTS
  Objects <- SceneObjects
  NoObject = NoObject
  GenBound = 4
  MaxSlots = 3
  MaxRemovals = 2
  Cameras = {0, 3}
  Limits = {0, 4}
  ForcedShaders <- SceneForced
  MinInstances = 1
  MaxCommands = 2
  Buckets = 2
  Unbound = Unbound
  FrontToBack = TRUE
SPECIFICATION SceneSpec
INVARIANTS FreeListExact DeadStayDead DrawnOnce DrawnWithOwnState SceneDrawOrder
PROPERTY ImplementsTable
