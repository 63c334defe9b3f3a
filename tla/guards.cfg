SPECIFICATION GuardsSpec
CONSTANTS
  Thread = {1, 2, 3, 4}
  Root = 2
  NoThread = 0
  MaxDepth = 2
  MaxPages = 3
  MaxLoaded = 3
  MaxChanges = 1
  WalkFaults = {"read", "cursor"}
  Path = {"a", "b", "c"}
  ItemId = {"i", "j"}
  MAX_CHANGED_FILES = 2
  MAX_VERIFICATION_ITEMS = 1
  MAX_OBJECTIVE_SCALARS = 2
  MAX_CHECKPOINT_BYTES = 40
  HASH_BYTES = 4
  FILE_BYTES = 3
  CHECK_BYTES = 5
  KEY_BYTES = 3
  ModelBytes = {7, 20, 21, 29, 34, 35}
  MaxItems = 4
  MaxText = 3
  MaxPaths = 2
INVARIANTS
  IdleMeansNoneWorked
  ActiveMeansOneWorked
  AmbiguousMeansLong
  EvidenceIsLatest
  PrunedLeast
  TooLargeMeansModel
PROPERTIES
  WalkEnds
CHECK_DEADLOCK FALSE
