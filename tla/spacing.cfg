SPECIFICATION Spec
CONSTANTS
  Proc = {p1}
  p1 = p1
  NoProc = NoProc
  Faults = {"crash", "native"}
  CooldownTurns = 1
  MaxTurns = 5
  MaxItems = 1
  MaxTransitions = 2
  MaxCalls = 1
  MaxBoots = 2
INVARIANTS
  CompactionsSpaced
PROPERTIES
  JournalHistory
CHECK_DEADLOCK FALSE
