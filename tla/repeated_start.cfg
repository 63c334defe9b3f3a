SPECIFICATION Spec
CONSTANTS
  Proc = {p1}
  p1 = p1
  NoProc = NoProc
  Faults = {"duplicate"}
  CooldownTurns = 1
  MaxTurns = 4
  MaxItems = 1
  MaxTransitions = 1
  MaxCalls = 1
  MaxBoots = 1
INVARIANTS
  CompactionIsNotContinuation
CHECK_DEADLOCK FALSE
