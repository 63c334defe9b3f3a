SPECIFICATION FairSpec
CONSTANTS
  Proc = {p1,p2}
  p1 = p1
  p2 = p2
  NoProc = NoProc
  Faults = {"crash", "timeout"}
  CooldownTurns = 1
  MaxTurns = 3
  MaxItems = 1
  MaxTransitions = 1
  MaxCalls = 1
  MaxBoots = 2
INVARIANTS
  LeaseExclusive
PROPERTIES
  Settles
CHECK_DEADLOCK FALSE
