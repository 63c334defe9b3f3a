SPECIFICATION Spec
CONSTANTS
  Proc = {p1,p2}
  p1 = p1
  p2 = p2
  NoProc = NoProc
  Faults = {"crash"}
  CooldownTurns = 1
  MaxTurns = 4
  MaxItems = 1
  MaxTransitions = 1
  MaxCalls = 1
  MaxBoots = 2
INVARIANTS
  AtMostOneInjection
SYMMETRY Symmetry
CHECK_DEADLOCK FALSE
