SPECIFICATION Spec
CONSTANTS
  Proc = {p1}
  p1 = p1
  NoProc = NoProc
  Faults = {"disconnect", "lag", "serverRequest", "duplicate"}
  CooldownTurns = 1
  MaxTurns = 3
  MaxItems = 1
  MaxTransitions = 1
  MaxCalls = 1
  MaxBoots = 1
INVARIANTS
  NoTurnSwallowed
CHECK_DEADLOCK FALSE
