SPECIFICATION Spec
CONSTANTS
  Proc = {p1}
  p1 = p1
  NoProc = NoProc
  Faults = {"native", "failure", "work"}
  CooldownTurns = 1
  MaxTurns = 3
  MaxItems = 2
  MaxTransitions = 1
  MaxCalls = 2
  MaxBoots = 1
INVARIANTS
  SourceQuiescent
  CapsuleBinding
CHECK_DEADLOCK FALSE
