SPECIFICATION Spec
CONSTANTS
  Proc = {p1}
  p1 = p1
  NoProc = NoProc
  Faults = {"crash", "delay", "timeout", "rpc", "save", "unsynced"}
  CooldownTurns = 1
  MaxTurns = 4
  MaxItems = 1
  MaxTransitions = 2
  MaxCalls = 1
  MaxBoots = 3
INVARIANTS
  AtMostOnce
  Fenced
  RestartCancelsHarmlessly
  CooldownEarned
PROPERTIES
  KeepsPromise
CHECK_DEADLOCK FALSE
