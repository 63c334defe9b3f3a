SPECIFICATION Spec
CONSTANTS
  Version = {1}
  TreeFiles = 2
  MaxRuns = 2
  MaxEdits = 0
  InstallFaults = {"torn"}
CHECK_DEADLOCK FALSE
INVARIANT
  RefusalMeansModified
