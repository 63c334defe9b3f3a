SPECIFICATION Spec
CONSTANTS
  Version = {1, 2}
  TreeFiles = 2
  MaxRuns = 4
  MaxEdits = 1
  InstallFaults = {"crash", "cli", "other"}
INVARIANTS
  InstallerTypeOK
  AllOrNothing
  InstallComplete
  UninstallComplete
  RefusalMeansModified
  BackupOriginal
PROPERTIES
  UserContentKept
CHECK_DEADLOCK FALSE
