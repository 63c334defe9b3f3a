SPECIFICATION ConnectionsSpec
CONSTANTS
  Launcher = {l1, l2, l3}
  l1 = l1
  l2 = l2
  l3 = l3
  NoLauncher = NoLauncher
  LauncherFaults = {"crash", "serverDies", "stale", "save", "refused"}
  MaxServers = 4
  SOCKET_WAIT_ATTEMPTS = 2
  Run = {d1, d2}
  ProbeRuns = {d1}
  Build = {1, 2}
  Acknowledgements = {"hidden"}
  MaxUpgrades = 1
  MaxProbeItems = 1
  DoctorFaults = {"lag", "request"}
INVARIANTS
  RecordTruthful
  SessionsRecorded
  AdmittedIsEarned
PROPERTIES
  NeverKilledInUse
  LaunchSettles
  GatesKept
CHECK_DEADLOCK FALSE
