SPECIFICATION Spec
CONSTANTS
  config = config
  marker = marker
  etc = etc
  var = var
  snapshots = snapshots
  None = None
  Target <- MCTarget
  Config <- MCConfig
  MonitorFile <- MCMonitorFile
  Marker = marker
  Dir <- MCDir
  Parent <- MCParent
  Path <- MCPath
  SnapshotRoot = snapshots
  MaxAge = 0
  MaxTime = 1
  MaxTx = 1
  MaxFaults = 1
PROPERTY FailedRollbackMeansChanged
