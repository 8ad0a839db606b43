SPECIFICATION Spec
CONSTANTS
  config = config
  marker = marker
  etc = etc
  var = var
  snapshots = snapshots
  None = None
  Target <- MCTarget
  Config <- MCConfig
  MonitorFile <- MCMonitorFile
  Marker = marker
  Dir <- MCDir
  Parent <- MCParent
  Path <- MCPath
  SnapshotRoot = snapshots
  MaxAge = 0
  MaxTime = 1
  MaxTx = 3
  MaxFaults = 2
INVARIANTS TypeOK IInv ImageBeforeWrites UnfinishedHasImage NoMixedRestart
PROPERTIES ExitCodeTellsOutcome AnImageIsLeft RestoreIsAtomic
