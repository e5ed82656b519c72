SPECIFICATION Spec
CONSTANTS
  Handles = {h1, h2}
  Threads = {t1, t2}
  Gpus <- MCGpus
  Setups <- MCSetups
  Applications <- MCApplications
  Exe <- MCExe
  Asks <- MCAsks
  MaxInstances = 2
INVARIANTS TypeOK  DriverAskedRight QueriesAgree
PROPERTY OwnContext
SYMMETRY Symmetry
CHECK_DEADLOCK FALSE
