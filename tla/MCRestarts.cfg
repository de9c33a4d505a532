\* A block that is restarted after an insertion starts without facts.
SPECIFICATION ASpec
CONSTANTS
  f1 = f1
  f2 = f2
  Programs <- MCPrograms
  Bodies <- MCBodies
  RestartLimit = 1
CHECK_DEADLOCK FALSE
INVARIANT RestartsJoined
