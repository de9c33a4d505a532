\* The scope of a function whose first block is left out by the layout.
SPECIFICATION ASpec
CONSTANTS
  f1 = f1
  f2 = f2
  Programs <- MCPrograms
  Bodies <- MCBodies
  RestartLimit = 1
CHECK_DEADLOCK FALSE
INVARIANT FunctionsKept
