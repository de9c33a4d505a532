\* Code inserted into every block of a program of six instructions, and the source
\* lines of the program laid out after it. Bounds: a block may restart twice.
SPECIFICATION ASpec
CONSTANTS
  f1 = f1
  f2 = f2
  Programs <- MCPrograms
  Bodies <- MCBodies
  RestartLimit = 2
CHECK_DEADLOCK FALSE
INVARIANTS TypeOK LinesKept ScopesKept
PROPERTIES EditsOnly OptimizesOrFails
