\* Calls inlined into a function and its frame compacted. Bounds: three passes.
SPECIFICATION Spec
CONSTANTS
  main = main
  twice = twice
  once = once
  one = one
  Nil = nil
  Order <- MCOrder
  Programs <- MCPrograms
  MaxInstructions = 12
  Passes = 3
CHECK_DEADLOCK FALSE
INVARIANTS TypeOK BehaviourKept NothingPutOff
PROPERTY RegistersApart
