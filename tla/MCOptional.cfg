\* Frames of functions with optional parameters, compacted.
SPECIFICATION Spec
CONSTANTS
  main = main
  twice = twice
  once = once
  one = one
  Nil = nil
  Order <- MCOrder
  Programs <- MCOptional
  MaxInstructions = 12
  Passes = 1
CHECK_DEADLOCK FALSE
INVARIANTS BehaviourKept
