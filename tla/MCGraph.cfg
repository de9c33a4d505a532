\* The control flow graph of every program of five instructions in one function
\* or two, its edges as branches are decided, and the program laid out again.
SPECIFICATION LSpec
CONSTANTS
  main = main
  method = method
  class = class
  Size = 5
  Function = {main, method}
  Other = {class}
  Global = main
  Programs <- MCPrograms
CHECK_DEADLOCK FALSE
INVARIANTS TypeOK Disjoint Covers LinksRight BlocksBelong EdgesFollowCode CacheRight DeadCutOff LaidOutRight OnlyEntriesMissing
PROPERTY Finishes
