\* A loop back to the entry of a function, of which nothing is left.
SPECIFICATION LSpec
CONSTANTS
  main = main
  method = method
  class = class
  Size = 5
  Function = {main, method}
  Other = {class}
  Global = main
  Programs <- MCForever
CHECK_DEADLOCK FALSE
INVARIANT NoBlockMissing
