\* A closure assigns to the local register it captured.
SPECIFICATION Spec
CONSTANTS
  cInt = cInt
  cFloat = cFloat
  cBool = cBool
  cCallable = cCallable
  cClosure = cClosure
  cObject = cObject
  one = one
  half = half
  yes = yes
  fun = fun
  obj = obj
  counter = counter
  cell = cell
  NReg = 2
  Val = {one, yes, fun}
  Index <- MCIndex
  NoIndex = NoIndex
  Pc = {0, 1}
  Here = 0
  Type <- MCType
  NoType = NoType
  Lin <- MCLin
  TypeOf <- MCTypeOf
  Arith <- MCArith
  Compare <- MCCompare
  Returns <- MCReturns
  GlobalType <- MCGlobalUntyped
  IntType = cInt
  FloatType = cFloat
  BoolType = cBool
  ClosureType = cClosure
  BlockInput <- MCInputInt
  Prototypes <- MCPrototypes
  Reassigned = {0}
  Overloads = {}
  Modified = {}
  AllowSelfMove = FALSE
INVARIANT RewritesPreserve
