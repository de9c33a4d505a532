\* A loop that only adds to a register once an operand has been replaced.
SPECIFICATION OptimizeSpec
CONSTANTS
  cInt = cInt
  cFloat = cFloat
  cBool = cBool
  cCallable = cCallable
  cClosure = cClosure
  one = one
  half = half
  yes = yes
  counter = counter
  NReg = 4
  Val = {one, half, yes}
  Index <- MCIndex
  NoIndex = NoIndex
  Pc = {0, 1, 2, 3, 4, 5, 6, 7}
  Type <- MCType
  NoType = NoType
  Lin <- MCLin
  TypeOf <- MCTypeOf
  Arith <- MCArith
  Compare <- MCCompare
  Returns <- MCReturns
  GlobalType <- MCGlobalType
  IntType = cInt
  FloatType = cFloat
  BoolType = cBool
  ClosureType = cClosure
  NBlock = 4
  Width = 2
  NArgs = 1
  NOpt = 0
  IsMethod = FALSE
  IsRecursive = FALSE
  ParamFact <- MCParamFact
  Input <- MCInputOne
  Programs <- MCMadeUpdate
  Passes = 2
INVARIANTS StaysRegular
CHECK_DEADLOCK FALSE
