\* A loop assigns to a parameter that every call gives the same constant.
SPECIFICATION Spec
CONSTANTS
  cInt = cInt
  cFloat = cFloat
  cBool = cBool
  cCallable = cCallable
  cClosure = cClosure
  one = one
  half = half
  yes = yes
  counter = counter
  NReg = 3
  Val = {one, half, yes}
  Index <- MCIndex
  NoIndex = NoIndex
  Pc = {0, 1, 2, 3, 4, 5, 6, 7}
  Type <- MCType
  NoType = NoType
  Lin <- MCLin
  TypeOf <- MCTypeOf
  Arith <- MCArith
  Compare <- MCCompare
  Returns <- MCReturns
  GlobalType <- MCGlobalType
  IntType = cInt
  FloatType = cFloat
  BoolType = cBool
  ClosureType = cClosure
  NBlock = 4
  Width = 2
  NArgs = 1
  NOpt = 0
  IsMethod = FALSE
  IsRecursive = FALSE
  ParamFact <- MCParamFact
  Input <- MCInputOne
  Programs <- MCCountdown
INVARIANT InputsSound
CHECK_DEADLOCK FALSE
