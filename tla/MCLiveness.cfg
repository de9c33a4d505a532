SPECIFICATION Spec
CONSTANTS
  NReg = 5
  A = A
  B = B
  C = C
  cInt = cInt
  cFloat = cFloat
  cString = cString
  cFunction = cFunction
  cClosure = cClosure
  cCallable = cCallable
  cClass = cClass
  gA = gA
  gB = gB
  gF = gF
  gG = gG
  gO = gO
  gK = gK
  upvalue = upvalue
  None = None
  NoIndex = NoIndex
  NoType = NoType
  Pc = {}
  Index <- MCIndex
  Type <- MCType
  Lin <- MCLin
  Class <- MCClass
  Label <- MCLabel
  Glob <- MCGlob
  Programs <- MCPrograms
  MaxDepth = 4
  Passes = 3
  IntType = cInt
  FloatType = cFloat
  StringType = cString
  FunctionType = cFunction
  ClosureType = cClosure
  CallableType = cCallable
  ClassType = cClass
INVARIANTS TypeOK KeepsCalled InputsHold BehaviourKept
PROPERTY Completes
CHECK_DEADLOCK FALSE
