\* Every block on two registers: a value of every class, a closure over a
\* local it only reads, and operators whose methods assign to nothing.
SPECIFICATION Spec
CONSTANTS
  cInt = cInt
  cFloat = cFloat
  cBool = cBool
  cCallable = cCallable
  cClosure = cClosure
  cObject = cObject
  one = one
  half = half
  yes = yes
  fun = fun
  obj = obj
  counter = counter
  cell = cell
  NReg = 2
  Val = {one, half, yes, fun, obj}
  Index <- MCIndex
  NoIndex = NoIndex
  Pc = {0, 1}
  Here = 0
  Type <- MCType
  NoType = NoType
  Lin <- MCLin
  TypeOf <- MCTypeOf
  Arith <- MCArith
  Compare <- MCCompare
  Returns <- MCReturns
  GlobalType <- MCGlobalInt
  IntType = cInt
  FloatType = cFloat
  BoolType = cBool
  ClosureType = cClosure
  BlockInput <- MCInputCallable
  Prototypes <- MCPrototypes
  Reassigned = {}
  Overloads = {obj}
  Modified = {}
  AllowSelfMove = FALSE
INVARIANTS TypeOK MirrorsSound TypesSound
