\* Every block on three registers, so that chains of copies can form, break
\* and be traced back; two values suffice to tell registers apart.
SPECIFICATION Spec
CONSTANTS
  cInt = cInt
  cFloat = cFloat
  cBool = cBool
  cCallable = cCallable
  cClosure = cClosure
  cObject = cObject
  one = one
  half = half
  yes = yes
  fun = fun
  obj = obj
  counter = counter
  cell = cell
  NReg = 3
  Val = {one, yes}
  Index <- MCIndex
  NoIndex = NoIndex
  Pc = {0, 1}
  Here = 0
  Type <- MCType
  NoType = NoType
  Lin <- MCLin
  TypeOf <- MCTypeOf
  Arith <- MCArith
  Compare <- MCCompare
  Returns <- MCReturns
  GlobalType <- MCGlobalUntyped
  IntType = cInt
  FloatType = cFloat
  BoolType = cBool
  ClosureType = cClosure
  BlockInput <- MCInputInt
  Prototypes = {}
  Reassigned = {}
  Overloads = {}
  Modified = {}
  AllowSelfMove = FALSE
INVARIANTS AliasesSound RewritesPreserve OriginalsSound AliasWalksEnd
