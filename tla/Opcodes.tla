------------------------------ MODULE Opcodes ------------------------------
(***************************************************************************)
(* The instructions: what they do to a machine, and how the tracking       *)
(* function of each opcode (src/src/opcodes.c) updates the facts about the *)
(* registers.                                                              *)
(*                                                                         *)
(* The machine is not part of the repository. Its instructions have the    *)
(* effect src/ relies on: frames of registers, a constant table, globals,  *)
(* upvalues, and calls that may change every location the callee reaches.  *)
(* An entry of the constant table is named by its value                    *)
(* (_optimize_addconstanttofunction keeps one entry per value).            *)
(***************************************************************************)
EXTENDS Reginfo

CONSTANTS
  Val,          \* values; constant table entries are named by them
  TypeOf,       \* the class of each value
  Arith,        \* Arith[v][w]: the result of an arithmetic instruction
  Compare,      \* Compare[v][w]: the result of a comparison
  Returns,      \* Returns[v]: declared result of v when it is called
  GlobalType,   \* what the previous pass found out about each global
  IntType, FloatType, BoolType, ClosureType

Glob == DOMAIN GlobalType
Upv  == Index \ (Val \cup Glob)

TypeFact == [type : Type \cup {NoType}, typeinfo : TypeInfo]

\* Value v is what a (type, typeinfo) pair says.
Satisfies(v, type, typeinfo) ==
  type # NoType =>
    \/ typeinfo = EXACT   /\ TypeOf[v] = type
    \/ typeinfo = SUBTYPE /\ type \in Ancestors(TypeOf[v])

ASSUME ValueAssumption ==
  /\ Val # {}
  /\ Val \cup Glob \subseteq Index
  /\ Val \cap Glob = {}
  /\ TypeOf \in [Val -> Type]
  /\ Returns \in [Val -> TypeFact]
  /\ GlobalType \in [Glob -> TypeFact]
ASSUME NumberAssumption ==
  /\ {IntType, FloatType, BoolType, ClosureType} \subseteq Type
  /\ Arith \in [Val -> [Val -> Val]]
  /\ Compare \in [Val -> [Val -> Val]]
  /\ \A v, w \in Val : TypeOf[Compare[v][w]] = BoolType
\* The result classes arith_trackingfn assumes, and that nothing is derived
\* from the two number classes, which it compares with no regard to precision.
ASSUME ArithAssumption ==
  /\ \A t \in Type : \A n \in {IntType, FloatType} : n \in Ancestors(t) => t = n
  /\ \A v, w \in Val :
       /\ TypeOf[v] = IntType /\ TypeOf[w] = IntType => TypeOf[Arith[v][w]] = IntType
       /\ /\ {TypeOf[v], TypeOf[w]} \subseteq {IntType, FloatType}
          /\ FloatType \in {TypeOf[v], TypeOf[w]}
          => TypeOf[Arith[v][w]] = FloatType

Machine == [regs : [Reg -> Val], glob : [Glob -> Val], upv : [Upv -> Val]]

-----------------------------------------------------------------------------
(***************************************************************************)
(* The machine's instructions: <<op, a, b, c>>.                            *)
(***************************************************************************)
Mov(a, b)      == <<"mov", a, b, 0>>
Lct(a, k)      == <<"lct", a, k, 0>>
Nop            == <<"nop", 0, 0, 0>>

\* An instruction whose operands are of the kinds its opcode takes, other than a
\* store to a global and a call.
WellFormed(i) ==
  \/ i[1] = "mov" /\ i[2] \in Reg /\ i[3] \in Reg
  \/ i[1] = "lct" /\ i[2] \in Reg /\ i[3] \in Val
  \/ i[1] = "lgl" /\ i[2] \in Reg /\ i[3] \in Glob
  \/ i[1] = "lup" /\ i[2] \in Reg /\ i[3] \in Upv
  \/ i[1] = "sup" /\ i[2] \in Upv /\ i[3] \in Reg
  \/ i[1] \in {"arith", "compare"} /\ i[2] \in Reg /\ i[3] \in Reg /\ i[4] \in Reg
  \/ i[1] = "print" /\ i[2] \in Reg
  \/ i[1] = "nop"

SetReg(m, r, v) == [m EXCEPT !.regs[r] = v]

\* The instructions that have one outcome.
Exec(m, i) ==
  CASE i[1] = "mov"     -> SetReg(m, i[2], m.regs[i[3]])
    [] i[1] = "lct"     -> SetReg(m, i[2], i[3])
    [] i[1] = "lgl"     -> SetReg(m, i[2], m.glob[i[3]])
    [] i[1] = "lup"     -> SetReg(m, i[2], m.upv[i[3]])
    [] i[1] = "arith"   -> SetReg(m, i[2], Arith[m.regs[i[3]]][m.regs[i[4]]])
    [] i[1] = "compare" -> SetReg(m, i[2], Compare[m.regs[i[3]]][m.regs[i[4]]])
    [] i[1] = "sup"     -> [m EXCEPT !.upv[i[2]] = m.regs[i[3]]]
    [] i[1] = "sgl"     -> [m EXCEPT !.glob[i[3]] = m.regs[i[2]]]
    [] OTHER            -> m                                  \* nop and print

-----------------------------------------------------------------------------
(***************************************************************************)
(* What code that runs inside an instruction may do.                       *)
(***************************************************************************)
GlobalsOK(gl) ==
  \A g \in Glob : Satisfies(gl[g], GlobalType[g].type, GlobalType[g].typeinfo)

\* What code that runs inside an instruction may leave in registers W and in
\* the globals and upvalues of L, and machine m after it.
Outcomes(W, L) ==
  {o \in [regs : [W -> Val], glob : [Glob \cap L -> Val], upv : [Upv \cap L -> Val]] :
     \A x \in Glob \cap L :
       Satisfies(o.glob[x], GlobalType[x].type, GlobalType[x].typeinfo)}

After(m, o) ==
  LET Update(f, h) == [x \in DOMAIN f |-> IF x \in DOMAIN h THEN h[x] ELSE f[x]]
  IN  [regs |-> Update(m.regs, o.regs),
       glob |-> Update(m.glob, o.glob),
       upv  |-> Update(m.upv, o.upv)]

-----------------------------------------------------------------------------
(***************************************************************************)
(* The tracking functions (src/src/opcodes.c).                             *)
(***************************************************************************)
\* What optimize_isconstant reads off the facts.
IsConstant(rl, r) == rl[r].contents = "constant"

\* Mutant: copies of the registers written stay aliases of them.
WriteValuesKeepsAliases(rl, pc, W) ==
  [r \in Reg |-> IF r \in W THEN WrittenFact(pc, "value", NoIndex) ELSE rl[r]]

\* optimize_writevalue for every register of W; the writes commute.
WriteValues(rl, pc, W) ==
  [r \in Reg |-> IF r \in W THEN WrittenFact(pc, "value", NoIndex)
                 ELSE IF rl[r].alias \in W THEN ClearAlias(rl[r]) ELSE rl[r]]

WriteTyped(rl, pc, r, type) == SetTypeInfo(WriteValues(rl, pc, {r}), r, type, EXACT)

\* The destination is wiped before the operand types are looked up, so an
\* instruction that overwrites one of its operands learns nothing from it.
TrackArith(rl, pc, a, b, c) ==
  LET w     == WriteValues(rl, pc, {a})
      types == {w[b].type, w[c].type}
  IN  CASE types = {IntType} -> SetTypeInfo(w, a, IntType, EXACT)
        [] types \in {{FloatType}, {IntType, FloatType}} /\ types # {IntType} ->
             SetTypeInfo(w, a, FloatType, EXACT)
        [] OTHER -> w

\* Mutant: the load of a global is recorded as that of an upvalue.
TrackLglAsUpvalue(rl, pc, a, g) ==
  SetTypeInfo(Write(rl, pc, a, "upvalue", g), a,
              GlobalType[g].type, GlobalType[g].typeinfo)

TrackLgl(rl, pc, a, g) ==
  SetTypeInfo(Write(rl, pc, a, "global", g), a,
              GlobalType[g].type, GlobalType[g].typeinfo)

TrackLct(rl, pc, a, k) ==
  SetTypeInfo(Write(rl, pc, a, "constant", k), a, TypeOf[k], EXACT)

Track(rl, pc, i) ==
  CASE i[1] = "mov"     -> CopyRegister(rl, pc, i[2], i[3])
    [] i[1] = "lct"     -> TrackLct(rl, pc, i[2], i[3])
    [] i[1] = "lgl"     -> TrackLgl(rl, pc, i[2], i[3])
    [] i[1] = "lup"     -> Write(rl, pc, i[2], "upvalue", i[3])
    [] i[1] = "arith"   -> TrackArith(rl, pc, i[2], i[3], i[4])
    [] i[1] = "compare" -> WriteTyped(rl, pc, i[2], BoolType)
    [] i[1] = "sup"     -> Invalidate(rl, "upvalue", i[2])
    [] i[1] = "sgl"     -> Invalidate(rl, "global", i[3])
    [] OTHER            -> rl

\* Mutants: what was loaded from upvalues survives a call; the registers of the
\* arguments keep their facts.
TrackCallKeepsUpvalues(rl, pc, a, d, n, resolved) ==
  WriteValues(GeneralizeContent(rl, "global"), pc, d .. d + n)

TrackCallKeepsArguments(rl, pc, a, d, n, resolved) ==
  WriteValues(GeneralizeContent(GeneralizeContent(rl, "global"), "upvalue"), pc, {d})

\* call_trackingfn and invoke_trackingfn: the callee is in register a, it is
\* given registers d+1 .. d+n and leaves its result in register d. What was
\* loaded from globals and upvalues is given up before the callee is looked at.
TrackCall(rl, pc, a, d, n, resolved) ==
  LET known == GeneralizeContent(GeneralizeContent(rl, "global"), "upvalue")
      w     == WriteValues(known, pc, d .. d + n)
  IN  IF resolved /\ IsConstant(known, a) /\ Returns[known[a].indx].type # NoType
      THEN SetTypeInfo(w, d, Returns[known[a].indx].type, Returns[known[a].indx].typeinfo)
      ELSE w

-----------------------------------------------------------------------------
(***************************************************************************)
(* What facts claim of a machine.                                          *)
(***************************************************************************)
\* The index of a fact is one of the kind of location its contents name.
InRange(f) ==
  /\ f.contents = "constant" => f.indx \in Val
  /\ f.contents = "global"   => f.indx \in Glob
  /\ f.contents = "upvalue"  => f.indx \in Upv

\* What a list of facts rl claims of a machine m.
Mirrors(rl, m) ==
  \A r \in Reg :
    /\ rl[r].contents = "constant" => m.regs[r] = rl[r].indx
    /\ rl[r].contents = "global"   => m.regs[r] = m.glob[rl[r].indx]
    /\ rl[r].contents = "upvalue"  => m.regs[r] = m.upv[rl[r].indx]

Aliases(rl, m) ==
  \A r \in Reg : rl[r].alias # NoReg => m.regs[r] = m.regs[rl[r].alias]

Types(rl, m) == \A r \in Reg : Satisfies(m.regs[r], rl[r].type, rl[r].typeinfo)
=============================================================================
