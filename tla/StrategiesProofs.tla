-------------------------- MODULE StrategiesProofs -------------------------
(***************************************************************************)
(* The operations on facts, the tracking functions and the strategies:     *)
(* facts that are true of a machine stay true of it when they follow what  *)
(* it does, one lemma for each operation, one for each kind of instruction,*)
(* and what a strategy leaves in place of an instruction does the same.    *)
(***************************************************************************)
EXTENDS Strategies, TLAPS, WellFoundedInduction

-----------------------------------------------------------------------------
(***************************************************************************)
(* Single facts.                                                           *)
(***************************************************************************)
LEMMA ClearAliasFact ==
  ASSUME NEW f \in RegInfo
  PROVE  /\ ClearAlias(f) \in RegInfo
         /\ ClearAlias(f).contents = f.contents
         /\ ClearAlias(f).indx = f.indx
         /\ ClearAlias(f).type = f.type
         /\ ClearAlias(f).typeinfo = f.typeinfo
         /\ ClearAlias(f).alias = NoReg
BY DEF ClearAlias, RegInfo

LEMMA GeneralizeFact ==
  ASSUME NEW f \in RegInfo
  PROVE  /\ Generalize(f) \in RegInfo
         /\ Generalize(f).contents \in {"value", "typedvalue"}
         /\ Generalize(f).type = f.type
         /\ Generalize(f).typeinfo = f.typeinfo
         /\ Generalize(f).alias = NoReg
BY DEF Generalize, ClearSource, ValueOf, ClearAlias, RegInfo, Contents

LEMMA WrittenFactFact ==
  ASSUME NEW pc \in Pc, NEW contents \in Contents, NEW indx \in Index \cup {NoIndex}
  PROVE  /\ WrittenFact(pc, contents, indx) \in RegInfo
         /\ WrittenFact(pc, contents, indx).contents = contents
         /\ WrittenFact(pc, contents, indx).indx = indx
         /\ WrittenFact(pc, contents, indx).type = NoType
         /\ WrittenFact(pc, contents, indx).alias = NoReg
BY DEF WrittenFact, InitFact, RegInfo, Usage, TypeInfo, UNKNOWN

-----------------------------------------------------------------------------
(***************************************************************************)
(* Lists of facts and machines.                                            *)
(***************************************************************************)
Sound(rl, m) ==
  /\ \A r \in Reg : InRange(rl[r])
  /\ Mirrors(rl, m) /\ Aliases(rl, m) /\ Types(rl, m)

\* What a fact f claims about register r of machine m.
True(f, r, m) ==
  /\ InRange(f)
  /\ f.contents = "constant" => m.regs[r] = f.indx
  /\ f.contents = "global"   => m.regs[r] = m.glob[f.indx]
  /\ f.contents = "upvalue"  => m.regs[r] = m.upv[f.indx]
  /\ f.alias # NoReg => m.regs[r] = m.regs[f.alias]
  /\ Satisfies(m.regs[r], f.type, f.typeinfo)

LEMMA SoundIsTrue ==
  ASSUME NEW rl, NEW m
  PROVE  Sound(rl, m) <=> \A r \in Reg : True(rl[r], r, m)
BY DEF Sound, Mirrors, Aliases, Types, True

\* Facts that say the same but for the alias.
Alike(f, g) ==
  f.contents = g.contents /\ f.indx = g.indx /\ f.type = g.type /\ f.typeinfo = g.typeinfo

\* Machines that agree but for the registers of W.
SameBut(W, m, n) ==
  /\ \A r \in Reg \ W : n.regs[r] = m.regs[r]
  /\ n.glob = m.glob
  /\ n.upv = m.upv

\* The step every write comes down to: registers outside W keep their value
\* and their fact, less the aliases of registers of W.
LEMMA UpdateSound ==
  ASSUME NEW rl \in RegInfoList, NEW wl, NEW m, NEW n, NEW W,
         Sound(rl, m), SameBut(W, m, n),
         \A r \in Reg \ W : /\ Alike(wl[r], rl[r])
                            /\ wl[r].alias \in {NoReg, rl[r].alias} \ W,
         \A r \in Reg \cap W : True(wl[r], r, n)
  PROVE  Sound(wl, n)
<1>1. SUFFICES ASSUME NEW r \in Reg, r \notin W
               PROVE  True(wl[r], r, n)
  BY SoundIsTrue
<1>2. True(rl[r], r, m)
  BY SoundIsTrue
<1>3. rl[r].alias \in Reg \cup {NoReg}
  BY DEF RegInfoList, RegInfo
<1>4. wl[r].alias # NoReg => wl[r].alias \in Reg /\ wl[r].alias \notin W
                            /\ wl[r].alias = rl[r].alias
  BY <1>1, <1>3
<1>5. QED
  BY <1>1, <1>2, <1>4 DEF True, Alike, SameBut, InRange

\* Overwriting registers leaves no claim on them, nor on copies of them.
LEMMA WriteValuesSound ==
  ASSUME NEW pc \in Pc, NEW rl \in RegInfoList, NEW m, NEW n, NEW W \in SUBSET Reg,
         Sound(rl, m), SameBut(W, m, n)
  PROVE  WriteValues(rl, pc, W) \in RegInfoList /\ Sound(WriteValues(rl, pc, W), n)
<1> DEFINE wl == WriteValues(rl, pc, W)
           vf == WrittenFact(pc, "value", NoIndex)
<1>1. /\ vf \in RegInfo
      /\ vf.contents = "value" /\ vf.type = NoType /\ vf.alias = NoReg
  BY WrittenFactFact DEF Contents
<1>2. \A r \in Reg : wl[r] = IF r \in W THEN vf
                             ELSE IF rl[r].alias \in W THEN ClearAlias(rl[r]) ELSE rl[r]
  BY DEF WriteValues
<1> HIDE DEF vf
<1>3. \A r \in Reg : rl[r] \in RegInfo /\ ClearAlias(rl[r]) \in RegInfo
  BY ClearAliasFact DEF RegInfoList
<1>4. wl \in RegInfoList
  BY <1>1, <1>3 DEF WriteValues, RegInfoList, vf
<1> HIDE DEF wl
<1>5. \A r \in Reg \cap W : True(wl[r], r, n)
  BY <1>1, <1>2 DEF True, Satisfies, InRange
<1>6. ASSUME NEW r \in Reg \ W
      PROVE  Alike(wl[r], rl[r]) /\ wl[r].alias \in {NoReg, rl[r].alias} \ W
  <2>1. NoReg \notin W
    BY DEF NoReg, Reg
  <2>2. QED
    BY <1>2, <1>3, <2>1, ClearAliasFact DEF Alike
<1>7. QED
  BY <1>4, <1>5, <1>6, UpdateSound DEF wl

\* A load: register r gets the value of the location its fact names.
LEMMA WriteSound ==
  ASSUME NEW pc \in Pc, NEW rl \in RegInfoList, NEW m, NEW n, NEW r \in Reg,
         NEW contents \in Contents, NEW indx \in Index \cup {NoIndex},
         Sound(rl, m), SameBut({r}, m, n),
         contents = "constant" => indx \in Val /\ n.regs[r] = indx,
         contents = "global"   => indx \in Glob /\ n.regs[r] = n.glob[indx],
         contents = "upvalue"  => indx \in Upv /\ n.regs[r] = n.upv[indx]
  PROVE  /\ Write(rl, pc, r, contents, indx) \in RegInfoList
         /\ Sound(Write(rl, pc, r, contents, indx), n)
         /\ Write(rl, pc, r, contents, indx)[r].contents = contents
<1> DEFINE wl == Write(rl, pc, r, contents, indx)
           wf == WrittenFact(pc, contents, indx)
<1>1. /\ wf \in RegInfo
      /\ wf.contents = contents /\ wf.indx = indx /\ wf.type = NoType /\ wf.alias = NoReg
  BY WrittenFactFact
<1> HIDE DEF wf
<1>2. \A x \in Reg : wl[x] = IF x = r THEN wf
                             ELSE IF rl[x].alias = r THEN ClearAlias(rl[x]) ELSE rl[x]
  BY DEF Write, InvalidateAliases, wf
<1>3. \A x \in Reg : rl[x] \in RegInfo /\ ClearAlias(rl[x]) \in RegInfo
  BY ClearAliasFact DEF RegInfoList
<1>4. wl \in RegInfoList
  BY <1>1, <1>3 DEF Write, InvalidateAliases, RegInfoList, wf
<1> HIDE DEF wl
<1>5. \A x \in Reg \cap {r} : True(wl[x], x, n)
  BY <1>1, <1>2 DEF True, Satisfies, InRange
<1>6. ASSUME NEW x \in Reg \ {r}
      PROVE  Alike(wl[x], rl[x]) /\ wl[x].alias \in {NoReg, rl[x].alias} \ {r}
  BY <1>2, <1>3, ClearAliasFact DEF Alike, NoReg, Reg
<1>7. QED
  BY <1>1, <1>2, <1>4, <1>5, <1>6, UpdateSound DEF wl

\* A copy: both registers now hold the one value, so what was known of the
\* source is known of the copy, a copy onto itself included.
LEMMA CopyRegisterSound ==
  ASSUME NEW pc \in Pc, NEW rl \in RegInfoList, NEW m, NEW n, NEW a \in Reg, NEW b \in Reg,
         Sound(rl, m), SameBut({a}, m, n), n.regs[a] = m.regs[b]
  PROVE  /\ CopyRegister(rl, pc, a, b) \in RegInfoList
         /\ Sound(CopyRegister(rl, pc, a, b), n)
<1> DEFINE cl == InvalidateAliases(rl, a)
           wl == CopyRegister(rl, pc, a, b)
           cf == [cl[b] EXCEPT !.usage = "written", !.iindx = pc, !.alias = b]
<1>1. \A x \in Reg : cl[x] = IF rl[x].alias = a THEN ClearAlias(rl[x]) ELSE rl[x]
  BY DEF InvalidateAliases
<1>2. \A x \in Reg : wl[x] = IF x = a THEN cf ELSE cl[x]
  BY DEF CopyRegister, InvalidateAliases
<1>3. \A x \in Reg : rl[x] \in RegInfo /\ cl[x] \in RegInfo /\ Alike(cl[x], rl[x])
  BY <1>1, ClearAliasFact DEF RegInfoList, Alike
<1>4. cf \in RegInfo /\ Alike(cf, rl[b]) /\ cf.alias = b
  BY <1>3 DEF RegInfo, Alike, Usage
<1>5. wl \in RegInfoList
  <2>1. \A x \in Reg : wl[x] \in RegInfo
    BY <1>2, <1>3, <1>4
  <2>2. QED
    BY <2>1 DEF CopyRegister, InvalidateAliases, RegInfoList
<1> HIDE DEF cf, wl, cl
<1>6. n.regs[a] = n.regs[b]
  BY DEF SameBut
<1>7. True(rl[b], b, m)
  BY SoundIsTrue
<1>8. True(wl[a], a, n)
  BY <1>2, <1>4, <1>6, <1>7 DEF True, Alike, SameBut, InRange
<1>9. ASSUME NEW x \in Reg \ {a}
      PROVE  Alike(wl[x], rl[x]) /\ wl[x].alias \in {NoReg, rl[x].alias} \ {a}
  <2>1. cl[x].alias \in {NoReg, rl[x].alias} \ {a}
    BY <1>1, <1>3, ClearAliasFact DEF NoReg, Reg
  <2>2. QED
    BY <1>2, <1>3, <2>1
<1>10. \A x \in Reg \cap {a} : True(wl[x], x, n)
  BY <1>8
<1>11. QED
  BY <1>5, <1>9, <1>10, UpdateSound DEF wl

\* Adding a class that the register's value has.
LEMMA SetTypeInfoSound ==
  ASSUME NEW rl \in RegInfoList, NEW m, NEW r \in Reg,
         NEW type \in Type \cup {NoType}, NEW info \in TypeInfo,
         Sound(rl, m), Satisfies(m.regs[r], type, info)
  PROVE  /\ SetTypeInfo(rl, r, type, info) \in RegInfoList
         /\ Sound(SetTypeInfo(rl, r, type, info), m)
<1> DEFINE wl == SetTypeInfo(rl, r, type, info)
           tf == TypedFact(rl[r], type, info)
<1>1. \A x \in Reg : wl[x] = IF x = r THEN tf ELSE rl[x]
  BY DEF SetTypeInfo, RegInfoList
<1>2. \A x \in Reg : rl[x] \in RegInfo
  BY DEF RegInfoList
<1>3. /\ tf \in RegInfo
      /\ tf.contents \in {rl[r].contents, "value", "typedvalue"}
      /\ tf.indx = rl[r].indx
      /\ tf.type = type /\ tf.alias = rl[r].alias
      /\ type # NoType => tf.typeinfo = info
  BY <1>2 DEF TypedFact, RegInfo, ValueOf, Contents, TypeInfo, UNKNOWN
<1>4. wl \in RegInfoList
  <2>1. \A x \in Reg : wl[x] \in RegInfo
    BY <1>1, <1>2, <1>3
  <2>2. QED
    BY <2>1 DEF SetTypeInfo, RegInfoList
<1> HIDE DEF tf, wl
<1>5. \A x \in Reg : True(rl[x], x, m)
  BY SoundIsTrue
<1>6. True(wl[r], r, m)
  BY <1>1, <1>3, <1>5 DEF True, Satisfies, InRange
<1>7. \A x \in Reg : True(wl[x], x, m)
  BY <1>1, <1>5, <1>6
<1>8. QED
  BY <1>4, <1>7, SoundIsTrue DEF wl

\* Facts given up: what is no longer claimed cannot be wrong, and what is still
\* claimed is claimed of locations that did not change.
LEMMA GiveUpSound ==
  ASSUME NEW rl \in RegInfoList, NEW wl, NEW m, NEW n,
         Sound(rl, m), n.regs = m.regs,
         DOMAIN wl = Reg, wl = [r \in Reg |-> wl[r]],
         \A r \in Reg : wl[r] = rl[r] \/ wl[r] = Generalize(rl[r]),
         \A r \in Reg : /\ wl[r].contents = "global"  => n.glob[wl[r].indx] = m.glob[wl[r].indx]
                        /\ wl[r].contents = "upvalue" => n.upv[wl[r].indx] = m.upv[wl[r].indx]
  PROVE  wl \in RegInfoList /\ Sound(wl, n)
<1>1. ASSUME NEW r \in Reg PROVE wl[r] \in RegInfo /\ True(wl[r], r, n)
  <2>1. rl[r] \in RegInfo /\ True(rl[r], r, m)
    BY SoundIsTrue DEF RegInfoList
  <2>2. CASE wl[r] = rl[r]
    BY <2>1, <2>2 DEF True
  <2>3. CASE wl[r] = Generalize(rl[r])
    BY <2>1, <2>3, GeneralizeFact DEF True, InRange
  <2>4. QED
    BY <2>2, <2>3
<1>2. wl \in RegInfoList
  BY <1>1 DEF RegInfoList
<1>3. QED
  BY <1>1, <1>2, SoundIsTrue

\* A store: the mirrors of the stored location are given up.
LEMMA InvalidateSound ==
  ASSUME NEW rl \in RegInfoList, NEW m, NEW n, NEW kind \in {"global", "upvalue"}, NEW x,
         Sound(rl, m), n.regs = m.regs,
         \A y \in Glob : (kind = "global" /\ y = x) \/ n.glob[y] = m.glob[y],
         \A y \in Upv  : (kind = "upvalue" /\ y = x) \/ n.upv[y] = m.upv[y]
  PROVE  /\ Invalidate(rl, kind, x) \in RegInfoList
         /\ Sound(Invalidate(rl, kind, x), n)
<1> DEFINE wl == Invalidate(rl, kind, x)
<1>1. \A r \in Reg : wl[r] = IF rl[r].contents = kind /\ rl[r].indx = x
                             THEN Generalize(rl[r]) ELSE rl[r]
  BY DEF Invalidate
<1>2. wl = [r \in Reg |-> wl[r]]
  BY DEF Invalidate
<1> HIDE DEF wl
<1>3. \A r \in Reg : rl[r] \in RegInfo /\ InRange(rl[r])
  BY DEF RegInfoList, Sound
<1>4. ASSUME NEW r \in Reg
      PROVE  /\ wl[r].contents = "global"  => n.glob[wl[r].indx] = m.glob[wl[r].indx]
             /\ wl[r].contents = "upvalue" => n.upv[wl[r].indx] = m.upv[wl[r].indx]
  <2>1. CASE wl[r] = Generalize(rl[r])
    BY <1>3, <2>1, GeneralizeFact
  <2>2. CASE wl[r] = rl[r] /\ ~(rl[r].contents = kind /\ rl[r].indx = x)
    BY <1>3, <2>2 DEF InRange
  <2>3. QED
    BY <1>1, <2>1, <2>2
<1>5. QED
  BY <1>1, <1>2, <1>4, GiveUpSound DEF wl

\* A call: no mirror of a global or an upvalue is left.
LEMMA GeneralizeContentSound ==
  ASSUME NEW rl \in RegInfoList, NEW m, NEW n, Sound(rl, m), n.regs = m.regs
  PROVE  LET wl == GeneralizeContent(GeneralizeContent(rl, "global"), "upvalue")
         IN  /\ wl \in RegInfoList
             /\ Sound(wl, n)
<1> DEFINE gl == GeneralizeContent(rl, "global")
           wl == GeneralizeContent(gl, "upvalue")
<1>1. \A r \in Reg : gl[r] = IF rl[r].contents = "global" THEN Generalize(rl[r]) ELSE rl[r]
  BY DEF GeneralizeContent
<1>2. \A r \in Reg : wl[r] = IF gl[r].contents = "upvalue" THEN Generalize(gl[r]) ELSE gl[r]
  BY DEF GeneralizeContent
<1>3. gl = [r \in Reg |-> gl[r]] /\ wl = [r \in Reg |-> wl[r]]
  BY DEF GeneralizeContent
<1> HIDE DEF gl, wl
<1>4. \A r \in Reg : rl[r] \in RegInfo
  BY DEF RegInfoList
<1>5. \A r \in Reg : gl[r].contents # "global"
  BY <1>1, <1>4, GeneralizeFact
<1> DEFINE k == [regs |-> m.regs, glob |-> n.glob, upv |-> m.upv]
<1>6. gl \in RegInfoList /\ Sound(gl, k)
  BY <1>1, <1>3, <1>5, GiveUpSound
<1>7. \A r \in Reg : gl[r] \in RegInfo
  BY <1>6 DEF RegInfoList
<1>8. \A r \in Reg : wl[r].contents # "upvalue"
  BY <1>2, <1>7, GeneralizeFact
<1>9. wl \in RegInfoList /\ Sound(wl, n)
  BY <1>2, <1>3, <1>6, <1>8, GiveUpSound
<1>10. QED
  BY <1>9 DEF wl, gl

-----------------------------------------------------------------------------
(***************************************************************************)
(* The tracking functions.                                                 *)
(***************************************************************************)
LEMMA NumberTypes ==
  /\ IntType # NoType /\ FloatType # NoType /\ BoolType # NoType
  /\ \A v \in Val, t \in {IntType, FloatType}, info \in TypeInfo :
       Satisfies(v, t, info) => TypeOf[v] = t
<1>1. IntType # NoType /\ FloatType # NoType /\ BoolType # NoType
  BY TypeAssumption, NumberAssumption
<1>2. ASSUME NEW v \in Val, NEW t \in {IntType, FloatType}, NEW info \in TypeInfo,
             Satisfies(v, t, info)
      PROVE  TypeOf[v] = t
  <2>1. TypeOf[v] \in Type
    BY ValueAssumption
  <2>2. t \in Ancestors(TypeOf[v]) => t = TypeOf[v]
    BY <2>1, ArithAssumption
  <2>3. QED
    BY <1>1, <1>2, <2>2 DEF Satisfies
<1>3. QED
  BY <1>1, <1>2

\* The classes that arith_trackingfn reads after it has wiped the destination
\* are those of the operands.
LEMMA OperandTypes ==
  ASSUME NEW pc \in Pc, NEW rl \in RegInfoList, NEW m \in Machine, NEW a \in Reg, Sound(rl, m)
  PROVE  LET w == WriteValues(rl, pc, {a})
         IN  \A x \in Reg, t \in {IntType, FloatType} :
               w[x].type = t => TypeOf[m.regs[x]] = t
<1> DEFINE w == WriteValues(rl, pc, {a})
<1>1. SUFFICES ASSUME NEW x \in Reg, NEW t \in {IntType, FloatType}, w[x].type = t
               PROVE  TypeOf[m.regs[x]] = t
  OBVIOUS
<1>2. w[a].type = NoType
  BY WrittenFactFact DEF WriteValues, Contents
<1>3. x # a
  BY <1>1, <1>2, NumberTypes
<1>4. rl[x] \in RegInfo
  BY DEF RegInfoList
<1>5. w[x].type = rl[x].type
  BY <1>3, <1>4, ClearAliasFact DEF WriteValues
<1>6. m.regs[x] \in Val /\ rl[x].typeinfo \in TypeInfo
  BY <1>4 DEF Machine, RegInfo
<1>7. Satisfies(m.regs[x], t, rl[x].typeinfo)
  BY <1>1, <1>5 DEF Sound, Types
<1>8. QED
  BY <1>6, <1>7, NumberTypes

\* The class recorded for the result of an operator is the one the machine's
\* operators give, and none is recorded for operands that are no numbers.
LEMMA TrackArithSound ==
  ASSUME NEW pc \in Pc, NEW rl \in RegInfoList, NEW m \in Machine, NEW n, NEW a \in Reg, NEW b \in Reg,
         NEW c \in Reg, Sound(rl, m), SameBut({a}, m, n),
         \/ n.regs[a] = Arith[m.regs[b]][m.regs[c]]
         \/ TypeOf[m.regs[b]] \notin {IntType, FloatType}
  PROVE  /\ TrackArith(rl, pc, a, b, c) \in RegInfoList
         /\ Sound(TrackArith(rl, pc, a, b, c), n)
<1> DEFINE wl == WriteValues(rl, pc, {a})
           v  == Arith[m.regs[b]][m.regs[c]]
<1>1. m.regs[b] \in Val /\ m.regs[c] \in Val
  BY DEF Machine
<1>2. wl \in RegInfoList /\ Sound(wl, n)
  BY WriteValuesSound
<1>3. \A x \in {b, c}, t \in {IntType, FloatType} : wl[x].type = t => TypeOf[m.regs[x]] = t
  BY OperandTypes
<1> HIDE DEF wl
<1> DEFINE types == {wl[b].type, wl[c].type}
<1>4. CASE types = {IntType}
  <2>1. TypeOf[m.regs[b]] = IntType /\ TypeOf[m.regs[c]] = IntType
    BY <1>3, <1>4
  <2>2. Satisfies(n.regs[a], IntType, EXACT)
    BY <1>1, <2>1, ArithAssumption DEF Satisfies
  <2>3. TrackArith(rl, pc, a, b, c) = SetTypeInfo(wl, a, IntType, EXACT)
    BY <1>4 DEF TrackArith, wl
  <2>4. QED
    BY <1>2, <2>2, <2>3, SetTypeInfoSound, NumberAssumption DEF TypeInfo
<1>5. CASE types \in {{FloatType}, {IntType, FloatType}} /\ types # {IntType}
  <2>1. /\ {TypeOf[m.regs[b]], TypeOf[m.regs[c]]} \subseteq {IntType, FloatType}
        /\ FloatType \in {TypeOf[m.regs[b]], TypeOf[m.regs[c]]}
    BY <1>3, <1>5
  <2>2. TypeOf[n.regs[a]] = FloatType
    BY <1>1, <2>1, ArithAssumption
  <2>3. Satisfies(n.regs[a], FloatType, EXACT)
    BY <2>2 DEF Satisfies
  <2>4. TrackArith(rl, pc, a, b, c) = SetTypeInfo(wl, a, FloatType, EXACT)
    BY <1>5 DEF TrackArith, wl
  <2>5. QED
    BY <1>2, <2>3, <2>4, SetTypeInfoSound, NumberAssumption DEF TypeInfo
<1>6. CASE types # {IntType} /\ types \notin {{FloatType}, {IntType, FloatType}}
  <2>1. TrackArith(rl, pc, a, b, c) = wl
    BY <1>6 DEF TrackArith, wl
  <2>2. QED
    BY <1>2, <2>1
<1>7. QED
  BY <1>4, <1>5, <1>6

LEMMA SetRegMachine ==
  ASSUME NEW m \in Machine, NEW r \in Reg, NEW v \in Val
  PROVE  /\ SetReg(m, r, v) \in Machine
         /\ SameBut({r}, m, SetReg(m, r, v))
         /\ SetReg(m, r, v).regs[r] = v
         /\ SetReg(m, r, v).glob = m.glob
         /\ SetReg(m, r, v).upv = m.upv
         /\ v = m.regs[r] => SetReg(m, r, v) = m
BY DEF Machine, SetReg, SameBut

LEMMA IndexKinds == Val \subseteq Index /\ Glob \subseteq Index /\ Upv \subseteq Index
BY ValueAssumption DEF Upv

\* Whatever instruction is tracked, the facts stay true of the machine that
\* executes it.
LEMMA TrackSound ==
  ASSUME NEW pc \in Pc, NEW rl \in RegInfoList, NEW m \in Machine, NEW i, WellFormed(i), Sound(rl, m),
         GlobalsOK(m.glob)
  PROVE  /\ Exec(m, i) \in Machine
         /\ Exec(m, i).glob = m.glob
         /\ Track(rl, pc, i) \in RegInfoList
         /\ Sound(Track(rl, pc, i), Exec(m, i))
<1>m. /\ m.regs \in [Reg -> Val] /\ m.glob \in [Glob -> Val] /\ m.upv \in [Upv -> Val]
  BY DEF Machine
<1>1. CASE i[1] = "mov" /\ i[2] \in Reg /\ i[3] \in Reg
  <2> DEFINE v == m.regs[i[3]]
             n == SetReg(m, i[2], v)
  <2>1. Track(rl, pc, i) = CopyRegister(rl, pc, i[2], i[3]) /\ Exec(m, i) = n
    BY <1>1 DEF Track, Exec
  <2>2. v \in Val
    BY <1>m, <1>1
  <2>3. n \in Machine /\ SameBut({i[2]}, m, n) /\ n.regs[i[2]] = v /\ n.glob = m.glob
    BY <1>1, <2>2, SetRegMachine
  <2> HIDE DEF n
  <2>4. /\ CopyRegister(rl, pc, i[2], i[3]) \in RegInfoList
        /\ Sound(CopyRegister(rl, pc, i[2], i[3]), n)
    BY <1>1, <2>3, CopyRegisterSound
  <2>5. QED
    BY <2>1, <2>3, <2>4
<1>2. CASE i[1] = "lct" /\ i[2] \in Reg /\ i[3] \in Val
  <2> DEFINE n == SetReg(m, i[2], i[3])
             w == Write(rl, pc, i[2], "constant", i[3])
  <2>1. Track(rl, pc, i) = SetTypeInfo(w, i[2], TypeOf[i[3]], EXACT) /\ Exec(m, i) = n
    BY <1>2 DEF Track, Exec, TrackLct
  <2>2. n \in Machine /\ SameBut({i[2]}, m, n) /\ n.regs[i[2]] = i[3] /\ n.glob = m.glob
    BY <1>2, SetRegMachine
  <2> HIDE DEF n
  <2>3. w \in RegInfoList /\ Sound(w, n)
    <3>1. "constant" \in Contents /\ i[3] \in Index \cup {NoIndex}
      BY <1>2, IndexKinds DEF Contents
    <3>2. QED
      BY <1>2, <2>2, <3>1, WriteSound
  <2> HIDE DEF w
  <2>4. TypeOf[i[3]] \in Type /\ Satisfies(n.regs[i[2]], TypeOf[i[3]], EXACT)
    BY <1>2, <2>2, ValueAssumption DEF Satisfies
  <2>5. QED
    BY <1>2, <2>1, <2>2, <2>3, <2>4, SetTypeInfoSound DEF TypeInfo
<1>3. CASE i[1] = "lgl" /\ i[2] \in Reg /\ i[3] \in Glob
  <2> DEFINE v == m.glob[i[3]]
             n == SetReg(m, i[2], v)
             w == Write(rl, pc, i[2], "global", i[3])
             t == GlobalType[i[3]]
  <2>1. Track(rl, pc, i) = SetTypeInfo(w, i[2], t.type, t.typeinfo) /\ Exec(m, i) = n
    BY <1>3 DEF Track, Exec, TrackLgl
  <2>2. v \in Val
    BY <1>m, <1>3
  <2>3. n \in Machine /\ SameBut({i[2]}, m, n) /\ n.regs[i[2]] = v /\ n.glob = m.glob
    BY <1>3, <2>2, SetRegMachine
  <2> HIDE DEF n
  <2>4. w \in RegInfoList /\ Sound(w, n)
    <3>1. "global" \in Contents /\ i[3] \in Index \cup {NoIndex}
      BY <1>3, IndexKinds DEF Contents
    <3>2. n.regs[i[2]] = n.glob[i[3]]
      BY <2>3
    <3>3. QED
      BY <1>3, <2>3, <3>1, <3>2, WriteSound
  <2> HIDE DEF w
  <2>5. t.type \in Type \cup {NoType} /\ t.typeinfo \in TypeInfo
    BY <1>3, ValueAssumption DEF TypeFact
  <2>6. Satisfies(n.regs[i[2]], t.type, t.typeinfo)
    BY <1>3, <2>3 DEF GlobalsOK
  <2>7. QED
    BY <1>3, <2>1, <2>3, <2>4, <2>5, <2>6, SetTypeInfoSound
<1>4. CASE i[1] = "lup" /\ i[2] \in Reg /\ i[3] \in Upv
  <2> DEFINE v == m.upv[i[3]]
             n == SetReg(m, i[2], v)
             w == Write(rl, pc, i[2], "upvalue", i[3])
  <2>1. Track(rl, pc, i) = w /\ Exec(m, i) = n
    BY <1>4 DEF Track, Exec
  <2>2. v \in Val
    BY <1>m, <1>4
  <2>3. /\ n \in Machine /\ SameBut({i[2]}, m, n) /\ n.regs[i[2]] = v
        /\ n.glob = m.glob /\ n.upv = m.upv
    BY <1>4, <2>2, SetRegMachine
  <2> HIDE DEF n
  <2>4. w \in RegInfoList /\ Sound(w, n)
    <3>1. "upvalue" \in Contents /\ i[3] \in Index \cup {NoIndex}
      BY <1>4, IndexKinds DEF Contents
    <3>2. /\ "upvalue" = "constant" => i[3] \in Val /\ n.regs[i[2]] = i[3]
          /\ "upvalue" = "global"   => i[3] \in Glob /\ n.regs[i[2]] = n.glob[i[3]]
          /\ "upvalue" = "upvalue"  => i[3] \in Upv /\ n.regs[i[2]] = n.upv[i[3]]
      BY <1>4, <2>3
    <3>3. pc \in Pc /\ rl \in RegInfoList /\ i[2] \in Reg /\ Sound(rl, m) /\ SameBut({i[2]}, m, n)
      BY <1>4, <2>3
    <3>4. QED
      BY ONLY <3>1, <3>2, <3>3, WriteSound
  <2>5. QED
    BY <2>1, <2>3, <2>4
<1>5. CASE i[1] = "sup" /\ i[2] \in Upv /\ i[3] \in Reg
  <2> DEFINE n == [m EXCEPT !.upv[i[2]] = m.regs[i[3]]]
  <2>1. Track(rl, pc, i) = Invalidate(rl, "upvalue", i[2]) /\ Exec(m, i) = n
    BY <1>5 DEF Track, Exec
  <2>2. /\ n \in Machine /\ n.regs = m.regs /\ n.glob = m.glob
        /\ \A y \in Upv : y = i[2] \/ n.upv[y] = m.upv[y]
    <3>1. m.regs[i[3]] \in Val
      BY <1>m, <1>5
    <3> QED BY <1>5, <3>1 DEF Machine
  <2> HIDE DEF n
  <2>3. QED
    BY <2>1, <2>2, InvalidateSound
<1>6. CASE i[1] = "arith" /\ i[2] \in Reg /\ i[3] \in Reg /\ i[4] \in Reg
  <2> DEFINE v == Arith[m.regs[i[3]]][m.regs[i[4]]]
             n == SetReg(m, i[2], v)
             w == TrackArith(rl, pc, i[2], i[3], i[4])
  <2>1. Track(rl, pc, i) = w /\ Exec(m, i) = n
    BY <1>6 DEF Track, Exec
  <2>2. v \in Val
    <3>1. m.regs[i[3]] \in Val /\ m.regs[i[4]] \in Val
      BY <1>m, <1>6
    <3> QED BY <3>1, NumberAssumption
  <2>3. n \in Machine /\ SameBut({i[2]}, m, n) /\ n.regs[i[2]] = v /\ n.glob = m.glob
    <3> HIDE DEF v
    <3> QED BY ONLY <1>m, <1>6, <2>2, SetRegMachine DEF n
  <2> HIDE DEF n
  <2>4. w \in RegInfoList /\ Sound(w, n)
    BY <1>6, <2>3, TrackArithSound
  <2>5. QED
    BY <2>1, <2>3, <2>4
<1>7. CASE i[1] = "compare" /\ i[2] \in Reg /\ i[3] \in Reg /\ i[4] \in Reg
  <2> DEFINE v == Compare[m.regs[i[3]]][m.regs[i[4]]]
             n == SetReg(m, i[2], v)
             w == WriteValues(rl, pc, {i[2]})
  <2>1. Track(rl, pc, i) = SetTypeInfo(w, i[2], BoolType, EXACT) /\ Exec(m, i) = n
    BY <1>7 DEF Track, Exec, WriteTyped
  <2>2. v \in Val /\ TypeOf[v] = BoolType
    <3>1. m.regs[i[3]] \in Val /\ m.regs[i[4]] \in Val
      BY <1>m, <1>7
    <3> QED BY <3>1, NumberAssumption
  <2> HIDE DEF v
  <2>3. n \in Machine /\ SameBut({i[2]}, m, n) /\ n.regs[i[2]] = v /\ n.glob = m.glob
    BY <1>7, <2>2, SetRegMachine
  <2> HIDE DEF n
  <2>4. w \in RegInfoList /\ Sound(w, n)
    BY <1>7, <2>3, WriteValuesSound
  <2>5. Satisfies(n.regs[i[2]], BoolType, EXACT) /\ BoolType \in Type
    BY <2>2, <2>3, NumberAssumption DEF Satisfies
  <2>6. QED
    BY <1>7, <2>1, <2>3, <2>4, <2>5, SetTypeInfoSound DEF TypeInfo
<1>8. CASE i[1] \in {"print", "nop"}
  BY <1>8 DEF Track, Exec
<1>9. QED
  BY <1>1, <1>2, <1>3, <1>4, <1>5, <1>6, <1>7, <1>8 DEF WellFormed

\* Calls: the callee's declared result is what the call leaves in register d.
LEMMA TrackCallSound ==
  ASSUME NEW pc \in Pc, NEW rl \in RegInfoList, NEW m \in Machine, NEW n \in Machine, NEW a \in Reg,
         NEW d \in Reg, NEW k \in Nat, NEW resolved \in BOOLEAN, Sound(rl, m), d + k < NReg,
         \A r \in Reg \ (d .. d + k) : n.regs[r] = m.regs[r],
         resolved => Satisfies(n.regs[d], Returns[m.regs[a]].type,
                                          Returns[m.regs[a]].typeinfo)
  PROVE  /\ TrackCall(rl, pc, a, d, k, resolved) \in RegInfoList
         /\ Sound(TrackCall(rl, pc, a, d, k, resolved), n)
<1> DEFINE W     == d .. d + k
           known == GeneralizeContent(GeneralizeContent(rl, "global"), "upvalue")
           w     == WriteValues(known, pc, W)
           c     == known[a].indx
           h     == [regs |-> m.regs, glob |-> n.glob, upv |-> n.upv]
<1>1. W \in SUBSET Reg
  BY RegAssumption DEF Reg
<1>2. known \in RegInfoList /\ Sound(known, h)
  <2>1. h.regs = m.regs
    OBVIOUS
  <2> HIDE DEF h
  <2>2. QED
    BY <2>1, GeneralizeContentSound
<1>3. SameBut(W, h, n)
  BY DEF SameBut
<1>4. h.regs[a] = m.regs[a]
  OBVIOUS
<1> HIDE DEF h, known
<1>5. w \in RegInfoList /\ Sound(w, n)
  BY <1>1, <1>2, <1>3, WriteValuesSound
<1> HIDE DEF W, w
<1>6. CASE resolved /\ IsConstant(known, a) /\ Returns[c].type # NoType
  <2>1. c = m.regs[a]
    BY <1>2, <1>4, <1>6 DEF Sound, Mirrors, IsConstant
  <2>2. m.regs[a] \in Val
    BY DEF Machine
  <2>3. Returns[c].type \in Type \cup {NoType} /\ Returns[c].typeinfo \in TypeInfo
    BY <2>1, <2>2, ValueAssumption DEF TypeFact
  <2>4. Satisfies(n.regs[d], Returns[c].type, Returns[c].typeinfo)
    BY <1>6, <2>1
  <2>5. TrackCall(rl, pc, a, d, k, resolved)
          = SetTypeInfo(w, d, Returns[c].type, Returns[c].typeinfo)
    BY <1>6 DEF TrackCall, known, w, W
  <2>6. QED
    BY <1>5, <2>3, <2>4, <2>5, SetTypeInfoSound
<1>7. CASE ~(resolved /\ IsConstant(known, a) /\ Returns[c].type # NoType)
  <2>1. TrackCall(rl, pc, a, d, k, resolved) = w
    BY <1>7 DEF TrackCall, known, w, W
  <2>2. QED
    BY <1>5, <2>1
<1>8. QED
  BY <1>6, <1>7

LEMMA AfterFact ==
  ASSUME NEW m \in Machine, NEW W \in SUBSET Reg, NEW L, NEW o \in Outcomes(W, L),
         GlobalsOK(m.glob)
  PROVE  /\ After(m, o) \in Machine
         /\ GlobalsOK(After(m, o).glob)
         /\ \A r \in Reg \ W : After(m, o).regs[r] = m.regs[r]
         /\ \A r \in W : After(m, o).regs[r] = o.regs[r]
         /\ L = {} => After(m, o).glob = m.glob /\ After(m, o).upv = m.upv
<1> DEFINE n == After(m, o)
<1>1. /\ m.regs \in [Reg -> Val] /\ m.glob \in [Glob -> Val] /\ m.upv \in [Upv -> Val]
      /\ m = [regs |-> m.regs, glob |-> m.glob, upv |-> m.upv]
  BY DEF Machine
<1>2. /\ o.regs \in [W -> Val]
      /\ o.glob \in [Glob \cap L -> Val]
      /\ o.upv \in [Upv \cap L -> Val]
      /\ \A x \in Glob \cap L :
           Satisfies(o.glob[x], GlobalType[x].type, GlobalType[x].typeinfo)
  BY DEF Outcomes
<1>3. /\ n.regs = [x \in Reg  |-> IF x \in W THEN o.regs[x] ELSE m.regs[x]]
      /\ n.glob = [x \in Glob |-> IF x \in Glob \cap L THEN o.glob[x] ELSE m.glob[x]]
      /\ n.upv  = [x \in Upv  |-> IF x \in Upv \cap L THEN o.upv[x] ELSE m.upv[x]]
      /\ n = [regs |-> n.regs, glob |-> n.glob, upv |-> n.upv]
  BY <1>1, <1>2 DEF After
<1> HIDE DEF n
<1>4. n.regs \in [Reg -> Val] /\ n.glob \in [Glob -> Val] /\ n.upv \in [Upv -> Val]
  BY <1>1, <1>2, <1>3
<1>5. n \in Machine
  BY <1>3, <1>4 DEF Machine
<1>6. GlobalsOK(n.glob)
  BY <1>2, <1>3 DEF GlobalsOK
<1>7. \A r \in Reg : n.regs[r] = IF r \in W THEN o.regs[r] ELSE m.regs[r]
  BY <1>3
<1>8. L = {} => n.glob = m.glob /\ n.upv = m.upv
  BY <1>1, <1>3
<1>9. QED
  BY <1>5, <1>6, <1>7, <1>8 DEF n

-----------------------------------------------------------------------------
(***************************************************************************)
(* The strategies.                                                         *)
(***************************************************************************)
\* All registers of an alias chain hold the one value: the registers that
\* hold it are closed under following aliases.
LEMMA ChainSound ==
  ASSUME NEW rl \in RegInfoList, NEW m, NEW r \in Reg, Sound(rl, m)
  PROVE  \A x \in Chain(rl, r) : x \in Reg /\ m.regs[x] = m.regs[r]
<1> DEFINE S == {y \in Reg : m.regs[y] = m.regs[r]}
<1>1. \A y \in S : rl[y].alias # NoReg => rl[y].alias \in S
  BY DEF Sound, Aliases, RegInfoList, RegInfo
<1>2. r \in S /\ S \in SUBSET Reg
  OBVIOUS
<1>3. QED
  BY <1>1, <1>2 DEF Chain

LEMMA OriginalSound ==
  ASSUME NEW rl \in RegInfoList, NEW m, NEW r \in Reg, Sound(rl, m),
         WalkEnds(rl, r) # {}
  PROVE  /\ FindOriginalRegister(rl, r) \in Reg
         /\ m.regs[FindOriginalRegister(rl, r)] = m.regs[r]
<1>1. FindOriginalRegister(rl, r) \in Chain(rl, r)
  BY DEF FindOriginalRegister, WalkEnds
<1>2. QED
  BY <1>1, ChainSound

LEMMA LeastElement ==
  ASSUME NEW S \in SUBSET Nat, S # {}
  PROVE  \E x \in S : \A y \in S : x <= y
<1>1. PICK x \in S : \A y \in S : <<y, x>> \notin OpToRel(<, Nat)
  BY WFMin, NatLessThanWellFounded, Zenon
<1>2. \A y \in S : ~(y < x)
  BY <1>1, Zenon DEF OpToRel
<1>3. \A y \in S : x <= y
  BY <1>2
<1>4. QED
  BY <1>3

LEMMA FoldedSound ==
  ASSUME NEW rl \in RegInfoList, NEW m \in Machine, NEW i, WellFormed(i), Sound(rl, m),
         Folds(rl, i)
  PROVE  WellFormed(Folded(rl, i)) /\ Exec(m, Folded(rl, i)) = Exec(m, i)
<1>1. i[1] \in {"arith", "compare"} /\ i[2] \in Reg /\ i[3] \in Reg /\ i[4] \in Reg
  BY DEF Folds, WellFormed
<1>2. rl[i[3]].indx = m.regs[i[3]] /\ rl[i[4]].indx = m.regs[i[4]]
  BY <1>1 DEF Folds, IsConstant, Sound, Mirrors
<1>3. m.regs[i[3]] \in Val /\ m.regs[i[4]] \in Val
  BY <1>1 DEF Machine
<1>4. CASE i[1] = "arith"
  <2> DEFINE v == Arith[m.regs[i[3]]][m.regs[i[4]]]
  <2>1. Folded(rl, i) = Lct(i[2], v)
    BY <1>2, <1>4 DEF Folded
  <2>2. v \in Val
    BY <1>3, NumberAssumption
  <2>3. Exec(m, i) = SetReg(m, i[2], v)
    BY <1>4 DEF Exec
  <2> HIDE DEF v
  <2>4. QED
    BY <1>1, <2>1, <2>2, <2>3 DEF WellFormed, Exec, Lct
<1>5. CASE i[1] = "compare"
  <2> DEFINE v == Compare[m.regs[i[3]]][m.regs[i[4]]]
  <2>1. Folded(rl, i) = Lct(i[2], v)
    BY <1>2, <1>5 DEF Folded
  <2>2. v \in Val
    BY <1>3, NumberAssumption
  <2>3. Exec(m, i) = SetReg(m, i[2], v)
    BY <1>5 DEF Exec
  <2> HIDE DEF v
  <2>4. QED
    BY <1>1, <2>1, <2>2, <2>3 DEF WellFormed, Exec, Lct
<1>6. QED
  BY <1>1, <1>4, <1>5

LEMMA ReplacedSound ==
  ASSUME NEW rl \in RegInfoList, NEW m \in Machine, NEW i, WellFormed(i), Sound(rl, m),
         Returning(rl, i)
  PROVE  WellFormed(Replaced(rl, i)) /\ Exec(m, Replaced(rl, i)) = Exec(m, i)
<1> DEFINE new == [f \in 1..4 |-> IF f \in Reads(i) THEN FindOriginalRegister(rl, i[f])
                                                   ELSE i[f]]
<1>1. \A f \in Reads(i) : f \in 2..4 /\ i[f] \in Reg
  BY DEF WellFormed, Reads
<1>2. \A f \in Reads(i) : new[f] \in Reg /\ m.regs[new[f]] = m.regs[i[f]]
  BY <1>1, OriginalSound DEF Returning
<1>3. \A f \in 1..4 : f \in Reads(i) \/ new[f] = i[f]
  OBVIOUS
<1>4. new[1] = i[1]
  BY <1>1, <1>3
<1> HIDE DEF new
<1>5. WellFormed(new) /\ Exec(m, new) = Exec(m, i)
  <2>1. CASE i[1] = "mov"
    <3>1. Reads(i) = {3} /\ new[2] = i[2]
      BY <1>3, <2>1 DEF Reads
    <3>2. i[2] \in Reg
      BY <2>1 DEF WellFormed
    <3>3. QED
      BY <1>2, <1>4, <2>1, <3>1, <3>2 DEF WellFormed, Exec
  <2>2. CASE i[1] = "sup"
    <3>1. Reads(i) = {3} /\ new[2] = i[2]
      BY <1>3, <2>2 DEF Reads
    <3>2. i[2] \in Upv
      BY <2>2 DEF WellFormed
    <3>3. QED
      BY <1>2, <1>4, <2>2, <3>1, <3>2 DEF WellFormed, Exec
  <2>3. CASE i[1] \in {"arith", "compare"}
    <3>1. Reads(i) = {3, 4} /\ new[2] = i[2]
      BY <1>3, <2>3 DEF Reads
    <3>2. i[2] \in Reg
      BY <2>3 DEF WellFormed
    <3>3. QED
      BY <1>2, <1>4, <2>3, <3>1, <3>2 DEF WellFormed, Exec
  <2>4. CASE i[1] = "print"
    <3>1. Reads(i) = {2}
      BY <2>4 DEF Reads
    <3>2. QED
      BY <1>2, <1>4, <2>4, <3>1 DEF WellFormed, Exec
  <2>5. CASE i[1] \in {"lct", "lgl", "lup", "nop"}
    <3>1. Reads(i) = {}
      BY <2>5 DEF Reads
    <3>2. new[2] = i[2] /\ new[3] = i[3]
      BY <1>3, <3>1
    <3>3. QED
      BY <1>4, <2>5, <3>2 DEF WellFormed, Exec
  <2>6. QED
    BY <2>1, <2>2, <2>3, <2>4, <2>5 DEF WellFormed
<1>6. CASE new[1] = "mov" /\ new[2] = new[3]
  <2>1. Exec(m, new) = m
    <3>1. new[3] \in Reg /\ m.regs[new[3]] \in Val
      BY <1>5, <1>6 DEF WellFormed, Machine
    <3>2. QED
      BY <1>6, <3>1, SetRegMachine DEF Exec
  <2>2. Replaced(rl, i) = Nop
    BY <1>6 DEF Replaced, new
  <2>3. WellFormed(Nop) /\ Exec(m, Nop) = m
    BY DEF Nop, WellFormed, Exec
  <2>4. QED
    BY <1>5, <2>1, <2>2, <2>3
<1>7. CASE ~(new[1] = "mov" /\ new[2] = new[3])
  <2>1. Replaced(rl, i) = new
    BY <1>7 DEF Replaced, new
  <2> QED BY <1>5, <2>1
<1>8. QED
  BY <1>6, <1>7

LEMMA ReloadedSound ==
  ASSUME NEW rl \in RegInfoList, NEW Inside, NEW m \in Machine, NEW i, WellFormed(i), Sound(rl, m),
         Holders(rl, i, Inside) # {}
  PROVE  WellFormed(Reloaded(rl, i, Inside)) /\ Exec(m, Reloaded(rl, i, Inside)) = Exec(m, i)
<1> DEFINE H == Holders(rl, i, Inside)
           r == CHOOSE r \in H : \A s \in H : r <= s
<1>1. H \in SUBSET Nat /\ H \in SUBSET Reg
  BY DEF Holders, Reg
<1>2. \E x \in H : \A s \in H : x <= s
  BY <1>1, LeastElement
<1>3. r \in H
  BY <1>2
<1> HIDE DEF r
<1>4. /\ i[1] \in {"lgl", "lct", "lup"}
      /\ r \in Reg
      /\ rl[r].contents = LoadKind[i[1]] /\ rl[r].indx = i[3]
  BY <1>3 DEF Holders, LoadKind
<1>5. i[2] \in Reg /\ m.regs[r] \in Val
  BY <1>4 DEF WellFormed, Machine
<1>6. Exec(m, i) = SetReg(m, i[2], m.regs[r])
  BY <1>4 DEF Sound, Mirrors, LoadKind, Exec
<1>7. CASE r = i[2]
  <2>1. Reloaded(rl, i, Inside) = Nop
    BY <1>7 DEF Reloaded, r
  <2>2. SetReg(m, i[2], m.regs[r]) = m
    BY <1>5, <1>7, SetRegMachine
  <2>3. QED
    BY <1>6, <2>1, <2>2 DEF Nop, WellFormed, Exec
<1>8. CASE r # i[2]
  <2>1. Reloaded(rl, i, Inside) = Mov(i[2], r)
    BY <1>8 DEF Reloaded, r
  <2>2. QED
    BY <1>4, <1>5, <1>6, <2>1 DEF Mov, WellFormed, Exec
<1>9. QED
  BY <1>7, <1>8

\* Whatever strategy applies, the machine cannot tell the difference.
LEMMA RewriteSound ==
  ASSUME NEW rl \in RegInfoList, NEW Inside, NEW m \in Machine, NEW i, WellFormed(i), Sound(rl, m),
         Returning(rl, i)
  PROVE  WellFormed(Rewrite(rl, i, Inside)) /\ Exec(m, Rewrite(rl, i, Inside)) = Exec(m, i)
<1>1. CASE Folds(rl, i)
  <2>1. Holders(rl, i, Inside) = {}
    BY <1>1 DEF Folds, Holders, LoadKind
  <2>2. Rewrite(rl, i, Inside) = Folded(rl, i)
    BY <1>1, <2>1 DEF Rewrite
  <2>3. QED
    BY <1>1, <2>2, FoldedSound
<1>2. CASE ~Folds(rl, i) /\ Holders(rl, i, Inside) = {} /\ ~(Replaced(rl, i) = i /\ SelfCopy(i))
  <2>1. Rewrite(rl, i, Inside) \in {Replaced(rl, i), i}
    BY <1>2 DEF Rewrite
  <2>2. QED
    BY <2>1, ReplacedSound
<1>3. CASE ~Folds(rl, i) /\ Holders(rl, i, Inside) = {} /\ Replaced(rl, i) = i /\ SelfCopy(i)
  <2>1. Rewrite(rl, i, Inside) = Nop
    BY <1>3 DEF Rewrite
  <2>2. i[1] = "mov" /\ i[2] \in Reg /\ i[3] = i[2] /\ m.regs[i[2]] \in Val
    BY <1>3 DEF SelfCopy, WellFormed, Machine
  <2>3. Exec(m, i) = m
    <3>1. Exec(m, i) = SetReg(m, i[2], m.regs[i[2]])
      BY <2>2 DEF Exec
    <3>2. QED
      BY <2>2, <3>1, SetRegMachine
  <2>4. QED
    BY <2>1, <2>3 DEF Nop, WellFormed, Exec
<1>4. CASE ~Folds(rl, i) /\ Holders(rl, i, Inside) # {}
  <2>1. i[1] \in {"lgl", "lct", "lup"}
    BY <1>4 DEF Holders, LoadKind
  <2>2. ~SelfCopy(i)
    BY <2>1 DEF SelfCopy
  <2>3. Rewrite(rl, i, Inside) \in {Replaced(rl, i), Reloaded(rl, i, Inside)}
    BY <1>4, <2>2 DEF Rewrite
  <2>4. QED
    BY <1>4, <2>3, ReplacedSound, ReloadedSound
<1>5. QED
  BY <1>1, <1>2, <1>3, <1>4

-----------------------------------------------------------------------------
(***************************************************************************)
(* Walks over aliases end.                                                 *)
(***************************************************************************)
\* No register is an alias of itself, however many aliases lie between: every
\* set of registers has one that is an alias of nothing in the set.
Acyclic(rl) ==
  \A S \in SUBSET Reg : S # {} => \E x \in S : rl[x].alias \notin S

\* Dropping aliases closes no cycle.
LEMMA FewerAliases ==
  ASSUME NEW rl, NEW wl, Acyclic(rl),
         \A r \in Reg : wl[r].alias = rl[r].alias \/ wl[r].alias = NoReg
  PROVE  Acyclic(wl)
<1>1. NoReg \notin Reg
  BY RegAssumption DEF NoReg, Reg
<1>2. QED
  BY <1>1 DEF Acyclic

\* Nor does a copy, since the aliases of its destination are dropped first.
LEMMA CopyAcyclic ==
  ASSUME NEW rl \in RegInfoList, NEW pc \in Pc, NEW a \in Reg, NEW b \in Reg, a # b, Acyclic(rl)
  PROVE  Acyclic(CopyRegister(rl, pc, a, b))
<1> DEFINE cl == InvalidateAliases(rl, a)
           wl == CopyRegister(rl, pc, a, b)
<1>1. \A x \in Reg : cl[x] = IF rl[x].alias = a THEN ClearAlias(rl[x]) ELSE rl[x]
  BY DEF InvalidateAliases
<1>2. \A x \in Reg : ClearAlias(rl[x]).alias = NoReg
  BY ClearAliasFact DEF RegInfoList
<1>3. NoReg \notin Reg
  BY RegAssumption DEF NoReg, Reg
<1>4. cl[b] \in RegInfo
  BY <1>1, ClearAliasFact DEF RegInfoList
<1>5. wl[a].alias = b
  BY <1>4 DEF CopyRegister, InvalidateAliases, RegInfo
<1>6. \A x \in Reg : x # a => wl[x] = cl[x]
  BY DEF CopyRegister, InvalidateAliases
<1> HIDE DEF cl, wl
<1>7. \A x \in Reg : x # a => /\ wl[x].alias # a
                              /\ wl[x].alias \in {rl[x].alias, NoReg}
  BY <1>1, <1>2, <1>3, <1>6
<1>8. ASSUME NEW S \in SUBSET Reg, S # {}
      PROVE  \E x \in S : wl[x].alias \notin S
  <2>1. CASE S = {a}
    BY <1>5, <2>1
  <2>2. CASE S # {a}
    <3>1. S \ {a} # {} /\ S \ {a} \in SUBSET Reg
      BY <1>8, <2>2
    <3>2. PICK x \in S \ {a} : rl[x].alias \notin S \ {a}
      BY <3>1 DEF Acyclic
    <3>3. wl[x].alias \notin S
      BY <1>3, <1>7, <3>2
    <3>4. QED
      BY <3>2, <3>3
  <2>3. QED
    BY <2>1, <2>2
<1>9. QED
  BY <1>8 DEF Acyclic, wl

\* What the tracking functions other than the copy's do to aliases.
LEMMA WriteValuesAliases ==
  ASSUME NEW rl \in RegInfoList, NEW pc \in Pc, NEW W, NEW r \in Reg
  PROVE  /\ WriteValues(rl, pc, W)[r] \in RegInfo
         /\ WriteValues(rl, pc, W)[r].alias \in {rl[r].alias, NoReg}
<1>1. rl[r] \in RegInfo
  BY DEF RegInfoList
<1>2. "value" \in Contents /\ NoIndex \in Index \cup {NoIndex}
  BY DEF Contents
<1>3. CASE r \in W
  BY <1>2, <1>3, WrittenFactFact DEF WriteValues
<1>4. CASE r \notin W
  BY <1>1, <1>4, ClearAliasFact DEF WriteValues
<1>5. QED
  BY <1>3, <1>4

LEMMA WriteAliases ==
  ASSUME NEW rl \in RegInfoList, NEW pc \in Pc, NEW a \in Reg, NEW contents \in Contents,
         NEW indx \in Index \cup {NoIndex}, NEW r \in Reg
  PROVE  /\ Write(rl, pc, a, contents, indx)[r] \in RegInfo
         /\ Write(rl, pc, a, contents, indx)[r].alias \in {rl[r].alias, NoReg}
<1>1. rl[r] \in RegInfo
  BY DEF RegInfoList
<1>2. CASE r = a
  BY <1>2, WrittenFactFact DEF Write, InvalidateAliases
<1>3. CASE r # a
  BY <1>1, <1>3, ClearAliasFact DEF Write, InvalidateAliases
<1>4. QED
  BY <1>2, <1>3

LEMMA GivenUpAliases ==
  ASSUME NEW rl, NEW r \in Reg, rl[r] \in RegInfo, NEW contents, NEW indx
  PROVE  /\ Invalidate(rl, contents, indx)[r].alias \in {rl[r].alias, NoReg}
         /\ GeneralizeContent(rl, contents)[r] \in RegInfo
         /\ GeneralizeContent(rl, contents)[r].alias \in {rl[r].alias, NoReg}
BY GeneralizeFact DEF Invalidate, GeneralizeContent

LEMMA SetTypeInfoAliases ==
  ASSUME NEW rl, NEW a \in Reg, NEW type, NEW info, NEW r \in Reg,
         rl[r] \in RegInfo, rl = [x \in Reg |-> rl[x]]
  PROVE  SetTypeInfo(rl, a, type, info)[r].alias = rl[r].alias
<1>1. TypedFact(rl[r], type, info).alias = rl[r].alias
  BY DEF TypedFact, RegInfo
<1>2. SetTypeInfo(rl, a, type, info)[r] = IF r = a THEN TypedFact(rl[r], type, info)
                                          ELSE rl[r]
  BY DEF SetTypeInfo
<1>3. QED
  BY <1>1, <1>2

LEMMA TrackArithAcyclic ==
  ASSUME NEW rl \in RegInfoList, NEW pc \in Pc, NEW a \in Reg, NEW b, NEW c, Acyclic(rl)
  PROVE  Acyclic(TrackArith(rl, pc, a, b, c))
<1> DEFINE w == WriteValues(rl, pc, {a})
           n == TrackArith(rl, pc, a, b, c)
<1>1. \A r \in Reg : w[r] \in RegInfo /\ w[r].alias \in {rl[r].alias, NoReg}
  BY WriteValuesAliases
<1>2. w = [r \in Reg |-> w[r]]
  BY DEF WriteValues
<1>3. n \in {w, SetTypeInfo(w, a, IntType, EXACT), SetTypeInfo(w, a, FloatType, EXACT)}
  BY DEF TrackArith
<1> HIDE DEF w, n
<1>4. \A r \in Reg : n[r].alias = w[r].alias
  BY <1>1, <1>2, <1>3, SetTypeInfoAliases
<1>5. QED
  BY <1>1, <1>4, FewerAliases DEF n

LEMMA TrackAcyclic ==
  ASSUME NEW rl \in RegInfoList, NEW pc \in Pc, NEW i, WellFormed(i), ~SelfCopy(i), Acyclic(rl)
  PROVE  Acyclic(Track(rl, pc, i))
<1> DEFINE n == Track(rl, pc, i)
<1>1. CASE i[1] = "mov" /\ i[2] \in Reg /\ i[3] \in Reg
  <2>1. i[2] # i[3]
    BY <1>1 DEF SelfCopy
  <2>2. n = CopyRegister(rl, pc, i[2], i[3])
    BY <1>1 DEF Track
  <2>3. QED
    BY <1>1, <2>1, <2>2, CopyAcyclic
<1>2. CASE \/ i[1] = "lct" /\ i[2] \in Reg /\ i[3] \in Val
           \/ i[1] = "lgl" /\ i[2] \in Reg /\ i[3] \in Glob
           \/ i[1] = "lup" /\ i[2] \in Reg /\ i[3] \in Upv
  <2>0. PICK contents \in {"constant", "global", "upvalue"} :
          \E type, info :
            n \in {Write(rl, pc, i[2], contents, i[3]),
                   SetTypeInfo(Write(rl, pc, i[2], contents, i[3]), i[2], type, info)}
    BY <1>2, Zenon DEF Track, TrackLct, TrackLgl
  <2>1. PICK type, info :
          n \in {Write(rl, pc, i[2], contents, i[3]),
                 SetTypeInfo(Write(rl, pc, i[2], contents, i[3]), i[2], type, info)}
    BY <2>0
  <2> DEFINE w == Write(rl, pc, i[2], contents, i[3])
  <2>2. i[3] \in Index \cup {NoIndex} /\ contents \in Contents /\ i[2] \in Reg
    BY <1>2, <2>0, IndexKinds DEF Contents
  <2>3. \A r \in Reg : w[r] \in RegInfo /\ w[r].alias \in {rl[r].alias, NoReg}
    BY <2>2, WriteAliases
  <2>4. w = [r \in Reg |-> w[r]]
    BY DEF Write, InvalidateAliases
  <2> HIDE DEF w, n
  <2>5. \A r \in Reg : n[r].alias = w[r].alias
    BY <2>1, <2>2, <2>3, <2>4, SetTypeInfoAliases DEF w
  <2>6. QED
    BY <2>3, <2>5, FewerAliases DEF n
<1>3. CASE i[1] = "sup"
  <2>1. n = Invalidate(rl, "upvalue", i[2])
    BY <1>3 DEF Track
  <2>2. \A r \in Reg : n[r].alias \in {rl[r].alias, NoReg}
    BY <2>1, GivenUpAliases DEF RegInfoList
  <2> HIDE DEF n
  <2>3. QED
    BY <2>2, FewerAliases DEF n
<1>4. CASE i[1] = "arith" /\ i[2] \in Reg
  BY <1>4, TrackArithAcyclic DEF Track
<1>5. CASE i[1] = "compare" /\ i[2] \in Reg
  <2> DEFINE w == WriteValues(rl, pc, {i[2]})
  <2>1. n = SetTypeInfo(w, i[2], BoolType, EXACT)
    BY <1>5 DEF Track, WriteTyped
  <2>2. \A r \in Reg : w[r] \in RegInfo /\ w[r].alias \in {rl[r].alias, NoReg}
    BY WriteValuesAliases
  <2>3. w = [r \in Reg |-> w[r]]
    BY DEF WriteValues
  <2> HIDE DEF w, n
  <2>4. \A r \in Reg : n[r].alias = w[r].alias
    BY <1>5, <2>1, <2>2, <2>3, SetTypeInfoAliases
  <2>5. QED
    BY <2>2, <2>4, FewerAliases DEF n
<1>6. CASE i[1] \in {"print", "nop"}
  BY <1>6 DEF Track
<1>7. QED
  BY <1>1, <1>2, <1>3, <1>4, <1>5, <1>6 DEF WellFormed

\* No strategy writes a move of a register onto itself.
LEMMA RewriteNoSelfCopy ==
  ASSUME NEW rl, NEW Inside, NEW i, ~SelfCopy(i)
  PROVE  ~SelfCopy(Rewrite(rl, i, Inside))
<1>1. Rewrite(rl, i, Inside) \in {Folded(rl, i), Replaced(rl, i), Nop, Reloaded(rl, i, Inside), i}
  BY DEF Rewrite
<1>2. ~SelfCopy(Folded(rl, i)) /\ ~SelfCopy(Nop)
  BY DEF SelfCopy, Folded, Lct, Nop
<1>3. ~SelfCopy(Replaced(rl, i))
  <2> DEFINE new == [f \in 1..4 |-> IF f \in Reads(i) THEN FindOriginalRegister(rl, i[f])
                                                     ELSE i[f]]
  <2>1. Replaced(rl, i) = IF new[1] = "mov" /\ new[2] = new[3] THEN Nop ELSE new
    BY DEF Replaced
  <2> HIDE DEF new
  <2>2. QED
    BY <1>2, <2>1 DEF SelfCopy
<1>4. ~SelfCopy(Reloaded(rl, i, Inside))
  <2> DEFINE r == CHOOSE r \in Holders(rl, i, Inside) : \A s \in Holders(rl, i, Inside) : r <= s
  <2>1. Reloaded(rl, i, Inside) = IF r = i[2] THEN Nop ELSE Mov(i[2], r)
    BY DEF Reloaded
  <2> HIDE DEF r
  <2>2. QED
    BY <1>2, <2>1 DEF SelfCopy, Mov
<1>5. QED
  BY <1>1, <1>2, <1>3, <1>4

LEMMA TrackCallAcyclic ==
  ASSUME NEW rl \in RegInfoList, NEW pc \in Pc, NEW a, NEW d \in Reg, NEW k, NEW resolved, Acyclic(rl)
  PROVE  Acyclic(TrackCall(rl, pc, a, d, k, resolved))
<1> DEFINE gl == GeneralizeContent(rl, "global")
           kl == GeneralizeContent(gl, "upvalue")
           w  == WriteValues(kl, pc, d .. d + k)
           n  == TrackCall(rl, pc, a, d, k, resolved)
<1>1. \A r \in Reg : gl[r] \in RegInfo /\ gl[r].alias \in {rl[r].alias, NoReg}
  BY GivenUpAliases DEF RegInfoList
<1>2. kl = [r \in Reg |-> kl[r]] /\ w = [r \in Reg |-> w[r]]
  BY DEF WriteValues, GeneralizeContent
<1>3. n = w \/ \E t, i : n = SetTypeInfo(w, d, t, i)
  BY Zenon DEF TrackCall
<1> HIDE DEF gl
<1>4. \A r \in Reg : kl[r] \in RegInfo /\ kl[r].alias \in {gl[r].alias, NoReg}
  BY <1>1, GivenUpAliases
<1> HIDE DEF kl
<1>5. kl \in RegInfoList
  BY <1>2, <1>4 DEF RegInfoList
<1>6. \A r \in Reg : w[r] \in RegInfo /\ w[r].alias \in {kl[r].alias, NoReg}
  BY <1>5, WriteValuesAliases
<1> HIDE DEF w, n
<1>7. \A r \in Reg : n[r].alias = w[r].alias
  BY <1>2, <1>3, <1>6, SetTypeInfoAliases
<1>8. QED
  BY <1>1, <1>4, <1>6, <1>7, FewerAliases DEF n

\* An alias walk meets a register that is no alias: the chain it walks along is
\* closed under aliases, and some alias leads out of every cycle.
LEMMA AcyclicEnds ==
  ASSUME NEW rl \in RegInfoList, Acyclic(rl), NEW r \in Reg
  PROVE  WalkEnds(rl, r) # {}
<1> DEFINE C == Chain(rl, r)
<1>1. C \in SUBSET Reg /\ r \in C
  BY DEF Chain
<1>2. \A x \in C : rl[x].alias # NoReg => rl[x].alias \in C
  <2>1. \A x \in Reg : rl[x].alias \in Reg \cup {NoReg}
    BY DEF RegInfoList, RegInfo
  <2>2. SUFFICES ASSUME NEW x \in C, rl[x].alias # NoReg PROVE rl[x].alias \in C
    OBVIOUS
  <2>3. SUFFICES ASSUME NEW S \in SUBSET Reg, r \in S,
                        \A y \in S : rl[y].alias # NoReg => rl[y].alias \in S
                 PROVE  rl[x].alias \in S
    BY <1>1, <2>1, <2>2 DEF Chain
  <2>4. x \in S
    BY <2>3 DEF Chain
  <2>5. QED
    BY <2>2, <2>3, <2>4
<1> HIDE DEF C
<1>3. PICK x \in C : rl[x].alias \notin C
  BY <1>1 DEF Acyclic
<1>4. x \in WalkEnds(rl, r)
  BY <1>1, <1>2, <1>3 DEF WalkEnds, C
<1>5. QED
  BY <1>4
=============================================================================
