--------------------------- MODULE TrackingProofs ---------------------------
(***************************************************************************)
(* The facts of a block are true of the machine, and the rewrites keep the *)
(* program's meaning, for every frame, class hierarchy, constant table and *)
(* sequence of instructions, provided that                                 *)
(*   - no code outside the function assigns to a local that a closure of   *)
(*     the function captured (Reassigned = {}), and                        *)
(*   - no method run by an operator or an index assigns to a global or an  *)
(*     upvalue of the function (Modified = {}).                            *)
(* Without either hypothesis the theorem is false: see MCCaptured.cfg and  *)
(* MCOverload.cfg.                                                         *)
(***************************************************************************)
EXTENDS Tracking, StrategiesProofs

-----------------------------------------------------------------------------
(***************************************************************************)
(* The steps of the walk.                                                  *)
(***************************************************************************)
\* The inductive invariant: the facts are true of the machine, the machines
\* are the same, and globals hold what the previous pass said they do.
IInv ==
  /\ source \in Machine
  /\ rlist \in RegInfoList
  /\ captured \subseteq Reg
  /\ target = source
  /\ Sound(rlist, source)
  /\ GlobalsOK(source.glob)

LEMMA InitSound == Init => IInv
<1> SUFFICES ASSUME Init PROVE IInv
  OBVIOUS
<1>1. /\ rlist \in RegInfoList
      /\ \A r \in Reg : InRange(rlist[r]) /\ rlist[r].alias = NoReg
  BY InputAssumption DEF Init
<1>2. Aliases(rlist, source)
  BY <1>1 DEF Aliases
<1>3. Sound(rlist, source)
  BY <1>1, <1>2 DEF Init, Sound
<1>4. captured \subseteq Reg
  BY FrameAssumption DEF Init
<1>5. QED
  BY <1>1, <1>3, <1>4 DEF Init, IInv

\* The instructions the strategies look at, rewritten or not.
LEMMA TurnSound ==
  ASSUME IInv, NEW i, WellFormed(i), Turn(i)
  PROVE  IInv'
<1>1. PICK new \in {i} \cup (IF Returning(rlist, i) THEN {Rewrite(rlist, i, {Here})} ELSE {}) :
        /\ source' = Exec(source, i)
        /\ target' = Exec(target, new)
        /\ rlist'  = Track(rlist, Here, new)
        /\ captured' = captured
  BY DEF Turn
<1>2. /\ source \in Machine /\ rlist \in RegInfoList /\ Sound(rlist, source)
      /\ target = source /\ GlobalsOK(source.glob) /\ captured \subseteq Reg
  BY DEF IInv
<1>3. WellFormed(new) /\ Exec(source, new) = Exec(source, i)
  <2>1. CASE new = i
    BY <2>1
  <2>2. CASE Returning(rlist, i) /\ new = Rewrite(rlist, i, {Here})
    BY <1>2, <2>2, RewriteSound
  <2>3. QED
    BY <1>1, <2>1, <2>2
<1>4. /\ Exec(source, new) \in Machine
      /\ Exec(source, new).glob = source.glob
      /\ Track(rlist, Here, new) \in RegInfoList
      /\ Sound(Track(rlist, Here, new), Exec(source, new))
  BY <1>2, <1>3, TrackSound, HereAssumption
<1>5. QED
  BY <1>1, <1>2, <1>3, <1>4 DEF IInv

LEMMA StoreGlobalSound ==
  ASSUME IInv, NEW a \in Reg, NEW g \in Glob, StoreGlobal(a, g)
  PROVE  IInv'
<1> DEFINE n == [source EXCEPT !.glob[g] = source.regs[a]]
<1>1. /\ source \in Machine /\ rlist \in RegInfoList /\ Sound(rlist, source)
      /\ target = source /\ GlobalsOK(source.glob) /\ captured \subseteq Reg
  BY DEF IInv
<1>2. /\ source' = n /\ target' = n /\ captured' = captured
      /\ rlist' = Invalidate(rlist, "global", g)
      /\ Satisfies(source.regs[a], GlobalType[g].type, GlobalType[g].typeinfo)
  BY <1>1 DEF StoreGlobal
<1>3. /\ n \in Machine /\ n.regs = source.regs /\ n.upv = source.upv
      /\ \A y \in Glob : n.glob[y] = IF y = g THEN source.regs[a] ELSE source.glob[y]
  BY <1>1 DEF Machine
<1> HIDE DEF n
<1>4. GlobalsOK(n.glob)
  BY <1>1, <1>2, <1>3 DEF GlobalsOK
<1>5. rlist' \in RegInfoList /\ Sound(rlist', n)
  BY <1>1, <1>2, <1>3, InvalidateSound
<1>6. QED
  BY <1>1, <1>2, <1>3, <1>4, <1>5 DEF IInv

LEMMA LoadElementSound ==
  ASSUME IInv, NEW a \in Reg, NEW b \in Reg, LoadElement(a, b)
  PROVE  IInv'
<1>1. PICK v \in Val : /\ source' = SetReg(source, a, v)
                       /\ target' = SetReg(target, a, v)
                       /\ rlist' = WriteValues(rlist, Here, {a})
                       /\ captured' = captured
  BY DEF LoadElement
<1>2. /\ source \in Machine /\ rlist \in RegInfoList /\ Sound(rlist, source)
      /\ target = source /\ GlobalsOK(source.glob) /\ captured \subseteq Reg
  BY DEF IInv
<1>3. source' \in Machine /\ SameBut({a}, source, source') /\ source'.glob = source.glob
  BY <1>1, <1>2, SetRegMachine
<1>4. rlist' \in RegInfoList /\ Sound(rlist', source')
  BY <1>1, <1>2, <1>3, WriteValuesSound, HereAssumption
<1>5. QED
  BY <1>1, <1>2, <1>3, <1>4 DEF IInv

LEMMA MakeClosureSound ==
  ASSUME IInv, NEW a \in Reg, NEW P \in Prototypes, MakeClosure(a, P)
  PROVE  IInv'
<1>1. PICK v \in Val : /\ TypeOf[v] = ClosureType
                       /\ source' = SetReg(source, a, v)
                       /\ target' = SetReg(target, a, v)
                       /\ rlist' = WriteTyped(rlist, Here, a, ClosureType)
                       /\ captured' = captured \cup P
  BY DEF MakeClosure
<1> DEFINE w == WriteValues(rlist, Here, {a})
<1>2. /\ source \in Machine /\ rlist \in RegInfoList /\ Sound(rlist, source)
      /\ target = source /\ GlobalsOK(source.glob) /\ captured \subseteq Reg
  BY DEF IInv
<1>3. /\ source' \in Machine /\ SameBut({a}, source, source')
      /\ source'.glob = source.glob /\ source'.regs[a] = v
  BY <1>1, <1>2, SetRegMachine
<1>4. w \in RegInfoList /\ Sound(w, source')
  BY <1>2, <1>3, WriteValuesSound, HereAssumption
<1>5. ClosureType \in Type /\ Satisfies(source'.regs[a], ClosureType, EXACT)
  BY <1>1, <1>3, NumberAssumption DEF Satisfies
<1> HIDE DEF w
<1>6. rlist' = SetTypeInfo(w, a, ClosureType, EXACT)
  BY <1>1 DEF WriteTyped, w
<1>7. rlist' \in RegInfoList /\ Sound(rlist', source')
  BY <1>4, <1>5, <1>6, SetTypeInfoSound DEF TypeInfo
<1>8. captured' \subseteq Reg
  BY <1>1, <1>2, FrameAssumption
<1>9. QED
  BY <1>1, <1>2, <1>3, <1>7, <1>8 DEF IInv

\* A call: the callee may assign to every global and upvalue, and to nothing
\* of the frame but its window.
LEMMA CallSound ==
  ASSUME Reassigned = {}, IInv, NEW a \in Reg, NEW d \in Reg \cup {NReg}, NEW k \in 0 .. NReg,
         NEW resolved \in BOOLEAN, Call(a, d, k, resolved)
  PROVE  IInv'
<1> DEFINE W == (d .. d + k) \cup (captured \cap Reassigned)
           L == Glob \cup Upv
<1>1. PICK o \in Outcomes(W, L) :
        /\ resolved => Satisfies(o.regs[d], Returns[source.regs[a]].type,
                                            Returns[source.regs[a]].typeinfo)
        /\ source' = After(source, o)
        /\ target' = After(target, o)
  BY DEF Call
<1>2. /\ rlist' = TrackCall(rlist, Here, a, d, k, resolved)
      /\ captured' = captured
      /\ d + k < NReg
  BY DEF Call
<1>3. /\ source \in Machine /\ rlist \in RegInfoList /\ Sound(rlist, source)
      /\ target = source /\ GlobalsOK(source.glob) /\ captured \subseteq Reg
  BY DEF IInv
<1>4. /\ d \in Reg /\ k \in Nat /\ W = d .. d + k /\ W \in SUBSET Reg /\ d \in W
  BY <1>2, RegAssumption DEF Reg
<1> HIDE DEF W, L
<1>5. /\ source' \in Machine
      /\ GlobalsOK(source'.glob)
      /\ \A r \in Reg \ W : source'.regs[r] = source.regs[r]
      /\ \A r \in W : source'.regs[r] = o.regs[r]
  <2> DEFINE n == After(source, o)
  <2>1. source \in Machine /\ GlobalsOK(source.glob)
    BY <1>3
  <2>2. W \in SUBSET Reg
    BY <1>4
  <2>3. n \in Machine /\ GlobalsOK(n.glob)
    BY <2>1, <2>2, AfterFact
  <2>4. \A r \in Reg \ W : n.regs[r] = source.regs[r]
    BY <2>1, <2>2, AfterFact
  <2>5. \A r \in W : n.regs[r] = o.regs[r]
    BY <2>1, <2>2, AfterFact
  <2>6. QED
    BY <1>1, <2>3, <2>4, <2>5
<1>6. rlist' \in RegInfoList /\ Sound(rlist', source')
  <2>1. source'.regs[d] = o.regs[d]
    BY <1>4, <1>5
  <2>2. QED
    BY <1>1, <1>2, <1>3, <1>4, <1>5, <2>1, TrackCallSound, HereAssumption
<1>7. QED
  BY <1>1, <1>2, <1>3, <1>5, <1>6 DEF IInv

\* An operator or index that runs a method which assigns to nothing we know.
LEMMA OverloadedSound ==
  ASSUME Reassigned = {}, Modified = {}, IInv, NEW a \in Reg, NEW b \in Reg, NEW c \in Reg,
         NEW index \in BOOLEAN, Overloaded(a, b, c, index)
  PROVE  IInv'
<1>1. PICK v \in Val, o \in Outcomes(captured \cap Reassigned, Modified) :
        /\ source' = SetReg(After(source, o), a, v)
        /\ target' = SetReg(After(target, o), a, v)
  BY DEF Overloaded
<1>2. /\ source.regs[b] \in Overloads
      /\ captured' = captured
      /\ rlist' = IF index THEN WriteValues(rlist, Here, {a}) ELSE TrackArith(rlist, Here, a, b, c)
  BY DEF Overloaded
<1>3. /\ source \in Machine /\ rlist \in RegInfoList /\ Sound(rlist, source)
      /\ target = source /\ GlobalsOK(source.glob) /\ captured \subseteq Reg
  BY DEF IInv
<1> DEFINE h == After(source, o)
<1>4. /\ h \in Machine /\ GlobalsOK(h.glob)
      /\ \A r \in Reg : h.regs[r] = source.regs[r]
      /\ h.glob = source.glob /\ h.upv = source.upv
  <2> DEFINE W == captured \cap Reassigned
  <2>1. W \in SUBSET Reg /\ o \in Outcomes(W, Modified)
    BY <1>3
  <2> HIDE DEF W
  <2>2. source \in Machine /\ GlobalsOK(source.glob)
    BY <1>3
  <2>3. h \in Machine /\ GlobalsOK(h.glob)
    BY <2>1, <2>2, AfterFact
  <2>4. \A r \in Reg \ W : h.regs[r] = source.regs[r]
    BY <2>1, <2>2, AfterFact
  <2>5. h.glob = source.glob /\ h.upv = source.upv
    BY <2>1, <2>2, AfterFact
  <2>6. QED
    BY <2>3, <2>4, <2>5 DEF W
<1> HIDE DEF h
<1>5. source' = SetReg(h, a, v)
  BY <1>1 DEF h
<1>6. /\ source' \in Machine /\ GlobalsOK(source'.glob) /\ SameBut({a}, source, source')
  BY <1>4, <1>5, SetRegMachine DEF SameBut
<1>7. rlist' \in RegInfoList /\ Sound(rlist', source')
  <2>1. CASE index
    BY <1>2, <1>3, <1>6, <2>1, WriteValuesSound, HereAssumption
  <2>2. CASE ~index
    <3>1. TypeOf[source.regs[b]] \notin {IntType, FloatType}
      BY <1>2, FrameAssumption
    <3>2. QED
      BY <1>2, <1>3, <1>6, <2>2, <3>1, TrackArithSound, HereAssumption
  <2>3. QED
    BY <2>1, <2>2
<1>8. QED
  BY <1>1, <1>2, <1>3, <1>6, <1>7 DEF IInv

LEMMA NextSound ==
  ASSUME Reassigned = {}, Modified = {}, IInv, [Next]_vars
  PROVE  IInv'
<1>1. ASSUME NEW a \in Reg, NEW b \in Reg, Move(a, b) PROVE IInv'
  BY <1>1, TurnSound DEF Move, Mov, WellFormed
<1>2. ASSUME NEW a \in Reg, NEW k \in Val, LoadConstant(a, k) PROVE IInv'
  BY <1>2, TurnSound DEF LoadConstant, Lct, WellFormed
<1>3. ASSUME NEW a \in Reg, NEW g \in Glob, LoadGlobal(a, g) PROVE IInv'
  BY <1>3, TurnSound DEF LoadGlobal, WellFormed
<1>4. ASSUME NEW a \in Reg, NEW g \in Glob, StoreGlobal(a, g) PROVE IInv'
  BY <1>4, StoreGlobalSound
<1>5. ASSUME NEW a \in Reg, NEW u \in Upv, LoadUpvalue(a, u) PROVE IInv'
  BY <1>5, TurnSound DEF LoadUpvalue, WellFormed
<1>6. ASSUME NEW a \in Reg, NEW u \in Upv, StoreUpvalue(u, a) PROVE IInv'
  BY <1>6, TurnSound DEF StoreUpvalue, WellFormed
<1>7. ASSUME NEW op \in {"arith", "compare"}, NEW a \in Reg, NEW b \in Reg, NEW c \in Reg,
             Operator(op, a, b, c)
      PROVE  IInv'
  BY <1>7, TurnSound DEF Operator, WellFormed
<1>8. ASSUME NEW a \in Reg, PrintValue(a) PROVE IInv'
  BY <1>8, TurnSound DEF PrintValue, WellFormed
<1>9. ASSUME NEW a \in Reg, CloseUpvalues(a) PROVE IInv'
  BY <1>9 DEF CloseUpvalues, IInv
<1>10. CASE UNCHANGED vars
  BY <1>10 DEF vars, IInv
<1>11. \A a \in Reg : a + 1 \in Reg \cup {NReg}
  BY RegAssumption DEF Reg
<1>12. CASE Next
  BY <1>1, <1>2, <1>3, <1>4, <1>5, <1>6, <1>7, <1>8, <1>9, <1>11, <1>12, LoadElementSound,
     OverloadedSound, CallSound, MakeClosureSound DEF Next
<1>13. QED
  BY <1>10, <1>12

LEMMA Inductive ==
  ASSUME Reassigned = {}, Modified = {}
  PROVE  Spec => []IInv
<1>1. Init => IInv
  BY InitSound
<1>2. IInv /\ [Next]_vars => IInv'
  BY NextSound
<1>3. QED
  BY <1>1, <1>2, PTL DEF Spec

-----------------------------------------------------------------------------
(***************************************************************************)
(* The theorems.                                                           *)
(***************************************************************************)
\* Facts and machines keep their form: tracking never leaves a fact that names
\* a location of the wrong kind.
THEOREM TypeCorrect ==
  ASSUME Reassigned = {}, Modified = {}
  PROVE  Spec => []TypeOK
<1>1. IInv => TypeOK
  BY DEF IInv, TypeOK, Sound
<1>2. QED
  BY <1>1, Inductive, PTL

\* What duplicate load elimination, constant folding and call resolution read
\* off a fact is what the register holds.
THEOREM MirrorsAreSound ==
  ASSUME Reassigned = {}, Modified = {}
  PROVE  Spec => []MirrorsSound
<1>1. IInv => MirrorsSound
  BY DEF IInv, MirrorsSound, Sound
<1>2. QED
  BY <1>1, Inductive, PTL

\* Registers recorded as aliases hold the same value.
THEOREM AliasesAreSound ==
  ASSUME Reassigned = {}, Modified = {}
  PROVE  Spec => []AliasesSound
<1>1. IInv => AliasesSound
  BY DEF IInv, AliasesSound, Sound
<1>2. QED
  BY <1>1, Inductive, PTL

\* The class on record for a register is the class of its value.
THEOREM TypesAreSound ==
  ASSUME Reassigned = {}, Modified = {}
  PROVE  Spec => []TypesSound
<1>1. IInv => TypesSound
  BY DEF IInv, TypesSound, Sound
<1>2. QED
  BY <1>1, Inductive, PTL

\* Folding, register replacement, the removal of self copies and the removal
\* of duplicate loads keep the meaning of a block.
THEOREM RewritesKeepMeaning ==
  ASSUME Reassigned = {}, Modified = {}
  PROVE  Spec => []RewritesPreserve
<1>1. IInv => RewritesPreserve
  BY DEF IInv, RewritesPreserve
<1>2. QED
  BY <1>1, Inductive, PTL

\* Every register an alias walk may stop at holds the value it stands in for.
THEOREM OriginalsAreSound ==
  ASSUME Reassigned = {}, Modified = {}
  PROVE  Spec => []OriginalsSound
<1>1. IInv => OriginalsSound
  BY ChainSound DEF IInv, OriginalsSound, WalkEnds
<1>2. QED
  BY <1>1, Inductive, PTL

-----------------------------------------------------------------------------
(***************************************************************************)
(* Walks over aliases end.                                                 *)
(***************************************************************************)

LEMMA TurnAcyclic ==
  ASSUME IInv, Acyclic(rlist), NEW i, WellFormed(i), ~SelfCopy(i), Turn(i)
  PROVE  Acyclic(rlist')
<1>1. PICK new \in {i} \cup (IF Returning(rlist, i) THEN {Rewrite(rlist, i, {Here})} ELSE {}) :
        rlist' = Track(rlist, Here, new)
  BY DEF Turn
<1>2. WellFormed(new) /\ ~SelfCopy(new)
  BY <1>1, RewriteSound, RewriteNoSelfCopy DEF IInv
<1>3. QED
  BY <1>1, <1>2, TrackAcyclic, HereAssumption DEF IInv

LEMMA NextAcyclic ==
  ASSUME AllowSelfMove = FALSE, IInv, Acyclic(rlist), [Next]_vars
  PROVE  Acyclic(rlist')
<1> USE HereAssumption DEF IInv
<1>1. ASSUME NEW a \in Reg, NEW b \in Reg, Move(a, b) PROVE Acyclic(rlist')
  BY <1>1, TurnAcyclic DEF Move, Mov, WellFormed, SelfCopy
<1>2. ASSUME NEW a \in Reg, NEW k \in Val, LoadConstant(a, k) PROVE Acyclic(rlist')
  BY <1>2, TurnAcyclic DEF LoadConstant, Lct, WellFormed, SelfCopy
<1>3. ASSUME NEW a \in Reg, NEW g \in Glob, LoadGlobal(a, g) PROVE Acyclic(rlist')
  BY <1>3, TurnAcyclic DEF LoadGlobal, WellFormed, SelfCopy
<1>4. ASSUME NEW a \in Reg, NEW g \in Glob, StoreGlobal(a, g) PROVE Acyclic(rlist')
  <2>1. rlist' = Invalidate(rlist, "global", g)
    BY <1>4 DEF StoreGlobal
  <2>2. \A r \in Reg : rlist'[r].alias \in {rlist[r].alias, NoReg}
    BY <2>1, GivenUpAliases DEF RegInfoList
  <2>3. QED
    BY <2>2, FewerAliases
<1>5. ASSUME NEW a \in Reg, NEW u \in Upv, LoadUpvalue(a, u) PROVE Acyclic(rlist')
  BY <1>5, TurnAcyclic DEF LoadUpvalue, WellFormed, SelfCopy
<1>6. ASSUME NEW a \in Reg, NEW u \in Upv, StoreUpvalue(u, a) PROVE Acyclic(rlist')
  BY <1>6, TurnAcyclic DEF StoreUpvalue, WellFormed, SelfCopy
<1>7. ASSUME NEW op \in {"arith", "compare"}, NEW a \in Reg, NEW b \in Reg, NEW c \in Reg,
             Operator(op, a, b, c)
      PROVE  Acyclic(rlist')
  BY <1>7, TurnAcyclic DEF Operator, WellFormed, SelfCopy
<1>8. ASSUME NEW a \in Reg, PrintValue(a) PROVE Acyclic(rlist')
  BY <1>8, TurnAcyclic DEF PrintValue, WellFormed, SelfCopy
<1>9. ASSUME NEW W, rlist' = WriteValues(rlist, Here, W) PROVE Acyclic(rlist')
  <2>1. \A r \in Reg : rlist'[r].alias \in {rlist[r].alias, NoReg}
    BY <1>9, WriteValuesAliases
  <2>2. QED
    BY <2>1, FewerAliases
<1>10. ASSUME NEW a \in Reg, NEW b \in Reg, LoadElement(a, b) PROVE Acyclic(rlist')
  BY <1>9, <1>10 DEF LoadElement
<1>11. ASSUME NEW a \in Reg, NEW b \in Reg, NEW c \in Reg, NEW index \in BOOLEAN,
              Overloaded(a, b, c, index)
       PROVE  Acyclic(rlist')
  BY <1>9, <1>11, TrackArithAcyclic DEF Overloaded
<1>12. ASSUME NEW a \in Reg, NEW d \in {a, a + 1}, NEW k \in 0 .. NReg,
              NEW resolved \in BOOLEAN, Call(a, d, k, resolved)
       PROVE  Acyclic(rlist')
  <2>1. d \in Reg
    BY <1>12, RegAssumption DEF Call, Reg
  <2>2. QED
    BY <1>12, <2>1, TrackCallAcyclic DEF Call
<1>13. ASSUME NEW a \in Reg, NEW P \in Prototypes, MakeClosure(a, P) PROVE Acyclic(rlist')
  <2> DEFINE w == WriteValues(rlist, Here, {a})
  <2>1. rlist' = SetTypeInfo(w, a, ClosureType, EXACT)
    BY <1>13 DEF MakeClosure, WriteTyped
  <2>2. \A r \in Reg : w[r] \in RegInfo /\ w[r].alias \in {rlist[r].alias, NoReg}
    BY WriteValuesAliases
  <2>3. w = [r \in Reg |-> w[r]]
    BY DEF WriteValues
  <2> HIDE DEF w
  <2>4. \A r \in Reg : rlist'[r].alias = w[r].alias
    BY <2>1, <2>2, <2>3, SetTypeInfoAliases
  <2>5. QED
    BY <2>2, <2>4, FewerAliases
<1>14. ASSUME NEW a \in Reg, CloseUpvalues(a) PROVE Acyclic(rlist')
  BY <1>14 DEF CloseUpvalues
<1>15. CASE UNCHANGED vars
  BY <1>15 DEF vars
<1>16. CASE Next
  BY <1>1, <1>2, <1>3, <1>4, <1>5, <1>6, <1>7, <1>8, <1>10, <1>11, <1>12, <1>13, <1>14,
     <1>16 DEF Next
<1>17. QED
  BY <1>15, <1>16

\* In code without self moves, tracing a register back through its aliases comes
\* to an end. With them it need not: see MCSelfMove.cfg.
THEOREM WalksEnd ==
  ASSUME Reassigned = {}, Modified = {}, AllowSelfMove = FALSE
  PROVE  Spec => []AliasWalksEnd
<1>1. Init => Acyclic(rlist)
  <2>1. Init => \A r \in Reg : rlist[r].alias = NoReg
    BY InputAssumption DEF Init
  <2>2. NoReg \notin Reg
    BY DEF NoReg, Reg
  <2>3. QED
    BY <2>1, <2>2 DEF Acyclic
<1>2. IInv /\ Acyclic(rlist) /\ [Next]_vars => Acyclic(rlist)'
  BY NextAcyclic
<1>3. IInv /\ Acyclic(rlist) => AliasWalksEnd
  BY AcyclicEnds DEF IInv, AliasWalksEnd
<1>4. QED
  BY <1>1, <1>2, <1>3, Inductive, PTL DEF Spec
=============================================================================
