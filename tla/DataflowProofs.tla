--------------------------- MODULE DataflowProofs ---------------------------
(***************************************************************************)
(* The dataflow analysis of a function of any size: its types, that it     *)
(* stops at a fixed point, and that what it found out is true of every     *)
(* machine that runs the function, along every path; and where the facts   *)
(* of a block come from as a walk goes over it.                            *)
(***************************************************************************)
EXTENDS Dataflow, StrategiesProofs, ReachedProofs, SequenceTheorems

-----------------------------------------------------------------------------
(***************************************************************************)
(* What tracking an instruction does to facts, whatever they are about.    *)
(***************************************************************************)
Facts(rl) == rl \in RegInfoList /\ \A r \in Reg : InRange(rl[r])

\* A fact that mirrors a global or an upvalue.
Mirrored(f) == f.contents \in {"global", "upvalue"}

MirrorsNone(rl) == \A r \in Reg : ~Mirrored(rl[r])

\* Facts tl come from facts rl by instruction pc: it is the source of those it
\* made, and unless it is a load there are no mirrors where there were none.
Follows(rl, tl, pc, load) ==
  /\ Facts(tl)
  /\ \A r \in Reg : tl[r].iindx \in {rl[r].iindx, NoPc, pc}
  /\ load \/ (MirrorsNone(rl) => MirrorsNone(tl))

\* Facts changed one by one.
LEMMA FollowsIf ==
  ASSUME NEW rl, Facts(rl), NEW tl, NEW pc \in Pc, NEW load \in BOOLEAN,
         tl = [r \in Reg |-> tl[r]],
         \A r \in Reg : /\ tl[r] \in RegInfo /\ InRange(tl[r])
                        /\ tl[r].iindx \in {rl[r].iindx, NoPc, pc}
                        /\ Mirrored(tl[r]) => load \/ \E x \in Reg : Mirrored(rl[x])
  PROVE  Follows(rl, tl, pc, load)
<1>1. tl \in RegInfoList
  BY DEF RegInfoList
<1>2. load \/ (MirrorsNone(rl) => MirrorsNone(tl))
  BY DEF MirrorsNone
<1> QED BY <1>1, <1>2 DEF Follows, Facts

\* A list that follows one that follows.
LEMMA FollowsOn ==
  ASSUME NEW rl, NEW tl, NEW ul, NEW pc, NEW load \in BOOLEAN,
         Follows(rl, tl, pc, load), Follows(tl, ul, pc, load)
  PROVE  Follows(rl, ul, pc, load)
<1>1. \A r \in Reg : ul[r].iindx \in {rl[r].iindx, NoPc, pc}
  BY DEF Follows
<1> QED BY <1>1 DEF Follows

\* The single facts that tracking makes of a fact.
LEMMA NewFacts ==
  ASSUME NEW f \in RegInfo, InRange(f)
  PROVE  /\ InRange(ClearAlias(f)) /\ ClearAlias(f).iindx = f.iindx
         /\ Mirrored(ClearAlias(f)) <=> Mirrored(f)
         /\ InRange(Generalize(f)) /\ Generalize(f).iindx = NoPc /\ ~Mirrored(Generalize(f))
         /\ \A type \in Type \cup {NoType}, info \in TypeInfo :
              /\ TypedFact(f, type, info) \in RegInfo /\ InRange(TypedFact(f, type, info))
              /\ TypedFact(f, type, info).iindx = f.iindx
              /\ Mirrored(TypedFact(f, type, info)) <=> Mirrored(f)
<1>1. /\ InRange(ClearAlias(f)) /\ ClearAlias(f).iindx = f.iindx
      /\ Mirrored(ClearAlias(f)) <=> Mirrored(f)
  BY DEF ClearAlias, InRange, Mirrored, RegInfo
<1>2. InRange(Generalize(f)) /\ Generalize(f).iindx = NoPc /\ ~Mirrored(Generalize(f))
  BY DEF Generalize, ClearAlias, ClearSource, ValueOf, InRange, Mirrored, RegInfo
<1>3. ASSUME NEW type \in Type \cup {NoType}, NEW info \in TypeInfo
      PROVE  /\ TypedFact(f, type, info) \in RegInfo /\ InRange(TypedFact(f, type, info))
             /\ TypedFact(f, type, info).iindx = f.iindx
             /\ Mirrored(TypedFact(f, type, info)) <=> Mirrored(f)
  <2> DEFINE tf == TypedFact(f, type, info)
             ct == IF f.contents = "value" THEN ValueOf(type) ELSE f.contents
             ti == IF type = NoType THEN UNKNOWN ELSE info
  <2>1. tf = [f EXCEPT !.type = type, !.typeinfo = ti, !.contents = ct]
    BY DEF TypedFact
  <2>2. ct \in Contents /\ ti \in TypeInfo
    BY DEF ValueOf, RegInfo, Contents, TypeInfo, UNKNOWN
  <2>3. \/ ct = f.contents
        \/ f.contents = "value" /\ ct \in {"value", "typedvalue"}
    BY DEF ValueOf
  <2> HIDE DEF ct, ti
  <2>4. /\ tf \in RegInfo /\ tf.contents = ct /\ tf.indx = f.indx /\ tf.iindx = f.iindx
    BY <2>1, <2>2 DEF RegInfo
  <2> HIDE DEF tf
  <2>5. InRange(tf) /\ (Mirrored(tf) <=> Mirrored(f))
    BY <2>3, <2>4 DEF InRange, Mirrored
  <2> QED BY <2>4, <2>5 DEF tf
<1> QED BY <1>1, <1>2, <1>3

\* A fact that is written.
LEMMA WrittenFacts ==
  ASSUME NEW pc \in Pc, NEW contents \in Contents, NEW indx \in Index \cup {NoIndex},
         contents = "constant" => indx \in Val,
         contents = "global" => indx \in Glob,
         contents = "upvalue" => indx \in Upv
  PROVE  /\ WrittenFact(pc, contents, indx) \in RegInfo
         /\ InRange(WrittenFact(pc, contents, indx))
         /\ WrittenFact(pc, contents, indx).iindx = pc
         /\ Mirrored(WrittenFact(pc, contents, indx)) => contents \in {"global", "upvalue"}
<1> DEFINE wf == WrittenFact(pc, contents, indx)
<1>1. wf \in RegInfo /\ wf.contents = contents /\ wf.indx = indx
  BY WrittenFactFact
<1>2. wf.iindx = pc
  BY DEF WrittenFact, InitFact
<1> HIDE DEF wf
<1>3. InRange(wf) /\ (Mirrored(wf) => contents \in {"global", "upvalue"})
  BY <1>1 DEF InRange, Mirrored
<1> QED BY <1>1, <1>2, <1>3 DEF wf

LEMMA WriteValuesFollows ==
  ASSUME NEW rl, Facts(rl), NEW pc \in Pc, NEW W \in SUBSET Reg, NEW load \in BOOLEAN
  PROVE  Follows(rl, WriteValues(rl, pc, W), pc, load)
<1> DEFINE wl == WriteValues(rl, pc, W)
           wf == WrittenFact(pc, "value", NoIndex)
<1>1. wl = [r \in Reg |-> wl[r]] /\ \A r \in Reg : wl[r] \in {wf, ClearAlias(rl[r]), rl[r]}
  BY DEF WriteValues
<1>2. wf \in RegInfo /\ InRange(wf) /\ wf.iindx = pc /\ ~Mirrored(wf)
  BY WrittenFacts DEF Contents
<1>3. ASSUME NEW r \in Reg
      PROVE  /\ rl[r] \in RegInfo /\ InRange(rl[r])
             /\ ClearAlias(rl[r]) \in RegInfo /\ InRange(ClearAlias(rl[r]))
             /\ ClearAlias(rl[r]).iindx = rl[r].iindx
             /\ Mirrored(ClearAlias(rl[r])) <=> Mirrored(rl[r])
  BY NewFacts, ClearAliasFact DEF Facts, RegInfoList
<1> HIDE DEF wl, wf
<1>4. ASSUME NEW r \in Reg
      PROVE  /\ wl[r] \in RegInfo /\ InRange(wl[r])
             /\ wl[r].iindx \in {rl[r].iindx, NoPc, pc}
             /\ Mirrored(wl[r]) => load \/ \E x \in Reg : Mirrored(rl[x])
  <2>1. wl[r] = wf \/ wl[r] = ClearAlias(rl[r]) \/ wl[r] = rl[r]
    BY <1>1
  <2> QED BY <1>2, <1>3, <2>1
<1> QED BY <1>1, <1>4, FollowsIf DEF wl

LEMMA WriteFollows ==
  ASSUME NEW rl, Facts(rl), NEW pc \in Pc, NEW a \in Reg, NEW load \in BOOLEAN,
         NEW contents \in Contents, NEW indx \in Index \cup {NoIndex},
         contents = "constant" => indx \in Val,
         contents = "global" => indx \in Glob,
         contents = "upvalue" => indx \in Upv,
         contents \in {"global", "upvalue"} => load
  PROVE  Follows(rl, Write(rl, pc, a, contents, indx), pc, load)
<1> DEFINE wl == Write(rl, pc, a, contents, indx)
           wf == WrittenFact(pc, contents, indx)
<1>1. wl = [r \in Reg |-> wl[r]] /\ \A r \in Reg : wl[r] \in {wf, ClearAlias(rl[r]), rl[r]}
  BY DEF Write, InvalidateAliases
<1>2. wf \in RegInfo /\ InRange(wf) /\ wf.iindx = pc /\ (Mirrored(wf) => load)
  BY WrittenFacts
<1>3. ASSUME NEW r \in Reg
      PROVE  /\ rl[r] \in RegInfo /\ InRange(rl[r])
             /\ ClearAlias(rl[r]) \in RegInfo /\ InRange(ClearAlias(rl[r]))
             /\ ClearAlias(rl[r]).iindx = rl[r].iindx
             /\ Mirrored(ClearAlias(rl[r])) <=> Mirrored(rl[r])
  BY NewFacts, ClearAliasFact DEF Facts, RegInfoList
<1> HIDE DEF wl, wf
<1>4. ASSUME NEW r \in Reg
      PROVE  /\ wl[r] \in RegInfo /\ InRange(wl[r])
             /\ wl[r].iindx \in {rl[r].iindx, NoPc, pc}
             /\ Mirrored(wl[r]) => load \/ \E x \in Reg : Mirrored(rl[x])
  <2>1. wl[r] = wf \/ wl[r] = ClearAlias(rl[r]) \/ wl[r] = rl[r]
    BY <1>1
  <2> QED BY <1>2, <1>3, <2>1
<1> QED BY <1>1, <1>4, FollowsIf DEF wl

LEMMA CopyFollows ==
  ASSUME NEW rl, Facts(rl), NEW pc \in Pc, NEW a \in Reg, NEW b \in Reg, NEW load \in BOOLEAN
  PROVE  Follows(rl, CopyRegister(rl, pc, a, b), pc, load)
<1> DEFINE cl == InvalidateAliases(rl, a)
           wl == CopyRegister(rl, pc, a, b)
           cf == [cl[b] EXCEPT !.usage = "written", !.iindx = pc, !.alias = b]
<1>1. wl = [r \in Reg |-> wl[r]] /\ \A r \in Reg : wl[r] = IF r = a THEN cf ELSE cl[r]
  BY DEF CopyRegister, InvalidateAliases
<1>2. ASSUME NEW r \in Reg
      PROVE  /\ cl[r] \in RegInfo /\ InRange(cl[r])
             /\ cl[r].iindx = rl[r].iindx /\ (Mirrored(cl[r]) => Mirrored(rl[r]))
  BY NewFacts, ClearAliasFact DEF Facts, RegInfoList, InvalidateAliases
<1> HIDE DEF cl
<1>3. cf \in RegInfo /\ InRange(cf) /\ cf.iindx = pc /\ (Mirrored(cf) => Mirrored(rl[b]))
  BY <1>2 DEF RegInfo, Usage, InRange, Mirrored
<1> HIDE DEF wl, cf
<1>4. ASSUME NEW r \in Reg
      PROVE  /\ wl[r] \in RegInfo /\ InRange(wl[r])
             /\ wl[r].iindx \in {rl[r].iindx, NoPc, pc}
             /\ Mirrored(wl[r]) => load \/ \E x \in Reg : Mirrored(rl[x])
  BY <1>1, <1>2, <1>3
<1> QED BY <1>1, <1>4, FollowsIf DEF wl

LEMMA SetTypeInfoFollows ==
  ASSUME NEW rl, Facts(rl), NEW pc \in Pc, NEW a \in Reg, NEW load \in BOOLEAN,
         NEW type \in Type \cup {NoType}, NEW info \in TypeInfo
  PROVE  Follows(rl, SetTypeInfo(rl, a, type, info), pc, load)
<1> DEFINE wl == SetTypeInfo(rl, a, type, info)
           tf == TypedFact(rl[a], type, info)
<1>1. wl = [r \in Reg |-> wl[r]] /\ \A r \in Reg : wl[r] = IF r = a THEN tf ELSE rl[r]
  BY DEF SetTypeInfo, RegInfoList, Facts
<1>2. \A r \in Reg : rl[r] \in RegInfo /\ InRange(rl[r])
  BY DEF Facts, RegInfoList
<1>3. tf \in RegInfo /\ InRange(tf) /\ tf.iindx = rl[a].iindx /\ (Mirrored(tf) => Mirrored(rl[a]))
  BY <1>2, NewFacts
<1> HIDE DEF wl, tf
<1>4. ASSUME NEW r \in Reg
      PROVE  /\ wl[r] \in RegInfo /\ InRange(wl[r])
             /\ wl[r].iindx \in {rl[r].iindx, NoPc, pc}
             /\ Mirrored(wl[r]) => load \/ \E x \in Reg : Mirrored(rl[x])
  BY <1>1, <1>2, <1>3
<1> QED BY <1>1, <1>4, FollowsIf DEF wl

\* Facts kept or given up.
LEMMA GiveUpFollows ==
  ASSUME NEW rl, Facts(rl), NEW pc \in Pc, NEW load \in BOOLEAN, NEW wl,
         wl = [r \in Reg |-> wl[r]],
         \A r \in Reg : wl[r] = rl[r] \/ wl[r] = Generalize(rl[r])
  PROVE  Follows(rl, wl, pc, load)
<1>1. ASSUME NEW r \in Reg
      PROVE  /\ rl[r] \in RegInfo /\ InRange(rl[r])
             /\ Generalize(rl[r]) \in RegInfo /\ InRange(Generalize(rl[r]))
             /\ Generalize(rl[r]).iindx = NoPc /\ ~Mirrored(Generalize(rl[r]))
  BY NewFacts, GeneralizeFact DEF Facts, RegInfoList
<1>2. ASSUME NEW r \in Reg
      PROVE  /\ wl[r] \in RegInfo /\ InRange(wl[r])
             /\ wl[r].iindx \in {rl[r].iindx, NoPc, pc}
             /\ Mirrored(wl[r]) => load \/ \E x \in Reg : Mirrored(rl[x])
  BY <1>1
<1> QED BY <1>2, FollowsIf

IsLoad(i) == i[1] \in {"lgl", "lup"}

\* Whatever the instruction, its tracking function keeps facts of the kinds there
\* are and names no other source than the instruction.
LEMMA TrackFollows ==
  ASSUME NEW rl, Facts(rl), NEW pc \in Pc, NEW i, IsInstruction(i)
  PROVE  Follows(rl, TrackAny(rl, pc, i), pc, IsLoad(i))
<1> DEFINE load == IsLoad(i)
<1>0. load \in BOOLEAN
  BY DEF IsLoad
<1>t. \A v \in Val : TypeOf[v] \in Type /\ Returns[v].type \in Type \cup {NoType}
                                        /\ Returns[v].typeinfo \in TypeInfo
  BY ValueAssumption DEF TypeFact
<1>e. EXACT \in TypeInfo /\ {"value", "constant", "global", "upvalue"} \subseteq Contents
  BY DEF TypeInfo, Contents
<1>k. i[1] # "call" => TrackAny(rl, pc, i) = Track(rl, pc, i)
  BY DEF TrackAny
<1>1. CASE i[1] = "mov" /\ i[2] \in Reg /\ i[3] \in Reg
  BY <1>0, <1>1, <1>k, CopyFollows DEF Track
<1>2. CASE i[1] = "lct" /\ i[2] \in Reg /\ i[3] \in Val
  <2> DEFINE w == Write(rl, pc, i[2], "constant", i[3])
  <2>1. Follows(rl, w, pc, load)
    BY <1>0, <1>2, <1>e, IndexKinds, WriteFollows
  <2>2. TrackAny(rl, pc, i) = SetTypeInfo(w, i[2], TypeOf[i[3]], EXACT)
    BY <1>2, <1>k DEF Track, TrackLct
  <2> HIDE DEF w
  <2>3. Follows(w, SetTypeInfo(w, i[2], TypeOf[i[3]], EXACT), pc, load)
    BY <1>0, <1>2, <1>t, <1>e, <2>1, SetTypeInfoFollows DEF Follows
  <2> HIDE DEF load
  <2>4. Follows(rl, TrackAny(rl, pc, i), pc, load)
    BY <1>0, <2>1, <2>2, <2>3, FollowsOn
  <2> QED BY <2>4 DEF load
<1>3. CASE i[1] = "lgl" /\ i[2] \in Reg /\ i[3] \in Glob
  <2> DEFINE w == Write(rl, pc, i[2], "global", i[3])
             t == GlobalType[i[3]]
  <2>0. load /\ t.type \in Type \cup {NoType} /\ t.typeinfo \in TypeInfo
    BY <1>3, ValueAssumption DEF IsLoad, TypeFact
  <2>1. Follows(rl, w, pc, load)
    BY <1>0, <1>3, <1>e, <2>0, IndexKinds, WriteFollows
  <2>2. TrackAny(rl, pc, i) = SetTypeInfo(w, i[2], t.type, t.typeinfo)
    BY <1>3, <1>k DEF Track, TrackLgl
  <2> HIDE DEF w, t
  <2>3. Follows(w, SetTypeInfo(w, i[2], t.type, t.typeinfo), pc, load)
    BY <1>0, <1>3, <2>0, <2>1, SetTypeInfoFollows DEF Follows
  <2> HIDE DEF load
  <2>4. Follows(rl, TrackAny(rl, pc, i), pc, load)
    BY <1>0, <2>1, <2>2, <2>3, FollowsOn
  <2> QED BY <2>4 DEF load
<1>4. CASE i[1] = "lup" /\ i[2] \in Reg /\ i[3] \in Upv
  <2>1. load
    BY <1>4 DEF IsLoad
  <2> QED BY <1>0, <1>4, <1>e, <1>k, <2>1, IndexKinds, WriteFollows DEF Track
<1>5. CASE i[1] = "sup" /\ i[2] \in Upv /\ i[3] \in Reg
  <2> DEFINE w == Invalidate(rl, "upvalue", i[2])
  <2>1. w = [r \in Reg |-> w[r]] /\ \A r \in Reg : w[r] = rl[r] \/ w[r] = Generalize(rl[r])
    BY DEF Invalidate
  <2>2. TrackAny(rl, pc, i) = w
    BY <1>5, <1>k DEF Track
  <2> HIDE DEF w
  <2> QED BY <1>0, <2>1, <2>2, GiveUpFollows
<1>6. CASE i[1] = "sgl" /\ i[2] \in Reg /\ i[3] \in Glob
  <2> DEFINE w == Invalidate(rl, "global", i[3])
  <2>1. w = [r \in Reg |-> w[r]] /\ \A r \in Reg : w[r] = rl[r] \/ w[r] = Generalize(rl[r])
    BY DEF Invalidate
  <2>2. TrackAny(rl, pc, i) = w
    BY <1>6, <1>k DEF Track
  <2> HIDE DEF w
  <2> QED BY <1>0, <2>1, <2>2, GiveUpFollows
<1>7. CASE i[1] = "arith" /\ i[2] \in Reg /\ i[3] \in Reg /\ i[4] \in Reg
  <2> DEFINE w == WriteValues(rl, pc, {i[2]})
  <2>1. Follows(rl, w, pc, load)
    BY <1>0, <1>7, WriteValuesFollows
  <2>2. \/ TrackAny(rl, pc, i) = w
        \/ TrackAny(rl, pc, i) = SetTypeInfo(w, i[2], IntType, EXACT)
        \/ TrackAny(rl, pc, i) = SetTypeInfo(w, i[2], FloatType, EXACT)
    BY <1>7, <1>k DEF Track, TrackArith
  <2> HIDE DEF w
  <2>3. \A t \in {IntType, FloatType} : Follows(w, SetTypeInfo(w, i[2], t, EXACT), pc, load)
    <3>1. Facts(w) /\ {IntType, FloatType} \subseteq Type /\ EXACT \in TypeInfo
      BY <1>e, <2>1, NumberAssumption DEF Follows
    <3> HIDE DEF load
    <3>2. SUFFICES ASSUME NEW t \in Type PROVE Follows(w, SetTypeInfo(w, i[2], t, EXACT), pc, load)
      BY <3>1
    <3> QED BY ONLY <1>0, <1>7, <3>1, SetTypeInfoFollows
  <2> HIDE DEF load
  <2>4. Follows(rl, TrackAny(rl, pc, i), pc, load)
    BY <1>0, <2>1, <2>2, <2>3, FollowsOn
  <2> QED BY <2>4 DEF load
<1>8. CASE i[1] = "compare" /\ i[2] \in Reg /\ i[3] \in Reg /\ i[4] \in Reg
  <2> DEFINE w == WriteValues(rl, pc, {i[2]})
  <2>1. Follows(rl, w, pc, load)
    BY <1>0, <1>8, WriteValuesFollows
  <2>2. TrackAny(rl, pc, i) = SetTypeInfo(w, i[2], BoolType, EXACT)
    BY <1>8, <1>k DEF Track, WriteTyped
  <2> HIDE DEF w
  <2>3. Follows(w, SetTypeInfo(w, i[2], BoolType, EXACT), pc, load)
    BY <1>0, <1>8, <1>e, <2>1, NumberAssumption, SetTypeInfoFollows DEF Follows
  <2> HIDE DEF load
  <2>4. Follows(rl, TrackAny(rl, pc, i), pc, load)
    BY <1>0, <2>1, <2>2, <2>3, FollowsOn
  <2> QED BY <2>4 DEF load
<1>9. CASE i[1] \in {"print", "nop"}
  <2>1. TrackAny(rl, pc, i) = rl
    BY <1>9, <1>k DEF Track
  <2> QED BY <2>1 DEF Follows
<1>10. CASE i[1] = "call" /\ i[2] \in Reg /\ i[3] \in Nat /\ i[2] + i[3] < NReg
  <2> DEFINE gl == GeneralizeContent(rl, "global")
             kl == GeneralizeContent(gl, "upvalue")
             W  == i[2] .. i[2] + i[3]
             w  == WriteValues(kl, pc, W)
             c  == kl[i[2]].indx
  <2>1. Follows(rl, gl, pc, load)
    <3>1. gl = [r \in Reg |-> gl[r]] /\ \A r \in Reg : gl[r] = rl[r] \/ gl[r] = Generalize(rl[r])
      BY DEF GeneralizeContent
    <3> HIDE DEF gl
    <3> QED BY <1>0, <3>1, GiveUpFollows
  <2>2. Follows(gl, kl, pc, load)
    <3>1. kl = [r \in Reg |-> kl[r]] /\ \A r \in Reg : kl[r] = gl[r] \/ kl[r] = Generalize(gl[r])
      BY DEF GeneralizeContent
    <3> HIDE DEF kl, gl
    <3> QED BY <1>0, <2>1, <3>1, GiveUpFollows DEF Follows
  <2>3. W \in SUBSET Reg
    BY <1>10, RegAssumption DEF Reg
  <2>4. Follows(kl, w, pc, load)
    <3> HIDE DEF kl, W
    <3> QED BY <1>0, <2>2, <2>3, WriteValuesFollows DEF Follows
  <2>5. \/ TrackAny(rl, pc, i) = w
        \/ /\ IsConstant(kl, i[2])
           /\ TrackAny(rl, pc, i) = SetTypeInfo(w, i[2], Returns[c].type, Returns[c].typeinfo)
    BY <1>10 DEF TrackAny, TrackCall
  <2> HIDE DEF w, kl, gl
  <2>6. IsConstant(kl, i[2]) => c \in Val
    BY <1>10, <2>2 DEF IsConstant, Follows, Facts, InRange
  <2>7. IsConstant(kl, i[2]) =>
          Follows(w, SetTypeInfo(w, i[2], Returns[c].type, Returns[c].typeinfo), pc, load)
    BY <1>0, <1>10, <1>t, <2>4, <2>6, SetTypeInfoFollows DEF Follows
  <2> HIDE DEF load
  <2>8. Follows(rl, w, pc, load)
    BY <1>0, <2>1, <2>2, <2>4, FollowsOn
  <2>9. Follows(rl, TrackAny(rl, pc, i), pc, load)
    BY <1>0, <2>5, <2>7, <2>8, FollowsOn
  <2> QED BY <2>9 DEF load
<1> QED
  BY <1>1, <1>2, <1>3, <1>4, <1>5, <1>6, <1>7, <1>8, <1>9, <1>10 DEF IsInstruction, WellFormed

\* Counting the uses of an instruction changes nothing but uses.
LEMMA MarkUsedFollows ==
  ASSUME NEW rl, Facts(rl), NEW pc \in Pc, NEW i, NEW load \in BOOLEAN
  PROVE  /\ Follows(rl, MarkUsed(rl, i), pc, load)
         /\ \A r \in Reg : /\ Alike(MarkUsed(rl, i)[r], rl[r])
                           /\ MarkUsed(rl, i)[r].alias = rl[r].alias
<1> DEFINE wl == MarkUsed(rl, i)
<1>1. wl = [r \in Reg |-> wl[r]]
  BY DEF MarkUsed
<1>2. \A u \in Usage : MergeUsage(u, "read") \in Usage
  BY DEF MergeUsage, Usage
<1>3. ASSUME NEW r \in Reg
      PROVE  /\ wl[r] \in RegInfo /\ InRange(wl[r]) /\ wl[r].iindx = rl[r].iindx
             /\ Mirrored(wl[r]) => Mirrored(rl[r])
             /\ Alike(wl[r], rl[r]) /\ wl[r].alias = rl[r].alias
  <2>1. rl[r] \in RegInfo /\ InRange(rl[r]) /\ MergeUsage(rl[r].usage, "read") \in Usage
    BY <1>2 DEF Facts, RegInfoList, RegInfo
  <2>2. wl[r] = IF r \in Used(i) THEN [rl[r] EXCEPT !.usage = MergeUsage(@, "read")] ELSE rl[r]
    BY DEF MarkUsed
  <2> HIDE DEF wl
  <2> QED BY <2>1, <2>2 DEF RegInfo, InRange, Mirrored, Alike
<1> HIDE DEF wl
<1>4. Follows(rl, wl, pc, load)
  <2>1. ASSUME NEW r \in Reg
        PROVE  /\ wl[r] \in RegInfo /\ InRange(wl[r])
               /\ wl[r].iindx \in {rl[r].iindx, NoPc, pc}
               /\ Mirrored(wl[r]) => load \/ \E x \in Reg : Mirrored(rl[x])
    BY <1>3
  <2> QED BY <1>1, <2>1, FollowsIf
<1> QED BY <1>3, <1>4 DEF wl

-----------------------------------------------------------------------------
(***************************************************************************)
(* Joins. A join says no more than either of the facts it is of.           *)
(***************************************************************************)
\* Whatever fact f says, fact g says too.
Weaker(f, g) ==
  /\ HasIndexedContents(f) => f.contents = g.contents /\ f.indx = g.indx
  /\ f.iindx \in {NoPc, g.iindx}
  /\ \A v \in Val : Satisfies(v, g.type, g.typeinfo) => Satisfies(v, f.type, f.typeinfo)

\* Fact f is a fact of its kind and weaker than each of the facts of G.
Weakens(f, G) == f \in RegInfo /\ InRange(f) /\ \A g \in G : Weaker(f, g)

LEMMA WeakerOn ==
  ASSUME NEW f, NEW g, NEW h, Weaker(f, g), Weaker(g, h)
  PROVE  Weaker(f, h)
BY DEF Weaker, HasIndexedContents

LEMMA WeakerInRange ==
  ASSUME NEW f, NEW g, Weaker(f, g), InRange(g)
  PROVE  InRange(f) /\ (Mirrored(f) => Mirrored(g))
BY DEF Weaker, HasIndexedContents, InRange, Mirrored

LEMMA WeakerSelf ==
  ASSUME NEW f
  PROVE  Weaker(f, f)
BY DEF Weaker

LEMMA ClearAliasWeakens ==
  ASSUME NEW f \in RegInfo
  PROVE  Weaker(ClearAlias(f), f)
<1>1. ClearAlias(f).iindx = f.iindx
  BY DEF ClearAlias, RegInfo
<1> QED BY <1>1, ClearAliasFact DEF Weaker, HasIndexedContents

\* Forgetting what a register holds.
LEMMA GeneralizeWeakens ==
  ASSUME NEW f \in RegInfo
  PROVE  Weaker(Generalize(f), f)
<1>1. Generalize(f).iindx = NoPc
  BY DEF Generalize, ClearAlias, ClearSource, RegInfo
<1> QED BY <1>1, GeneralizeFact DEF Weaker, HasIndexedContents

LEMMA NormalizeFacts ==
  ASSUME NEW f \in RegInfo
  PROVE  /\ Normalize(f) \in RegInfo
         /\ Weaker(Normalize(f), f)
         /\ Normalize(f).type = f.type
         /\ f.type # NoType => Normalize(f).typeinfo = f.typeinfo
<1> DEFINE ti == IF f.type = NoType THEN UNKNOWN ELSE f.typeinfo
           ct == IF f.contents = "typedvalue" THEN ValueOf(f.type) ELSE f.contents
           g  == [f EXCEPT !.typeinfo = ti, !.contents = ct]
           h  == IF HasIndexedContents(g) THEN g ELSE ClearSource(g)
           k  == [ClearAlias(h) EXCEPT !.usage = "none"]
<1>1. Normalize(f) = IF ct = "nofact" THEN k ELSE h
  BY DEF Normalize
<1>2. /\ ct \in Contents /\ ti \in TypeInfo
      /\ ct \in {"constant", "global", "upvalue"} => ct = f.contents
  BY DEF ValueOf, RegInfo, Contents, TypeInfo, UNKNOWN
<1>3. f.type # NoType => ti = f.typeinfo
  OBVIOUS
<1> HIDE DEF ct, ti
<1>4. /\ g \in RegInfo /\ g.contents = ct /\ g.indx = f.indx /\ g.iindx = f.iindx
      /\ g.type = f.type /\ g.typeinfo = ti
  BY <1>2 DEF RegInfo
<1> HIDE DEF g
<1>5. /\ h \in RegInfo /\ h.contents = ct /\ h.type = f.type /\ h.typeinfo = ti
      /\ HasIndexedContents(h) => h.indx = f.indx
      /\ h.iindx \in {NoPc, f.iindx}
  BY <1>4 DEF RegInfo, ClearSource, HasIndexedContents
<1> HIDE DEF h
<1>6. /\ k \in RegInfo /\ k.contents = ct /\ k.type = f.type /\ k.typeinfo = ti
      /\ k.indx = h.indx /\ k.iindx = h.iindx
  BY <1>5 DEF RegInfo, ClearAlias, Usage
<1> HIDE DEF k
<1>7. \A x \in {k, h} : /\ x \in RegInfo /\ x.type = f.type /\ x.typeinfo = ti
                        /\ Weaker(x, f)
  <2>1. \A v \in Val : Satisfies(v, f.type, f.typeinfo) => Satisfies(v, f.type, ti)
    BY <1>3 DEF Satisfies
  <2> QED BY <1>2, <1>5, <1>6, <2>1 DEF Weaker, HasIndexedContents
<1>8. Normalize(f) \in {k, h}
  BY <1>1
<1> QED BY <1>3, <1>7, <1>8

\* An ancestor of both classes, or none.
LEMMA CommonAncestorFact ==
  ASSUME NEW a \in Type, NEW b \in Type
  PROVE  CommonAncestor(a, b) \in {NoType} \cup (Ancestors(a) \cap Ancestors(b))
<1> DEFINE Candidates == {i \in DOMAIN Lin[a] : Lin[a][i] \in Ancestors(b)}
           Other(i)   == Position(Lin[a][i], b)
           Score(i)   == IF i > Other(i) THEN i ELSE Other(i)
           Depth(i)   == i + Other(i)
           NotWorse(i, k) == \/ Score(i) < Score(k)
                             \/ Score(i) = Score(k) /\ Depth(i) < Depth(k)
                             \/ Score(i) = Score(k) /\ Depth(i) = Depth(k) /\ i <= k
           best == CHOOSE i \in Candidates : \A k \in Candidates : NotWorse(i, k)
<1>1. CommonAncestor(a, b) =
        IF \E i \in Candidates : \A k \in Candidates : NotWorse(i, k)
        THEN Lin[a][best] ELSE NoType
  BY DEF CommonAncestor
<1> HIDE DEF NotWorse
<1>2. CASE \E i \in Candidates : \A k \in Candidates : NotWorse(i, k)
  <2>1. best \in Candidates
    <3> HIDE DEF Candidates
    <3> QED BY <1>2
  <2>2. Lin[a][best] \in Ancestors(a) /\ Lin[a][best] \in Ancestors(b)
    <3> HIDE DEF best
    <3> QED BY <2>1 DEF Ancestors
  <2> QED BY <1>1, <1>2, <2>2
<1>3. CASE ~\E i \in Candidates : \A k \in Candidates : NotWorse(i, k)
  <2> HIDE DEF best, Candidates
  <2> QED BY <1>1, <1>3
<1> QED BY <1>2, <1>3

LEMMA AncestorsFact ==
  ASSUME NEW t \in Type
  PROVE  /\ t \in Ancestors(t) /\ Ancestors(t) \subseteq Type
         /\ \A u \in Ancestors(t) : Ancestors(u) \subseteq Ancestors(t)
<1>1. /\ Lin[t] \in Seq(Type) /\ Len(Lin[t]) > 0 /\ Lin[t][1] = t
      /\ \A u \in Ancestors(t) : Ancestors(u) \subseteq Ancestors(t)
  BY TypeAssumption
<1>2. 1 \in DOMAIN Lin[t] /\ \A i \in DOMAIN Lin[t] : Lin[t][i] \in Type
  BY <1>1
<1> QED BY <1>1, <1>2 DEF Ancestors

\* The type of a join is one that values of both types have (_checktypes).
LEMMA JoinTypeFacts ==
  ASSUME NEW f \in RegInfo, NEW g \in RegInfo
  PROVE  /\ JoinType(f, g).type \in Type \cup {NoType}
         /\ JoinType(f, g).typeinfo \in TypeInfo
         /\ \A v \in Val :
              Satisfies(v, f.type, f.typeinfo) \/ Satisfies(v, g.type, g.typeinfo) =>
                Satisfies(v, JoinType(f, g).type, JoinType(f, g).typeinfo)
<1> DEFINE Known(t, ti) == [type |-> t, typeinfo |-> ti]
           j == JoinType(f, g)
           c == CommonAncestor(f.type, g.type)
           Right(k) == /\ k.type \in Type \cup {NoType} /\ k.typeinfo \in TypeInfo
                       /\ \A v \in Val :
                            Satisfies(v, f.type, f.typeinfo) \/ Satisfies(v, g.type, g.typeinfo) =>
                              Satisfies(v, k.type, k.typeinfo)
<1>0. /\ f.type \in Type \cup {NoType} /\ g.type \in Type \cup {NoType}
      /\ f.typeinfo \in {0, 1, 2} /\ g.typeinfo \in {0, 1, 2}
  BY DEF RegInfo, TypeInfo, UNKNOWN, EXACT, SUBTYPE
<1>t. \A v \in Val : TypeOf[v] \in Type
  BY ValueAssumption
<1>1. CASE f.type = NoType \/ g.type = NoType
  <2>1. j = Known(NoType, UNKNOWN)
    BY <1>1 DEF JoinType
  <2> QED BY <2>1 DEF Satisfies, TypeInfo
<1>2. CASE f.type # NoType /\ g.type # NoType /\ f.type = g.type
  <2> DEFINE ti == IF g.typeinfo > f.typeinfo THEN g.typeinfo ELSE f.typeinfo
  <2>1. j = Known(f.type, ti)
    BY <1>2 DEF JoinType
  <2>2. ti \in {0, 1, 2} /\ ti >= f.typeinfo /\ ti >= g.typeinfo
    BY <1>0
  <2> HIDE DEF ti
  <2>3. \A v \in Val : TypeOf[v] = f.type => f.type \in Ancestors(TypeOf[v])
    BY <1>t, AncestorsFact
  <2>4. Right(Known(f.type, ti))
    BY <1>0, <1>2, <2>2, <2>3 DEF Satisfies, TypeInfo, UNKNOWN, EXACT, SUBTYPE
  <2> QED BY <2>1, <2>4
<1>3. CASE f.type # NoType /\ g.type # NoType /\ f.type # g.type
  <2>1. ASSUME NEW t \in Ancestors(f.type) \cap Ancestors(g.type)
        PROVE  Right(Known(t, SUBTYPE))
    <3>1. t \in Type
      BY <1>0, <1>3, AncestorsFact
    <3>2. \A v \in Val :
             \/ TypeOf[v] = f.type \/ f.type \in Ancestors(TypeOf[v])
             \/ TypeOf[v] = g.type \/ g.type \in Ancestors(TypeOf[v])
             => t \in Ancestors(TypeOf[v])
      BY <1>t, AncestorsFact
    <3> QED BY <1>3, <3>1, <3>2 DEF Satisfies, TypeInfo
  <2>2. CASE TypeMatch(f.type, g.type)
    <3>1. j = Known(f.type, SUBTYPE)
      BY <1>3, <2>2 DEF JoinType
    <3>2. f.type \in Ancestors(f.type) \cap Ancestors(g.type)
      BY <1>0, <1>3, <2>2, AncestorsFact DEF TypeMatch
    <3>3. Right(Known(f.type, SUBTYPE))
      BY <2>1, <3>2
    <3> QED BY <3>1, <3>3
  <2>3. CASE ~TypeMatch(f.type, g.type) /\ TypeMatch(g.type, f.type)
    <3>1. j = Known(g.type, SUBTYPE)
      BY <1>3, <2>3 DEF JoinType
    <3>2. g.type \in Ancestors(f.type) \cap Ancestors(g.type)
      BY <1>0, <1>3, <2>3, AncestorsFact DEF TypeMatch
    <3>3. Right(Known(g.type, SUBTYPE))
      BY <2>1, <3>2
    <3> QED BY <3>1, <3>3
  <2>4. CASE ~TypeMatch(f.type, g.type) /\ ~TypeMatch(g.type, f.type)
    <3>1. j = Known(c, IF c = NoType THEN UNKNOWN ELSE SUBTYPE)
      BY <1>3, <2>4 DEF JoinType
    <3>2. c = NoType \/ c \in Ancestors(f.type) \cap Ancestors(g.type)
      BY <1>0, <1>3, CommonAncestorFact
    <3> HIDE DEF c
    <3>3. c = NoType => Right(j)
      BY <3>1 DEF Satisfies, TypeInfo
    <3>4. c # NoType => j = Known(c, SUBTYPE) /\ Right(Known(c, SUBTYPE))
      BY <2>1, <3>1, <3>2
    <3> QED BY <3>3, <3>4
  <2> QED BY <2>2, <2>3, <2>4
<1> QED BY <1>1, <1>2, <1>3

LEMMA JoinIsMerged ==
  ASSUME NEW f \in RegInfo, NEW g \in RegInfo
  PROVE  Join(f, g) = Merged(f, g)
BY DEF Join, JoinOf

\* Joins of two facts (reginfo_join).
LEMMA JoinFacts ==
  ASSUME NEW f \in RegInfo, NEW g \in RegInfo, InRange(f), InRange(g)
  PROVE  Join(f, g) \in RegInfo /\ Weakens(Join(f, g), {f, g})
<1> DEFINE F == Normalize(f)
           G == Normalize(g)
           t == JoinType(F, G)
           ii == IF F.iindx = G.iindx THEN F.iindx ELSE NoPc
           al == IF F.alias = G.alias THEN F.alias ELSE NoReg
           us == MergeUsage(F.usage, G.usage)
           j == [F EXCEPT !.iindx = ii, !.type = t.type, !.typeinfo = t.typeinfo,
                          !.alias = al, !.usage = us]
           k == IF LostIdentity(F, G) THEN Generalize(j) ELSE j
<1>1. Join(f, g) = Normalize(k)
  BY JoinIsMerged DEF Merged
<1>2. /\ F \in RegInfo /\ G \in RegInfo
      /\ Weaker(F, f) /\ Weaker(G, g)
  BY NormalizeFacts
<1> HIDE DEF F, G
<1>3. /\ t.type \in Type \cup {NoType} /\ t.typeinfo \in TypeInfo
      /\ \A v \in Val :
           Satisfies(v, F.type, F.typeinfo) \/ Satisfies(v, G.type, G.typeinfo) =>
             Satisfies(v, t.type, t.typeinfo)
  BY <1>2, JoinTypeFacts
<1>4. /\ ii \in Pc \cup {NoPc} /\ ii \in {NoPc, F.iindx} /\ ii \in {NoPc, G.iindx}
      /\ al \in Reg \cup {NoReg} /\ us \in Usage
  BY <1>2 DEF RegInfo, MergeUsage, Usage
<1> HIDE DEF t, ii, al, us
<1>5. /\ j \in RegInfo /\ j.contents = F.contents /\ j.indx = F.indx /\ j.iindx = ii
      /\ j.type = t.type /\ j.typeinfo = t.typeinfo
  <2>1. /\ F \in RegInfo /\ ii \in Pc \cup {NoPc} /\ t.type \in Type \cup {NoType} /\ t.typeinfo \in TypeInfo
        /\ al \in Reg \cup {NoReg} /\ us \in Usage
    BY <1>2, <1>3, <1>4
  <2> PICK type, info : type = t.type /\ info = t.typeinfo
    OBVIOUS
  <2>2. j = [F EXCEPT !.iindx = ii, !.type = type, !.typeinfo = info, !.alias = al, !.usage = us]
    BY ONLY type = t.type, info = t.typeinfo DEF j
  <2>3. type \in Type \cup {NoType} /\ info \in TypeInfo
    BY <2>1
  <2> HIDE DEF j
  <2>4. /\ j \in RegInfo /\ j.contents = F.contents /\ j.indx = F.indx /\ j.iindx = ii
        /\ j.type = type /\ j.typeinfo = info
    <3> PICK f0, g0, i0, a0, u0 : f0 = F /\ g0 = j /\ i0 = ii /\ a0 = al /\ u0 = us
      OBVIOUS
    <3>1. /\ f0 \in RegInfo /\ i0 \in Pc \cup {NoPc} /\ a0 \in Reg \cup {NoReg} /\ u0 \in Usage
          /\ g0 = [f0 EXCEPT !.iindx = i0, !.type = type, !.typeinfo = info, !.alias = a0, !.usage = u0]
      BY ONLY <2>1, <2>2, f0 = F, g0 = j, i0 = ii, a0 = al, u0 = us
    <3>2. /\ g0 \in RegInfo /\ g0.contents = f0.contents /\ g0.indx = f0.indx /\ g0.iindx = i0
          /\ g0.type = type /\ g0.typeinfo = info
      BY ONLY <2>3, <3>1 DEF RegInfo
    <3> QED BY ONLY <3>2, f0 = F, g0 = j, i0 = ii
  <2> QED BY ONLY <2>4, type = t.type, info = t.typeinfo
<1> HIDE DEF j
<1>6. k \in RegInfo /\ Weaker(k, F) /\ Weaker(k, G)
  <2>1. CASE LostIdentity(F, G)
    <3>1. Generalize(j) \in RegInfo /\ Weaker(Generalize(j), j)
      BY <1>5, GeneralizeFact, GeneralizeWeakens
    <3>2. k = Generalize(j) /\ ~HasIndexedContents(k)
      BY <1>5, <2>1, GeneralizeFact DEF HasIndexedContents
    <3> HIDE DEF k
    <3>3. k.type = t.type /\ k.typeinfo = t.typeinfo /\ k.iindx = NoPc
      BY <1>5, <3>2, GeneralizeFact, NewFacts DEF Generalize, ClearAlias, ClearSource, RegInfo
    <3> QED BY <1>3, <3>1, <3>2, <3>3 DEF Weaker
  <2>2. CASE ~LostIdentity(F, G)
    <3>1. k = j
      BY <2>2
    <3> QED BY <1>3, <1>4, <1>5, <2>2, <3>1 DEF Weaker, LostIdentity, HasIndexedContents
  <2> QED BY <2>1, <2>2
<1> HIDE DEF k
<1>7. Normalize(k) \in RegInfo /\ Weaker(Normalize(k), k)
  BY <1>6, NormalizeFacts
<1>8. Weaker(Normalize(k), f) /\ Weaker(Normalize(k), g)
  BY <1>2, <1>6, <1>7, WeakerOn
<1>9. InRange(Normalize(k))
  BY <1>8, WeakerInRange
<1> QED BY <1>1, <1>7, <1>8, <1>9 DEF Weakens

\* What a loop header starts a join from (_prepareboundaryfact).
LEMMA BoundaryFacts ==
  ASSUME NEW f \in RegInfo, InRange(f)
  PROVE  Boundary(f) \in RegInfo /\ Weakens(Boundary(f), {f}) /\ Boundary(f).alias = NoReg
<1> DEFINE a == ClearAlias(f)
           ti == IF a.type = NoType THEN UNKNOWN ELSE a.typeinfo
           g == [a EXCEPT !.usage = "none", !.typeinfo = ti]
<1>1. /\ a \in RegInfo /\ a.contents = f.contents /\ a.indx = f.indx /\ a.type = f.type
      /\ a.typeinfo = f.typeinfo /\ a.alias = NoReg /\ a.iindx = f.iindx
  BY ClearAliasFact, NewFacts
<1>2. Boundary(f) = IF HasIndexedContents(f) THEN g ELSE ClearSource(g)
  BY <1>1 DEF Boundary
<1> HIDE DEF a
<1>3. ti \in TypeInfo /\ (f.type # NoType => ti = f.typeinfo)
  BY <1>1 DEF RegInfo, TypeInfo
<1> HIDE DEF ti
<1>4. /\ g \in RegInfo /\ g.contents = f.contents /\ g.indx = f.indx /\ g.iindx = f.iindx
      /\ g.type = f.type /\ g.typeinfo = ti /\ g.alias = NoReg
  BY <1>1, <1>3 DEF RegInfo, Usage
<1> HIDE DEF g
<1>5. /\ ClearSource(g) \in RegInfo /\ ClearSource(g).contents = f.contents
      /\ ClearSource(g).type = f.type /\ ClearSource(g).typeinfo = ti
      /\ ClearSource(g).iindx = NoPc /\ ClearSource(g).alias = NoReg
  BY <1>4 DEF ClearSource, RegInfo
<1> DEFINE h == Boundary(f)
<1>6. /\ h \in RegInfo /\ h.contents = f.contents /\ h.type = f.type /\ h.typeinfo = ti
      /\ h.alias = NoReg /\ h.iindx \in {NoPc, f.iindx}
      /\ HasIndexedContents(f) => h.indx = f.indx
  BY <1>2, <1>4, <1>5
<1> HIDE DEF h
<1>7. Weaker(h, f)
  BY <1>3, <1>6 DEF Weaker, HasIndexedContents, Satisfies
<1>8. InRange(h)
  BY <1>7, WeakerInRange
<1> QED BY <1>6, <1>7, <1>8 DEF Weakens, h

LEMMA ExactIntFacts ==
  ASSUME NEW f \in RegInfo
  PROVE  /\ ExactIntFact(f) \in RegInfo /\ InRange(ExactIntFact(f))
         /\ ExactIntFact(f).contents = "typedvalue" /\ ExactIntFact(f).iindx = NoPc
         /\ ExactIntFact(f).type = f.type /\ ExactIntFact(f).typeinfo = f.typeinfo
         /\ ExactIntFact(f).alias = NoReg
BY DEF ExactIntFact, ClearAlias, ClearSource, RegInfo, InRange, Contents

-----------------------------------------------------------------------------
(***************************************************************************)
(* Joins of many facts.                                                    *)
(***************************************************************************)
Ranged == {f \in RegInfo : InRange(f)}

\* How a fact and the facts joined to it become one.
JoinedUp(t, f, facts) ==
  t[0] = f /\ \A k \in 1 .. Len(facts) : t[k] = Join(t[k - 1], facts[k])

LEMMA JoinEachJoined ==
  ASSUME NEW f \in Ranged, NEW facts \in Seq(Ranged)
  PROVE  \E t \in [0 .. Len(facts) -> Ranged] :
           JoinedUp(t, f, facts) /\ JoinEach(f, facts) = t[Len(facts)]
<1> DEFINE n == Len(facts)
           Rec(t) == [k \in 0 .. n |-> IF k = 0 THEN f ELSE Join(t[k - 1], facts[k])]
           join == CHOOSE t : t = Rec(t)
           step == [k \in 1 .. n |-> [g \in Ranged |-> Join(g, facts[k])]]
<1>1. n \in Nat /\ \A k \in 1 .. n : facts[k] \in Ranged
  OBVIOUS
<1> HIDE DEF n
<1>2. \A k \in 1 .. n : \A g \in Ranged : Join(g, facts[k]) \in Ranged
  BY <1>1, JoinFacts DEF Ranged, Weakens
<1>3. step \in [1 .. n -> [Ranged -> Ranged]]
  BY <1>2
<1>4. PICK t \in [0 .. n -> Ranged] : Iteration(t, n, f, step)
  <2> HIDE DEF step
  <2> QED BY <1>1, <1>3, Iterates
<1>5. \A k \in 1 .. n : t[k - 1] \in Ranged /\ t[k] = Join(t[k - 1], facts[k])
  <2>1. \A k \in 1 .. n : k - 1 \in 0 .. n
    BY <1>1
  <2> QED BY <1>4, <2>1 DEF Iteration
<1>6. t = Rec(t)
  <2>1. \A k \in 0 .. n : t[k] = IF k = 0 THEN f ELSE Join(t[k - 1], facts[k])
    BY <1>1, <1>4, <1>5 DEF Iteration
  <2> QED BY <2>1
<1>7. join = Rec(join)
  BY <1>6
<1>8. JoinEach(f, facts) = join[n]
  BY DEF JoinEach, OneByOne, n
<1> HIDE DEF join
<1>9. /\ DOMAIN join = 0 .. n
      /\ \A k \in 0 .. n : join[k] = IF k = 0 THEN f ELSE Join(join[k - 1], facts[k])
  BY <1>7
<1> DEFINE Agreed == {k \in 0 .. n : join[k] = t[k]}
<1>10. 0 .. n \subseteq Agreed
  <2>1. 0 \in Agreed
    BY <1>1, <1>4, <1>9 DEF Iteration
  <2>2. ASSUME NEW k \in 1 .. n, k - 1 \in Agreed
        PROVE  k \in Agreed
    <3>1. k \in 0 .. n /\ k # 0
      BY <1>1
    <3> QED BY <1>5, <1>9, <2>2, <3>1
  <2>3. Agreed \in SUBSET (0 .. n)
    OBVIOUS
  <2> HIDE DEF Agreed
  <2> QED BY <1>1, <2>1, <2>2, <2>3, Upward
<1>11. join[n] = t[n]
  BY <1>1, <1>10
<1>12. JoinedUp(t, f, facts)
  BY <1>4, <1>5 DEF JoinedUp, n, Iteration
<1> QED BY <1>8, <1>11, <1>12 DEF n

\* A join of many facts is weaker than each.
LEMMA JoinEachFacts ==
  ASSUME NEW f \in Ranged, NEW facts \in Seq(Ranged)
  PROVE  /\ JoinEach(f, facts) \in Ranged
         /\ Weaker(JoinEach(f, facts), f)
         /\ \A k \in 1 .. Len(facts) : Weaker(JoinEach(f, facts), facts[k])
<1> DEFINE n == Len(facts)
<1>1. PICK t \in [0 .. n -> Ranged] : JoinedUp(t, f, facts) /\ JoinEach(f, facts) = t[n]
  BY JoinEachJoined
<1>2. n \in Nat /\ \A k \in 1 .. n : facts[k] \in Ranged
  OBVIOUS
<1>3. t[0] = f /\ \A k \in 1 .. n : t[k] = Join(t[k - 1], facts[k])
  BY <1>1 DEF JoinedUp
<1> HIDE DEF n
<1> DEFINE Weak(k) == Weaker(t[k], f) /\ \A j \in 1 .. k : Weaker(t[k], facts[j])
           Shown == {k \in 0 .. n : Weak(k)}
<1>4. 0 \in Shown
  BY <1>2, <1>3, WeakerSelf
<1>5. ASSUME NEW k \in 1 .. n, k - 1 \in Shown
      PROVE  k \in Shown
  <2>1. k - 1 \in 0 .. n /\ t[k - 1] \in Ranged /\ facts[k] \in Ranged /\ k \in 0 .. n
    BY <1>1, <1>2
  <2>2. Weaker(t[k], t[k - 1]) /\ Weaker(t[k], facts[k])
    <3>1. Weakens(Join(t[k - 1], facts[k]), {t[k - 1], facts[k]})
      BY <2>1, JoinFacts DEF Ranged
    <3> QED BY <1>3, <3>1 DEF Weakens
  <2>3. Weaker(t[k], f)
    BY <1>5, <2>2, WeakerOn
  <2>4. ASSUME NEW j \in 1 .. k
        PROVE  Weaker(t[k], facts[j])
    <3>1. j = k \/ j \in 1 .. k - 1
      BY <1>2
    <3>2. j \in 1 .. k - 1 => Weaker(t[k - 1], facts[j])
      BY <1>5
    <3> QED BY <2>2, <3>1, <3>2, WeakerOn
  <2> QED BY <2>1, <2>3, <2>4
<1>6. Shown \in SUBSET (0 .. n)
  OBVIOUS
<1>7. 0 .. n \subseteq Shown
  <2> HIDE DEF Shown
  <2> QED BY <1>2, <1>4, <1>5, <1>6, Upward
<1>8. Weak(n) /\ t[n] \in Ranged
  BY <1>2, <1>7
<1> QED BY <1>1, <1>8 DEF n

\* A join of many facts depends on no more than each of its joins does.
LEMMA JoinEachSame ==
  ASSUME NEW f \in Ranged, NEW facts \in Seq(Ranged), NEW other \in Seq(Ranged),
         Len(facts) = Len(other),
         \A k \in 1 .. Len(facts) : \A g \in Ranged : Join(g, facts[k]) = Join(g, other[k])
  PROVE  JoinEach(f, facts) = JoinEach(f, other)
<1> DEFINE n == Len(facts)
<1>1. PICK t \in [0 .. n -> Ranged] : JoinedUp(t, f, facts) /\ JoinEach(f, facts) = t[n]
  BY JoinEachJoined
<1>2. PICK u \in [0 .. n -> Ranged] : JoinedUp(u, f, other) /\ JoinEach(f, other) = u[n]
  BY JoinEachJoined
<1>3. /\ n \in Nat /\ t[0] = f /\ u[0] = f
      /\ \A k \in 1 .. n : t[k] = Join(t[k - 1], facts[k]) /\ u[k] = Join(u[k - 1], other[k])
  BY <1>1, <1>2 DEF JoinedUp
<1>4. \A k \in 1 .. n : \A g \in Ranged : Join(g, facts[k]) = Join(g, other[k])
  OBVIOUS
<1> HIDE DEF n
<1> DEFINE Agreed == {k \in 0 .. n : t[k] = u[k]}
<1>5. 0 \in Agreed
  BY <1>3
<1>6. ASSUME NEW k \in 1 .. n, k - 1 \in Agreed
      PROVE  k \in Agreed
  <2>1. k \in 0 .. n /\ k - 1 \in 0 .. n
    BY <1>3
  <2>2. u[k - 1] \in Ranged
    BY <2>1
  <2> QED BY <1>3, <1>4, <1>6, <2>1, <2>2
<1>7. Agreed \in SUBSET (0 .. n)
  OBVIOUS
<1>8. 0 .. n \subseteq Agreed
  <2> HIDE DEF Agreed
  <2> QED BY <1>3, <1>5, <1>6, <1>7, Upward
<1>9. t[n] = u[n]
  BY <1>3, <1>8
<1> QED BY <1>1, <1>2, <1>9

\* The blocks of a sequence that are in a set, in a sequence.
LEMMA AmongFacts ==
  ASSUME NEW blocks \in Seq(Block), NEW S
  PROVE  /\ Among(blocks, S) \in Seq(Block)
         /\ ToSet(Among(blocks, S)) = ToSet(blocks) \cap S
<1> DEFINE n == Len(blocks)
           Next1(k, q) == IF blocks[k] \in S THEN Append(q, blocks[k]) ELSE q
           Rec(t) == [k \in 0 .. n |->
                        IF k = 0 THEN <<>>
                        ELSE IF blocks[k] \in S THEN Append(t[k - 1], blocks[k]) ELSE t[k - 1]]
           kept == CHOOSE t : t = Rec(t)
           step == [k \in 1 .. n |-> [q \in Seq(Block) |-> Next1(k, q)]]
<1>1. n \in Nat /\ DOMAIN blocks = 1 .. n /\ \A k \in 1 .. n : blocks[k] \in Block
  OBVIOUS
<1> HIDE DEF n
<1>2. \A k \in 1 .. n : \A q \in Seq(Block) : Next1(k, q) \in Seq(Block)
  BY <1>1
<1> HIDE DEF Next1
<1>3. step \in [1 .. n -> [Seq(Block) -> Seq(Block)]]
  BY <1>2
<1>4. PICK t \in [0 .. n -> Seq(Block)] : Iteration(t, n, <<>>, step)
  <2>1. <<>> \in Seq(Block)
    OBVIOUS
  <2> HIDE DEF step
  <2> QED BY <1>1, <1>3, <2>1, Iterates
<1>5. t[0] = <<>> /\ \A k \in 1 .. n : t[k - 1] \in Seq(Block) /\ t[k] = Next1(k, t[k - 1])
  <2>1. \A k \in 1 .. n : k - 1 \in 0 .. n
    BY <1>1
  <2> QED BY <1>4, <2>1 DEF Iteration
<1>6. t = Rec(t)
  <2>1. \A k \in 0 .. n : t[k] = IF k = 0 THEN <<>> ELSE Next1(k, t[k - 1])
    BY <1>1, <1>5
  <2> QED BY <2>1 DEF Next1
<1>7. kept = Rec(kept)
  BY <1>6
<1>8. Among(blocks, S) = kept[n]
  BY DEF Among, n
<1> HIDE DEF kept
<1>9. /\ DOMAIN kept = 0 .. n
      /\ \A k \in 0 .. n : kept[k] = IF k = 0 THEN <<>> ELSE Next1(k, kept[k - 1])
  BY <1>7 DEF Next1
<1> DEFINE First(k) == {blocks[j] : j \in 1 .. k}
           Right(k) == kept[k] \in Seq(Block) /\ ToSet(kept[k]) = First(k) \cap S
           Shown == {k \in 0 .. n : Right(k)}
<1>10. 0 \in Shown
  <2>1. kept[0] = <<>> /\ 0 \in 0 .. n /\ First(0) = {}
    BY <1>1, <1>9
  <2>2. <<>> \in Seq(Block) /\ ToSet(<<>>) = {}
    BY Members
  <2> HIDE DEF First
  <2> QED BY <2>1, <2>2
<1>11. ASSUME NEW k \in 1 .. n, k - 1 \in Shown
       PROVE  k \in Shown
  <2>1. k \in 0 .. n /\ k - 1 \in 0 .. n /\ k # 0 /\ kept[k] = Next1(k, kept[k - 1])
    <3> HIDE DEF Next1
    <3>1. k \in 0 .. n /\ k - 1 \in 0 .. n /\ k # 0
      BY <1>1
    <3> QED BY <1>9, <3>1
  <2>2. First(k) = First(k - 1) \cup {blocks[k]}
    <3>1. \A j \in 1 .. k : j = k \/ j \in 1 .. k - 1
      BY <1>1
    <3>2. \A j \in 1 .. k - 1 : j \in 1 .. k
      BY <1>1
    <3>3. k \in 1 .. k
      BY <1>1
    <3> QED BY <3>1, <3>2, <3>3
  <2> DEFINE q == kept[k - 1]
  <2> HIDE DEF First
  <2>4. q \in Seq(Block) /\ ToSet(q) = First(k - 1) \cap S /\ blocks[k] \in Block
    BY <1>1, <1>11
  <2>5. kept[k] = IF blocks[k] \in S THEN Append(q, blocks[k]) ELSE q
    BY <2>1 DEF Next1
  <2> HIDE DEF q
  <2>6. CASE blocks[k] \in S
    <3>1. Append(q, blocks[k]) \in Seq(Block) /\ ToSet(Append(q, blocks[k])) = ToSet(q) \cup {blocks[k]}
      BY <2>4, Appended
    <3> QED BY <2>1, <2>2, <2>4, <2>5, <2>6, <3>1
  <2>7. CASE blocks[k] \notin S
    BY <2>1, <2>2, <2>4, <2>5, <2>7
  <2> QED BY <2>6, <2>7
<1>12. Shown \in SUBSET (0 .. n)
  OBVIOUS
<1>13. 0 .. n \subseteq Shown
  <2> HIDE DEF Shown
  <2> QED BY <1>1, <1>10, <1>11, <1>12, Upward
<1>14. Right(n)
  <2>1. n \in Shown
    <3> HIDE DEF Shown
    <3>1. n \in 0 .. n
      BY <1>1
    <3> QED BY <1>13, <3>1
  <2> HIDE DEF Right
  <2> QED BY <2>1
<1>15. ToSet(blocks) = First(n)
  BY <1>1 DEF ToSet
<1> QED BY <1>8, <1>14, <1>15

-----------------------------------------------------------------------------
(***************************************************************************)
(* What a block starts from.                                               *)
(***************************************************************************)
\* Every block ends with facts of their kinds.
OutputsOK == rout \in [Block -> [Reg -> Ranged]]

LEMMA JoinAllFacts ==
  ASSUME NEW f \in Ranged, NEW blocks \in Seq(Block), NEW r \in Reg, OutputsOK
  PROVE  /\ JoinAll(f, blocks, r) \in Ranged /\ JoinAll(f, blocks, r).alias = NoReg
         /\ Weaker(JoinAll(f, blocks, r), f)
         /\ \A s \in ToSet(blocks) : Weaker(JoinAll(f, blocks, r), rout[s][r])
<1> DEFINE facts == [k \in DOMAIN blocks |-> rout[blocks[k]][r]]
           g == JoinEach(f, facts)
<1>1. /\ DOMAIN blocks = 1 .. Len(blocks) /\ Len(blocks) \in Nat
      /\ \A k \in DOMAIN blocks : rout[blocks[k]][r] \in Ranged
  BY DEF OutputsOK
<1>2. facts \in Seq(Ranged) /\ Len(facts) = Len(blocks)
  BY <1>1
<1>3. /\ g \in Ranged /\ Weaker(g, f)
      /\ \A k \in DOMAIN blocks : Weaker(g, rout[blocks[k]][r])
  <2>1. \A k \in DOMAIN blocks : facts[k] = rout[blocks[k]][r]
    OBVIOUS
  <2> HIDE DEF facts
  <2> QED BY <1>1, <1>2, <2>1, JoinEachFacts
<1>4. JoinAll(f, blocks, r) = ClearAlias(g)
  BY DEF JoinAll
<1> HIDE DEF g
<1>5. /\ ClearAlias(g) \in RegInfo /\ ClearAlias(g).alias = NoReg /\ InRange(ClearAlias(g))
      /\ Weaker(ClearAlias(g), g)
  BY <1>3, ClearAliasFact, ClearAliasWeakens, NewFacts DEF Ranged
<1>6. \A h : Weaker(g, h) => Weaker(ClearAlias(g), h)
  BY <1>5, WeakerOn
<1> QED BY <1>3, <1>4, <1>5, <1>6 DEF Ranged, ToSet

LEMMA ResolveFacts ==
  ASSUME NEW blocks \in Seq(Block), blocks # <<>>, NEW r \in Reg, OutputsOK
  PROVE  /\ Resolve(blocks, r) \in Ranged /\ Resolve(blocks, r).alias = NoReg
         /\ \A s \in ToSet(blocks) : Weaker(Resolve(blocks, r), rout[s][r])
<1> DEFINE h == Head(blocks)
           f == Boundary(rout[h][r])
<1>1. /\ h \in Block /\ Tail(blocks) \in Seq(Block)
      /\ ToSet(blocks) = {h} \cup ToSet(Tail(blocks))
  BY HeadTail
<1>2. rout[h][r] \in Ranged
  BY <1>1 DEF OutputsOK
<1>3. f \in Ranged /\ Weaker(f, rout[h][r])
  BY <1>2, BoundaryFacts DEF Ranged, Weakens
<1>4. Resolve(blocks, r) = JoinAll(f, Tail(blocks), r)
  BY DEF Resolve
<1> HIDE DEF h, f
<1> DEFINE j == JoinAll(f, Tail(blocks), r)
<1>5. /\ j \in Ranged /\ j.alias = NoReg /\ Weaker(j, f)
      /\ \A s \in ToSet(Tail(blocks)) : Weaker(j, rout[s][r])
  BY <1>1, <1>3, JoinAllFacts
<1> HIDE DEF j
<1>6. Weaker(j, rout[h][r])
  BY <1>3, <1>5, WeakerOn
<1> QED BY <1>1, <1>4, <1>5, <1>6 DEF j

\* Functions and their blocks.
LEMMA ProgramFacts ==
  ASSUME NEW p, IsFunction(p), NEW b \in Block
  PROVE  /\ p.src[b] \in Seq(Block) /\ p.dest[b] \in Seq(Block)
         /\ Preds(p, b) \in SUBSET Block /\ ToSet(p.dest[b]) \in SUBSET Block
         /\ Preds(p, b) = {s \in Block : b \in ToSet(p.dest[s])}
         /\ Len(p.code[b]) \in Nat /\ Len(p.code[b]) <= Width
         /\ DOMAIN p.code[b] = 1 .. Len(p.code[b])
         /\ \A k \in 1 .. Len(p.code[b]) : IsInstruction(p.code[b][k])
<1>1. /\ Len(p.code[b]) \in 0 .. Width /\ DOMAIN p.code[b] = 1 .. Len(p.code[b])
      /\ \A k \in DOMAIN p.code[b] : IsInstruction(p.code[b][k])
      /\ {p.src[b], p.dest[b]} \subseteq Seq(Block)
      /\ ToSet(p.src[b]) = {s \in Block : b \in ToSet(p.dest[s])}
  BY DEF IsFunction
<1>2. ToSet(p.dest[b]) \subseteq Block
  BY <1>1, Members
<1>3. Width \in Nat
  BY BlockAssumption
<1> QED BY <1>1, <1>2, <1>3 DEF Preds

\* The loops of a function.
LEMMA LoopFacts ==
  ASSUME NEW p, IsFunction(p), NEW h \in Block
  PROVE  /\ LoopSources(p, h) \in SUBSET Preds(p, h)
         /\ LoopBlocks(p, h) \in SUBSET Block
         /\ LoopSources(p, h) \subseteq LoopBlocks(p, h)
         /\ \A b \in LoopBlocks(p, h) : b # h => Preds(p, b) \subseteq LoopBlocks(p, h)
         /\ \A C \in SUBSET Block :
              /\ LoopSources(p, h) \subseteq C
              /\ \A b \in C : b # h => Preds(p, b) \subseteq C
              => LoopBlocks(p, h) \subseteq C
<1> DEFINE succ == [b \in Block |-> IF b = h THEN {} ELSE Preds(p, b)]
           S == LoopSources(p, h)
           L == LoopBlocks(p, h)
<1>1. \A b \in Block : Preds(p, b) \in SUBSET Block
  BY ProgramFacts
<1>2. S \in SUBSET Preds(p, h) /\ S \in SUBSET Block
  BY <1>1 DEF LoopSources
<1>3. succ \in Graph(Block)
  BY <1>1 DEF Graph
<1>4. IsFiniteSet(Block)
  BY BlockAssumption, FS_Interval DEF Block
<1>5. L = ReachedFrom(S, succ)
  BY DEF LoopBlocks
<1>6. \A C \in SUBSET Block : Closed(C, succ) <=> \A b \in C : b # h => Preds(p, b) \subseteq C
  BY DEF Closed
<1> HIDE DEF succ, S, L
<1>7. /\ L \in SUBSET Block /\ S \subseteq L /\ Closed(L, succ)
      /\ \A C \in SUBSET Block : S \subseteq C /\ Closed(C, succ) => L \subseteq C
  BY <1>2, <1>3, <1>4, <1>5, ReachedFacts
<1> QED BY <1>2, <1>6, <1>7 DEF S, L

\* The predecessors a loop is entered from.
EntrySources(h) == Preds(prog, h) \ LoopSources(prog, h)

\* What the loop starts from.
Base(h, r) == Boundary(Resolve(Among(prog.src[h], Block \ LoopSources(prog, h)), r))

\* Register r grows in the loop: integers are added to an integer.
Grows(h, r) ==
  IsIntFact(Base(h, r)) /\ \A s \in LoopSources(prog, h) : IsIntPreservingLoopUpdate(s, r)

LEMMA BaseFacts ==
  ASSUME NEW h \in Block, NEW r \in Reg, OutputsOK, IsFunction(prog), EntrySources(h) # {}
  PROVE  /\ Base(h, r) \in Ranged /\ Base(h, r).alias = NoReg
         /\ \A s \in EntrySources(h) : Weaker(Base(h, r), rout[s][r])
<1> DEFINE entry == Among(prog.src[h], Block \ LoopSources(prog, h))
           f == Resolve(entry, r)
<1>1. entry \in Seq(Block) /\ ToSet(entry) = EntrySources(h)
  <2>1. prog.src[h] \in Seq(Block) /\ Preds(prog, h) \in SUBSET Block
    BY ProgramFacts
  <2>2. entry \in Seq(Block) /\ ToSet(entry) = ToSet(prog.src[h]) \cap (Block \ LoopSources(prog, h))
    BY <2>1, AmongFacts
  <2> HIDE DEF entry
  <2> QED BY <2>1, <2>2 DEF EntrySources, Preds
<1>2. entry # <<>>
  BY <1>1, Members
<1>3. Base(h, r) = Boundary(f)
  BY DEF Base
<1> HIDE DEF entry
<1>4. f \in Ranged /\ \A s \in EntrySources(h) : Weaker(f, rout[s][r])
  BY <1>1, <1>2, ResolveFacts
<1> HIDE DEF f
<1>5. Boundary(f) \in Ranged /\ Weaker(Boundary(f), f) /\ Boundary(f).alias = NoReg
  BY <1>4, BoundaryFacts DEF Ranged, Weakens
<1>6. \A g : Weaker(f, g) => Weaker(Boundary(f), g)
  BY <1>5, WeakerOn
<1> QED BY <1>3, <1>4, <1>5, <1>6

\* What a register holds at the header of a loop.
LEMMA HeaderFacts ==
  ASSUME NEW h \in Block, NEW r \in Reg, OutputsOK, IsFunction(prog),
         IsLoopHeader(prog, h)
  PROVE  /\ HeaderFact(h, r) \in Ranged /\ HeaderFact(h, r).alias = NoReg
         /\ \/ \A s \in Preds(prog, h) : Weaker(HeaderFact(h, r), rout[s][r])
            \/ /\ EntrySources(h) # {} /\ ~LoopWrites(h, r)
               /\ HeaderFact(h, r) = Base(h, r)
            \/ /\ EntrySources(h) # {} /\ Grows(h, r)
               /\ HeaderFact(h, r) = ExactIntFact(Base(h, r))
<1> DEFINE entry == Among(prog.src[h], Block \ LoopSources(prog, h))
           back  == Among(prog.src[h], LoopSources(prog, h))
           base  == Base(h, r)
           f == HeaderFact(h, r)
<1>1. /\ prog.src[h] \in Seq(Block) /\ ToSet(prog.src[h]) = Preds(prog, h)
      /\ Preds(prog, h) \in SUBSET Block
      /\ LoopSources(prog, h) \in SUBSET Preds(prog, h) /\ LoopSources(prog, h) # {}
  BY ProgramFacts, LoopFacts DEF Preds, IsLoopHeader
<1>2. /\ entry \in Seq(Block) /\ ToSet(entry) = EntrySources(h)
      /\ back \in Seq(Block) /\ ToSet(back) = LoopSources(prog, h)
  <2>1. /\ entry \in Seq(Block) /\ ToSet(entry) = ToSet(prog.src[h]) \cap (Block \ LoopSources(prog, h))
        /\ back \in Seq(Block) /\ ToSet(back) = ToSet(prog.src[h]) \cap LoopSources(prog, h)
    BY <1>1, AmongFacts
  <2> HIDE DEF entry, back
  <2> QED BY <1>1, <2>1 DEF EntrySources
<1>3. f = CASE entry = <<>>                                      -> Resolve(prog.src[h], r)
            [] entry # <<>> /\ ~LoopWrites(h, r)                 -> base
            [] entry # <<>> /\ LoopWrites(h, r) /\ Grows(h, r)   -> ExactIntFact(base)
            [] OTHER                                             -> JoinAll(base, back, r)
  <2>1. Grows(h, r) <=>
          IsIntFact(base) /\ \A s \in ToSet(back) : IsIntPreservingLoopUpdate(s, r)
    BY <1>2 DEF Grows
  <2>2. base = Boundary(Resolve(entry, r))
    BY DEF Base
  <2> HIDE DEF base, back
  <2> QED BY <2>1, <2>2 DEF HeaderFact, entry, back
<1> HIDE DEF entry, back, f, base
<1>4. CASE entry = <<>>
  <2>1. f = Resolve(prog.src[h], r)
    BY <1>3, <1>4
  <2>2. prog.src[h] # <<>>
    BY <1>1, Members
  <2>3. /\ f \in Ranged /\ f.alias = NoReg
        /\ \A s \in ToSet(prog.src[h]) : Weaker(f, rout[s][r])
    BY <1>1, <2>1, <2>2, ResolveFacts
  <2> QED BY <1>1, <2>3 DEF f
<1>5. CASE entry # <<>>
  <2>1. EntrySources(h) # {}
    <3>1. Head(entry) \in ToSet(entry)
      BY <1>2, <1>5, HeadTail
    <3> QED BY <1>2, <3>1
  <2>2. /\ base \in Ranged /\ base.alias = NoReg
        /\ \A s \in EntrySources(h) : Weaker(base, rout[s][r])
    BY <2>1, BaseFacts DEF base
  <2>3. CASE ~LoopWrites(h, r)
    <3>1. f = base
      BY <1>3, <1>5, <2>3
    <3> QED BY <2>1, <2>2, <2>3, <3>1 DEF f, base
  <2>4. CASE LoopWrites(h, r) /\ Grows(h, r)
    <3>1. f = ExactIntFact(base)
      BY <1>3, <1>5, <2>4
    <3>2. f \in Ranged /\ f.alias = NoReg
      BY <2>2, <3>1, ExactIntFacts DEF Ranged
    <3> QED BY <2>1, <2>4, <3>1, <3>2 DEF f, base
  <2>5. CASE LoopWrites(h, r) /\ ~Grows(h, r)
    <3>1. f = JoinAll(base, back, r)
      BY <1>3, <1>5, <2>5
    <3>2. /\ f \in Ranged /\ f.alias = NoReg /\ Weaker(f, base)
          /\ \A s \in LoopSources(prog, h) : Weaker(f, rout[s][r])
      BY <1>2, <2>2, <3>1, JoinAllFacts
    <3>3. \A s \in EntrySources(h) : Weaker(f, rout[s][r])
      BY <2>2, <3>2, WeakerOn
    <3>4. \A s \in Preds(prog, h) : Weaker(f, rout[s][r])
      BY <3>2, <3>3 DEF EntrySources
    <3> QED BY <3>2, <3>4 DEF f
  <2> QED BY <2>3, <2>4, <2>5
<1> QED BY <1>4, <1>5

\* Two facts that are of no instruction and no alias make one of none.
LEMMA JoinSource ==
  ASSUME NEW f \in RegInfo, NEW g \in RegInfo,
         f.iindx = NoPc, f.alias = NoReg, g.alias = NoReg
  PROVE  Join(f, g).iindx = NoPc /\ Join(f, g).alias = NoReg
<1> DEFINE F == Normalize(f)
           G == Normalize(g)
           t == JoinType(F, G)
           ii == IF F.iindx = G.iindx THEN F.iindx ELSE NoPc
           al == IF F.alias = G.alias THEN F.alias ELSE NoReg
           us == MergeUsage(F.usage, G.usage)
           j == [F EXCEPT !.iindx = ii, !.type = t.type, !.typeinfo = t.typeinfo,
                          !.alias = al, !.usage = us]
           k == IF LostIdentity(F, G) THEN Generalize(j) ELSE j
<1>1. ASSUME NEW x \in RegInfo, x.alias = NoReg
      PROVE  /\ Normalize(x) \in RegInfo /\ Normalize(x).alias = NoReg
             /\ x.iindx = NoPc => Normalize(x).iindx = NoPc
  <2> DEFINE ti == IF x.type = NoType THEN UNKNOWN ELSE x.typeinfo
             ct == IF x.contents = "typedvalue" THEN ValueOf(x.type) ELSE x.contents
             y  == [x EXCEPT !.typeinfo = ti, !.contents = ct]
             z  == IF HasIndexedContents(y) THEN y ELSE ClearSource(y)
  <2>1. Normalize(x) = IF ct = "nofact" THEN [ClearAlias(z) EXCEPT !.usage = "none"] ELSE z
    BY DEF Normalize
  <2> HIDE DEF ti, ct
  <2>2. DOMAIN y = DOMAIN x /\ y.alias = NoReg /\ (x.iindx = NoPc => y.iindx = NoPc)
    BY <1>1 DEF RegInfo
  <2>3. DOMAIN x = {"contents", "indx", "usage", "iindx", "type", "typeinfo", "alias"}
    BY <1>1 DEF RegInfo
  <2> HIDE DEF y
  <2>4. DOMAIN z = DOMAIN x /\ z.alias = NoReg /\ (x.iindx = NoPc => z.iindx = NoPc)
    BY <2>2, <2>3 DEF ClearSource
  <2> HIDE DEF z
  <2> QED BY <2>1, <2>3, <2>4, NormalizeFacts DEF ClearAlias
<1>2. F \in RegInfo /\ G \in RegInfo /\ F.iindx = NoPc /\ F.alias = NoReg /\ G.alias = NoReg
  BY <1>1
<1>3. /\ t.type \in Type \cup {NoType} /\ t.typeinfo \in TypeInfo
  <2> HIDE DEF F, G
  <2> QED BY <1>2, JoinTypeFacts
<1>4. Join(f, g) = Normalize(k)
  <2>1. Join(f, g) = Merged(f, g)
    BY JoinIsMerged
  <2> QED BY ONLY <2>1 DEF Merged
<1> HIDE DEF F, G, t
<1>5. ii = NoPc /\ al = NoReg /\ us \in Usage
  BY <1>2 DEF RegInfo, MergeUsage, Usage
<1> HIDE DEF ii, al, us
<1>6. j \in RegInfo /\ j.iindx = NoPc /\ j.alias = NoReg
  BY <1>2, <1>3, <1>5 DEF RegInfo
<1> HIDE DEF j
<1>7. k \in RegInfo /\ k.iindx = NoPc /\ k.alias = NoReg
  <2>1. Generalize(j) \in RegInfo /\ Generalize(j).iindx = NoPc /\ Generalize(j).alias = NoReg
    BY <1>6, GeneralizeFact DEF Generalize, ClearAlias, ClearSource, RegInfo
  <2> QED BY <1>6, <2>1
<1> HIDE DEF k
<1> QED BY <1>1, <1>4, <1>7

\* What is known of the registers when the function is entered.
LEMMA EntryFacts ==
  ASSUME NEW r \in Reg
  PROVE  /\ EntryFact(r) \in Ranged /\ EntryFact(r).alias = NoReg
         /\ EntryFact(r).iindx = NoPc /\ ~Mirrored(EntryFact(r))
<1> DEFINE Right(f) == f \in Ranged /\ f.alias = NoReg /\ f.iindx = NoPc /\ ~Mirrored(f)
           in == IF r > 0 /\ IsRecursive THEN Weaken(Input[r]) ELSE Input[r]
           sig == Signature(r)
<1>1. Input[r] \in RegInfo /\ Right(Input[r])
  BY BlockAssumption DEF RegInfoList, Ranged, Mirrored
<1>2. Right(Weaken(Input[r]))
  <2> DEFINE g == Generalize(Input[r])
  <2>1. g \in RegInfo /\ InRange(g) /\ g.iindx = NoPc /\ g.alias = NoReg /\ ~Mirrored(g)
    BY <1>1, GeneralizeFact, NewFacts DEF Ranged
  <2> HIDE DEF g
  <2>2. /\ Normalize(g) \in RegInfo /\ Weaker(Normalize(g), g)
    BY <2>1, NormalizeFacts
  <2>3. InRange(Normalize(g)) /\ Normalize(g).iindx = NoPc /\ ~Mirrored(Normalize(g))
    BY <2>1, <2>2, WeakerInRange DEF Weaker
  <2>4. Normalize(g).alias = NoReg
    <3>1. Normalize(g).alias \in {NoReg, g.alias}
      BY <2>1 DEF Normalize, ClearAlias, ClearSource, RegInfo
    <3> QED BY <2>1, <3>1
  <2> QED BY <2>2, <2>3, <2>4 DEF Ranged, Weaken, g
<1>3. Right(sig)
  <2> DEFINE f == [InitFact EXCEPT !.contents = "value", !.usage = "written"]
             pf == ParamFact[r]
  <2>1. Right(InitFact)
    BY DEF InitFact, Ranged, RegInfo, Contents, Usage, TypeInfo, InRange, Mirrored
  <2>2. f \in RegInfo /\ InRange(f) /\ f.alias = NoReg /\ f.iindx = NoPc /\ ~Mirrored(f)
    BY DEF InitFact, RegInfo, Contents, Usage, TypeInfo, InRange, Mirrored
  <2>3. pf.type \in Type \cup {NoType} /\ pf.typeinfo \in TypeInfo
    BY BlockAssumption DEF TypeFact
  <2>4. sig = IF r > NArgs + NOpt THEN InitFact ELSE TypedFact(f, pf.type, pf.typeinfo)
    BY DEF Signature
  <2> HIDE DEF f, pf, sig
  <2>5. Right(TypedFact(f, pf.type, pf.typeinfo))
    <3>1. TypedFact(f, pf.type, pf.typeinfo).alias = NoReg
      BY <2>2 DEF TypedFact, RegInfo
    <3> QED BY <2>2, <2>3, <3>1, NewFacts DEF Ranged
  <2> QED BY <2>1, <2>4, <2>5
<1>4. Right(in)
  BY <1>1, <1>2
<1>5. EntryFact(r) = CASE Input[r].contents = "nofact" -> sig
                       [] Input[r].contents # "nofact" /\ IsMethod /\ r = 0 -> Join(sig, in)
                       [] OTHER -> in
  BY DEF EntryFact
<1> HIDE DEF sig, in
<1>6. Right(Join(sig, in))
  <2>1. Join(sig, in) \in Ranged /\ Weaker(Join(sig, in), sig)
    BY <1>3, <1>4, JoinFacts DEF Ranged, Weakens
  <2>2. ~Mirrored(Join(sig, in))
    BY <1>3, <2>1, WeakerInRange DEF Ranged
  <2> QED BY <1>3, <1>4, <2>1, <2>2, JoinSource DEF Ranged
<1> QED BY <1>3, <1>4, <1>5, <1>6

\* Whatever a block starts from are facts of their kinds and no aliases, made by
\* instructions that made facts its predecessors end with.
LEMMA InputFacts ==
  ASSUME NEW b \in Block, OutputsOK, IsFunction(prog)
  PROVE  /\ JoinInput(b) \in [Reg -> Ranged]
         /\ \A r \in Reg : /\ JoinInput(b)[r].alias = NoReg
                           /\ \/ JoinInput(b)[r].iindx = NoPc
                              \/ \E s \in Block : JoinInput(b)[r].iindx = rout[s][r].iindx
<1> DEFINE Right(f, r) == /\ f \in Ranged /\ f.alias = NoReg
                          /\ f.iindx = NoPc \/ \E s \in Block : f.iindx = rout[s][r].iindx
<1>1. ASSUME NEW r \in Reg
      PROVE  Right(JoinInput(b)[r], r)
  <2>1. CASE b = Entry \/ prog.src[b] = <<>> \/ IsPreservedEntryRegister(r)
    <3>1. JoinInput(b)[r] = EntryFact(r)
      BY <2>1 DEF JoinInput
    <3> QED BY <3>1, EntryFacts
  <2>2. CASE ~(b = Entry \/ prog.src[b] = <<>> \/ IsPreservedEntryRegister(r))
    <3>1. JoinInput(b)[r] = IF IsLoopHeader(prog, b) THEN HeaderFact(b, r)
                            ELSE Resolve(prog.src[b], r)
      BY <2>2 DEF JoinInput
    <3>2. prog.src[b] \in Seq(Block) /\ prog.src[b] # <<>> /\ Preds(prog, b) \in SUBSET Block
      BY <2>2, ProgramFacts
    <3>3. ToSet(prog.src[b]) = Preds(prog, b) /\ Preds(prog, b) # {}
      BY <3>2, HeadTail DEF Preds
    <3>4. \A f : \A s \in Block : Weaker(f, rout[s][r]) => f.iindx \in {NoPc, rout[s][r].iindx}
      BY DEF Weaker
    <3>5. Right(Resolve(prog.src[b], r), r)
      <4>1. /\ Resolve(prog.src[b], r) \in Ranged /\ Resolve(prog.src[b], r).alias = NoReg
            /\ \A s \in Preds(prog, b) : Weaker(Resolve(prog.src[b], r), rout[s][r])
        BY <3>2, <3>3, ResolveFacts
      <4> QED BY <3>2, <3>3, <3>4, <4>1
    <3>6. ASSUME IsLoopHeader(prog, b)
          PROVE  Right(HeaderFact(b, r), r)
      <4>1. EntrySources(b) # {} => /\ Base(b, r) \in Ranged
                                    /\ \A s \in EntrySources(b) : Weaker(Base(b, r), rout[s][r])
        BY BaseFacts
      <4>2. EntrySources(b) \in SUBSET Block
        BY <3>2 DEF EntrySources
      <4>3. EntrySources(b) # {} => ExactIntFact(Base(b, r)).iindx = NoPc
        BY <4>1, ExactIntFacts DEF Ranged
      <4> PICK f : f = HeaderFact(b, r)
        OBVIOUS
      <4>4. /\ f \in Ranged /\ f.alias = NoReg
            /\ \/ \A s \in Preds(prog, b) : Weaker(f, rout[s][r])
               \/ EntrySources(b) # {} /\ f = Base(b, r)
               \/ EntrySources(b) # {} /\ f = ExactIntFact(Base(b, r))
        BY <3>6, HeaderFacts
      <4>5. CASE \A s \in Preds(prog, b) : Weaker(f, rout[s][r])
        BY ONLY <3>2, <3>3, <3>4, <4>4, <4>5, f = HeaderFact(b, r)
      <4>6. CASE EntrySources(b) # {} /\ f = Base(b, r)
        BY ONLY <3>4, <4>1, <4>2, <4>4, <4>6, f = HeaderFact(b, r)
      <4>7. CASE EntrySources(b) # {} /\ f = ExactIntFact(Base(b, r))
        BY ONLY <4>3, <4>4, <4>7, f = HeaderFact(b, r)
      <4> QED BY <4>4, <4>5, <4>6, <4>7
    <3> QED BY <3>1, <3>5, <3>6
  <2> QED BY <2>1, <2>2
<1>2. JoinInput(b) = [r \in Reg |-> JoinInput(b)[r]]
  BY DEF JoinInput
<1> QED BY <1>1, <1>2

-----------------------------------------------------------------------------
(***************************************************************************)
(* Facts that are equal (reginfo_equal) make the same joins: a block whose *)
(* predecessors end with facts equal to those they ended with before starts*)
(* from the same facts.                                                    *)
(***************************************************************************)
LEMMA SameFact ==
  ASSUME NEW f \in RegInfo, NEW g \in RegInfo, Alike(f, g),
         f.usage = g.usage, f.iindx = g.iindx, f.alias = g.alias
  PROVE  f = g
BY DEF Alike, RegInfo

LEMMA ClearedSources ==
  ASSUME NEW f \in RegInfo, NEW g \in RegInfo,
         f.contents = g.contents, f.usage = g.usage, f.type = g.type,
         f.typeinfo = g.typeinfo, f.alias = g.alias
  PROVE  ClearSource(f) = ClearSource(g)
<1>1. \A x \in RegInfo :
        /\ ClearSource(x) \in RegInfo /\ ClearSource(x).contents = x.contents
        /\ ClearSource(x).indx = NoIndex /\ ClearSource(x).iindx = NoPc
        /\ ClearSource(x).usage = x.usage /\ ClearSource(x).type = x.type
        /\ ClearSource(x).typeinfo = x.typeinfo /\ ClearSource(x).alias = x.alias
  BY DEF ClearSource, RegInfo
<1> QED BY <1>1, SameFact DEF Alike

LEMMA EqualFacts ==
  ASSUME NEW f \in RegInfo, NEW g \in RegInfo, Equal(f, g)
  PROVE  /\ Normalize(f) = Normalize(g) /\ Boundary(f) = Boundary(g)
         /\ f.iindx = g.iindx /\ (IsIntFact(f) <=> IsIntFact(g))
<1> DEFINE F == [f EXCEPT !.indx = NoIndex]
           G == [g EXCEPT !.indx = NoIndex]
<1>1. F = G /\ (HasIndexedContents(f) => f.indx = g.indx)
  BY DEF Equal
<1>2. /\ F.contents = f.contents /\ F.usage = f.usage /\ F.iindx = f.iindx /\ F.type = f.type
      /\ F.typeinfo = f.typeinfo /\ F.alias = f.alias
      /\ G.contents = g.contents /\ G.usage = g.usage /\ G.iindx = g.iindx /\ G.type = g.type
      /\ G.typeinfo = g.typeinfo /\ G.alias = g.alias
  BY DEF RegInfo
<1>3. /\ f.contents = g.contents /\ f.usage = g.usage /\ f.iindx = g.iindx /\ f.type = g.type
      /\ f.typeinfo = g.typeinfo /\ f.alias = g.alias
  BY <1>1, <1>2
<1> HIDE DEF F, G
<1>4. CASE f.indx = g.indx
  <2>1. f = g
    BY <1>3, <1>4 DEF RegInfo
  <2> QED BY <2>1
<1>5. CASE f.indx # g.indx
  <2>1. ~HasIndexedContents(f) /\ ~HasIndexedContents(g)
    BY <1>1, <1>3, <1>5 DEF HasIndexedContents
  <2>2. IsIntFact(f) <=> IsIntFact(g)
    BY <1>3, <2>1 DEF IsIntFact, HasIndexedContents
  <2>3. Normalize(f) = Normalize(g)
    <3> DEFINE ti == IF f.type = NoType THEN UNKNOWN ELSE f.typeinfo
               ct == IF f.contents = "typedvalue" THEN ValueOf(f.type) ELSE f.contents
               x == [f EXCEPT !.typeinfo = ti, !.contents = ct]
               y == [g EXCEPT !.typeinfo = ti, !.contents = ct]
               u == ClearSource(x)
               v == ClearSource(y)
    <3>1. ct \notin {"constant", "global", "upvalue"}
      BY <2>1 DEF ValueOf, HasIndexedContents
    <3>2. ~HasIndexedContents(x) /\ ~HasIndexedContents(y)
      BY <3>1 DEF RegInfo, HasIndexedContents
    <3>3. /\ Normalize(f) = IF ct = "nofact" THEN [ClearAlias(u) EXCEPT !.usage = "none"] ELSE u
          /\ Normalize(g) = IF ct = "nofact" THEN [ClearAlias(v) EXCEPT !.usage = "none"] ELSE v
      BY <1>3, <3>2 DEF Normalize
    <3> HIDE DEF ti, ct
    <3>4. u = v
      <4>1. ti \in TypeInfo /\ ct \in Contents
        BY DEF ti, ct, RegInfo, TypeInfo, Contents, ValueOf
      <4>2. /\ x \in RegInfo /\ x.contents = ct /\ x.typeinfo = ti /\ x.usage = f.usage
            /\ x.type = f.type /\ x.alias = f.alias
            /\ y \in RegInfo /\ y.contents = ct /\ y.typeinfo = ti /\ y.usage = g.usage
            /\ y.type = g.type /\ y.alias = g.alias
        BY <4>1 DEF RegInfo
      <4> HIDE DEF x, y
      <4> QED BY <1>3, <4>2, ClearedSources DEF u, v
    <3> HIDE DEF u, v
    <3> QED BY <3>3, <3>4
  <2>4. Boundary(f) = Boundary(g)
    <3> DEFINE ti == IF f.type = NoType THEN UNKNOWN ELSE f.typeinfo
               x == [ClearAlias(f) EXCEPT !.usage = "none", !.typeinfo = ti]
               y == [ClearAlias(g) EXCEPT !.usage = "none", !.typeinfo = ti]
    <3>1. Boundary(f) = ClearSource(x) /\ Boundary(g) = ClearSource(y)
      <4>1. ClearAlias(f).typeinfo = f.typeinfo /\ ClearAlias(g).typeinfo = g.typeinfo
        BY ClearAliasFact
      <4> QED BY <1>3, <2>1, <4>1 DEF Boundary
    <3> HIDE DEF ti
    <3>2. ClearSource(x) = ClearSource(y)
      <4>1. ti \in TypeInfo
        BY DEF ti, RegInfo, TypeInfo
      <4>2. /\ ClearAlias(f) \in RegInfo /\ ClearAlias(f).contents = f.contents
            /\ ClearAlias(f).type = f.type /\ ClearAlias(f).alias = NoReg
            /\ ClearAlias(g) \in RegInfo /\ ClearAlias(g).contents = g.contents
            /\ ClearAlias(g).type = g.type /\ ClearAlias(g).alias = NoReg
        BY ClearAliasFact
      <4>3. /\ x \in RegInfo /\ x.contents = f.contents /\ x.typeinfo = ti /\ x.usage = "none"
            /\ x.type = f.type /\ x.alias = NoReg
            /\ y \in RegInfo /\ y.contents = g.contents /\ y.typeinfo = ti /\ y.usage = "none"
            /\ y.type = g.type /\ y.alias = NoReg
        BY <4>1, <4>2 DEF RegInfo, Usage
      <4> HIDE DEF x, y
      <4> QED BY <1>3, <4>3, ClearedSources
    <3> HIDE DEF x, y
    <3> QED BY <3>1, <3>2
  <2> QED BY <1>3, <2>2, <2>3, <2>4
<1> QED BY <1>4, <1>5

LEMMA EqualSelf ==
  ASSUME NEW f
  PROVE  Equal(f, f)
BY DEF Equal

\* Facts are made by instructions of the function.
FromCode(f) ==
  f.iindx # NoPc => \E s \in Block : \E k \in 1 .. Len(prog.code[s]) : f.iindx = PcOf(s, k)

SourcesOK == \A b \in Block, r \in Reg : FromCode(rout[b][r])

\* The instruction at an index.
LEMMA InstrAtFacts ==
  ASSUME IsFunction(prog), NEW s \in Block, NEW k \in 1 .. Len(prog.code[s])
  PROVE  /\ PcOf(s, k) \in Pc
         /\ InstrAt(PcOf(s, k)) = prog.code[s][k]
         /\ IsInstruction(prog.code[s][k])
<1>1. Len(prog.code[s]) \in Nat /\ Len(prog.code[s]) <= Width /\ IsInstruction(prog.code[s][k])
  BY ProgramFacts
<1>2. /\ s \in Nat /\ s <= NBlock - 1 /\ NBlock \in Nat /\ Width \in Nat
      /\ Pc = 0 .. NBlock * Width - 1
  BY BlockAssumption DEF Block
<1> DEFINE j == k - 1
<1>3. j \in 0 .. Width - 1 /\ Width \in Nat \ {0} /\ j + 1 = k
  BY <1>1, <1>2
<1>4. PcOf(s, k) = s * Width + j
  <2>1. s * Width \in Int
    BY <1>2
  <2> QED BY ONLY <2>1, <1>1, k \in 1 .. Len(prog.code[s]) DEF PcOf
<1> HIDE DEF j
<1>5. (s * Width + j) \div Width = s /\ (s * Width + j) % Width = j
  BY ONLY <1>2, <1>3
<1>6. s * Width + j \in Pc
  <2>1. s * Width + Width <= NBlock * Width /\ s * Width \in Nat /\ NBlock * Width \in Nat
    BY ONLY <1>2
  <2> QED BY ONLY <1>2, <1>3, <2>1
<1> QED BY <1>1, <1>3, <1>4, <1>5, <1>6 DEF InstrAt

\* Joins of equal facts.
LEMMA JoinSame ==
  ASSUME NEW f \in RegInfo, NEW g \in RegInfo, Equal(f, g), NEW e \in RegInfo
  PROVE  Join(e, f) = Join(e, g)
<1>1. Normalize(f) = Normalize(g)
  BY EqualFacts
<1>2. Join(e, f) = Merged(e, f) /\ Join(e, g) = Merged(e, g)
  BY JoinIsMerged
<1>3. Merged(e, f) = Merged(e, g)
  BY <1>1 DEF Merged
<1> QED BY <1>2, <1>3

\* Block s ends with facts equal to those it ended with before.
SameOutput(s) == \A r \in Reg : Equal(rout[s][r], rout'[s][r])

LEMMA JoinAllSame ==
  ASSUME OutputsOK, OutputsOK', NEW f \in Ranged, NEW blocks \in Seq(Block), NEW r \in Reg,
         \A s \in ToSet(blocks) : SameOutput(s)
  PROVE  JoinAll(f, blocks, r) = (JoinAll(f, blocks, r))'
<1> DEFINE old == [k \in DOMAIN blocks |-> rout[blocks[k]][r]]
           new == [k \in DOMAIN blocks |-> rout'[blocks[k]][r]]
<1>1. /\ DOMAIN blocks = 1 .. Len(blocks) /\ Len(blocks) \in Nat
      /\ \A k \in DOMAIN blocks : rout[blocks[k]][r] \in Ranged /\ rout'[blocks[k]][r] \in Ranged
  BY DEF OutputsOK
<1>2. /\ old \in Seq(Ranged) /\ Len(old) = Len(blocks)
      /\ new \in Seq(Ranged) /\ Len(new) = Len(blocks)
  BY <1>1
<1>3. \A k \in 1 .. Len(blocks) : \A g \in Ranged : Join(g, old[k]) = Join(g, new[k])
  <2>0. Ranged \subseteq RegInfo
    BY DEF Ranged
  <2>1. \A k \in 1 .. Len(blocks) : /\ old[k] \in RegInfo /\ new[k] \in RegInfo
                                    /\ Equal(old[k], new[k])
    BY <1>1 DEF ToSet, SameOutput, Ranged
  <2> HIDE DEF old, new
  <2> QED BY <2>0, <2>1, JoinSame
<1>4. JoinAll(f, blocks, r) = ClearAlias(JoinEach(f, old))
  BY DEF JoinAll
<1>5. (JoinAll(f, blocks, r))' = ClearAlias(JoinEach(f, new))
  BY DEF JoinAll
<1> HIDE DEF old, new
<1>6. JoinEach(f, old) = JoinEach(f, new)
  BY <1>2, <1>3, JoinEachSame
<1> QED BY <1>4, <1>5, <1>6

LEMMA ResolveSame ==
  ASSUME OutputsOK, OutputsOK', NEW blocks \in Seq(Block), blocks # <<>>, NEW r \in Reg,
         \A s \in ToSet(blocks) : SameOutput(s)
  PROVE  Resolve(blocks, r) = (Resolve(blocks, r))'
<1> PICK old, new, rest : /\ old = Boundary(rout[Head(blocks)][r])
                          /\ new = Boundary(rout'[Head(blocks)][r])
                          /\ rest = Tail(blocks)
  OBVIOUS
<1>1. Head(blocks) \in Block /\ rest \in Seq(Block) /\ ToSet(blocks) = {Head(blocks)} \cup ToSet(rest)
  BY HeadTail
<1>2. rout[Head(blocks)][r] \in Ranged /\ rout'[Head(blocks)][r] \in Ranged
  BY <1>1 DEF OutputsOK
<1>3. old = new /\ old \in Ranged
  <2>1. Equal(rout[Head(blocks)][r], rout'[Head(blocks)][r])
    BY <1>1 DEF SameOutput
  <2> QED BY <1>2, <2>1, EqualFacts, BoundaryFacts DEF Ranged, Weakens
<1>4. Resolve(blocks, r) = JoinAll(old, rest, r)
  BY DEF Resolve
<1>5. (Resolve(blocks, r))' = (JoinAll(new, rest, r))'
  BY DEF Resolve
<1>6. \A f \in Ranged : JoinAll(f, rest, r) = (JoinAll(f, rest, r))'
  BY <1>1, JoinAllSame
<1>7. (JoinAll(new, rest, r))' = JoinAll(old, rest, r)
  BY <1>3, <1>6
<1> QED BY <1>4, <1>5, <1>7

LEMMA UpdateSame ==
  ASSUME OutputsOK, OutputsOK', SourcesOK, IsFunction(prog), prog' = prog,
         NEW s \in Block, NEW r \in Reg, SameOutput(s)
  PROVE  IsIntPreservingLoopUpdate(s, r) <=> (IsIntPreservingLoopUpdate(s, r))'
<1> DEFINE pc == rout[s][r].iindx
           write == InstrAt(pc)
           x == IF write[3] = r THEN write[4] ELSE write[3]
<1>1. \A y \in Reg : /\ rout[s][y] \in RegInfo /\ rout'[s][y] \in RegInfo
                     /\ rout[s][y].iindx = rout'[s][y].iindx
                     /\ IsIntFact(rout[s][y]) <=> IsIntFact(rout'[s][y])
  BY EqualFacts DEF OutputsOK, Ranged, SameOutput
<1>2. pc = rout'[s][r].iindx
  BY <1>1
<1>3. IsIntPreservingLoopUpdate(s, r) <=>
        /\ pc # NoPc /\ write[1] = "arith" /\ write[2] = r /\ r \in {write[3], write[4]}
        /\ IsIntFact(rout[s][x])
  BY DEF IsIntPreservingLoopUpdate
<1>4. (IsIntPreservingLoopUpdate(s, r))' <=>
        /\ pc # NoPc /\ write[1] = "arith" /\ write[2] = r /\ r \in {write[3], write[4]}
        /\ IsIntFact(rout'[s][x])
  <2>1. (InstrAt(pc))' = InstrAt(pc)
    BY <1>2 DEF InstrAt
  <2> QED BY <1>2, <2>1 DEF IsIntPreservingLoopUpdate
<1>5. pc # NoPc /\ write[1] = "arith" => x \in Reg
  <2>1. SUFFICES ASSUME pc # NoPc, write[1] = "arith" PROVE x \in Reg
    OBVIOUS
  <2>2. PICK b \in Block : \E k \in 1 .. Len(prog.code[b]) : pc = PcOf(b, k)
    BY <2>1 DEF SourcesOK, FromCode
  <2>3. PICK k \in 1 .. Len(prog.code[b]) : pc = PcOf(b, k)
    BY <2>2
  <2>4. write = prog.code[b][k] /\ IsInstruction(write)
    BY <2>3, InstrAtFacts
  <2> HIDE DEF write
  <2> QED BY <2>1, <2>4 DEF IsInstruction, WellFormed
<1> HIDE DEF pc, write, x
<1>6. x \in Reg => (IsIntFact(rout[s][x]) <=> IsIntFact(rout'[s][x]))
  BY <1>1
<1> QED BY <1>3, <1>4, <1>5, <1>6

LEMMA HeaderSame ==
  ASSUME OutputsOK, OutputsOK', SourcesOK, IsFunction(prog), prog' = prog,
         loopblocks' = loopblocks, NEW h \in Block, NEW r \in Reg, IsLoopHeader(prog, h),
         \A s \in Preds(prog, h) : SameOutput(s)
  PROVE  HeaderFact(h, r) = (HeaderFact(h, r))'
<1> PICK src, ls : src = prog.src[h] /\ ls = LoopSources(prog, h)
  OBVIOUS
<1> PICK entry, back : entry = Among(src, Block \ ls) /\ back = Among(src, ls)
  OBVIOUS
<1> DEFINE old   == Boundary(Resolve(entry, r))
           grows == IsIntFact(old) /\ \A s \in ToSet(back) : IsIntPreservingLoopUpdate(s, r)
<1>1. /\ src \in Seq(Block) /\ ToSet(src) = Preds(prog, h)
      /\ Preds(prog, h) \in SUBSET Block
      /\ ls \in SUBSET Preds(prog, h) /\ ls # {}
  BY ProgramFacts, LoopFacts DEF Preds, IsLoopHeader
<1>2. /\ entry \in Seq(Block) /\ ToSet(entry) \subseteq Preds(prog, h)
      /\ back \in Seq(Block) /\ ToSet(back) \subseteq Preds(prog, h)
  <2>1. /\ entry \in Seq(Block) /\ ToSet(entry) = ToSet(src) \cap (Block \ ls)
        /\ back \in Seq(Block) /\ ToSet(back) = ToSet(src) \cap ls
    BY <1>1, AmongFacts
  <2> QED BY <1>1, <2>1
<1>3. src # <<>>
  BY <1>1, Members
<1>4. HeaderFact(h, r) =
        CASE entry = <<>>                                     -> Resolve(src, r)
          [] entry # <<>> /\ ~LoopWrites(h, r)                -> old
          [] entry # <<>> /\ LoopWrites(h, r) /\ grows        -> ExactIntFact(old)
          [] OTHER                                            -> JoinAll(old, back, r)
  BY DEF HeaderFact, Resolve, JoinAll
<1> PICK new : new = Boundary((Resolve(entry, r))')
  OBVIOUS
<1> DEFINE grow2 == IsIntFact(new) /\ \A s \in ToSet(back) : (IsIntPreservingLoopUpdate(s, r))'
<1>5. (HeaderFact(h, r))' =
        CASE entry = <<>>                                     -> (Resolve(src, r))'
          [] entry # <<>> /\ ~(LoopWrites(h, r))'             -> new
          [] entry # <<>> /\ (LoopWrites(h, r))' /\ grow2     -> ExactIntFact(new)
          [] OTHER                                            -> (JoinAll(new, back, r))'
  BY DEF HeaderFact, Resolve, JoinAll
<1>6. LoopWrites(h, r) <=> (LoopWrites(h, r))'
  BY DEF LoopWrites
<1>7. Resolve(src, r) = (Resolve(src, r))'
  BY <1>1, <1>3, ResolveSame
<1>8. CASE entry = <<>>
  BY <1>4, <1>5, <1>7, <1>8
<1>9. CASE entry # <<>>
  <2>1. old = new
    BY <1>2, <1>9, ResolveSame
  <2>2. old \in Ranged
    BY <1>2, <1>9, ResolveFacts, BoundaryFacts DEF Ranged, Weakens
  <2>3. grows <=> grow2
    <3>1. \A s \in ToSet(back) : s \in Block /\ SameOutput(s)
      BY <1>1, <1>2
    <3>2. \A s \in ToSet(back) :
             IsIntPreservingLoopUpdate(s, r) <=> (IsIntPreservingLoopUpdate(s, r))'
      BY <3>1, UpdateSame
    <3> HIDE DEF old
    <3> QED BY <2>1, <3>2
  <2>4. JoinAll(old, back, r) = (JoinAll(new, back, r))'
    <3>1. \A f \in Ranged : JoinAll(f, back, r) = (JoinAll(f, back, r))'
      BY <1>2, JoinAllSame
    <3> HIDE DEF old
    <3> QED BY <2>1, <2>2, <3>1
  <2> HIDE DEF old, grows, grow2
  <2> QED BY <1>4, <1>5, <1>6, <1>9, <2>1, <2>3, <2>4
<1> QED BY <1>8, <1>9

LEMMA InputSame ==
  ASSUME OutputsOK, OutputsOK', SourcesOK, IsFunction(prog), prog' = prog,
         loopblocks' = loopblocks, NEW b \in Block,
         \A s \in Preds(prog, b) : SameOutput(s)
  PROVE  JoinInput(b) = (JoinInput(b))'
<1> PICK src : src = prog.src[b]
  OBVIOUS
<1>1. src \in Seq(Block) /\ ToSet(src) = Preds(prog, b)
  BY ProgramFacts DEF Preds
<1>2. ASSUME NEW r \in Reg
      PROVE  JoinInput(b)[r] = (JoinInput(b))'[r]
  <2>1. CASE b = Entry \/ src = <<>> \/ IsPreservedEntryRegister(r)
    BY <2>1 DEF JoinInput
  <2>2. CASE ~(b = Entry \/ src = <<>> \/ IsPreservedEntryRegister(r))
    <3>1. /\ JoinInput(b)[r] = IF IsLoopHeader(prog, b) THEN HeaderFact(b, r)
                               ELSE Resolve(src, r)
          /\ (JoinInput(b))'[r] = IF IsLoopHeader(prog, b) THEN (HeaderFact(b, r))'
                                  ELSE (Resolve(src, r))'
      BY <2>2 DEF JoinInput, Resolve, JoinAll
    <3>2. IsLoopHeader(prog, b) => HeaderFact(b, r) = (HeaderFact(b, r))'
      BY HeaderSame
    <3>3. Resolve(src, r) = (Resolve(src, r))'
      BY <1>1, <2>2, ResolveSame
    <3> QED BY <3>1, <3>2, <3>3
  <2> QED BY <2>1, <2>2
<1>3. JoinInput(b) = [r \in Reg |-> JoinInput(b)[r]]
  BY DEF JoinInput
<1>4. (JoinInput(b))' = [r \in Reg |-> (JoinInput(b))'[r]]
  BY DEF JoinInput
<1> QED BY <1>2, <1>3, <1>4

-----------------------------------------------------------------------------
(***************************************************************************)
(* What the function does.                                                 *)
(***************************************************************************)
\* An instruction leaves a machine, keeps the globals to what is known of them, and
\* leaves alone what it does not clobber.
LEMMA EffectsFacts ==
  ASSUME NEW m \in Machine, GlobalsOK(m.glob), NEW i, IsInstruction(i), NEW n \in Effects(m, i)
  PROVE  /\ n \in Machine /\ GlobalsOK(n.glob)
         /\ \A r \in Reg \ Clobbered(i) : n.regs[r] = m.regs[r]
         /\ i[1] \notin {"sgl", "sup", "call"} => n.glob = m.glob /\ n.upv = m.upv
<1>m. /\ m.regs \in [Reg -> Val] /\ m.glob \in [Glob -> Val] /\ m.upv \in [Upv -> Val]
  BY DEF Machine
<1>1. CASE i[1] = "call" /\ i[2] \in Reg /\ i[3] \in Nat /\ i[2] + i[3] < NReg
  <2> DEFINE W == i[2] .. i[2] + i[3]
  <2>1. W \in SUBSET Reg
    BY <1>1, RegAssumption DEF Reg
  <2>2. PICK o \in Results(m, i) : n = After(m, o)
    BY <1>1 DEF Effects
  <2>3. o \in Outcomes(W, Glob \cup Upv)
    BY <2>2 DEF Results
  <2>4. Clobbered(i) = W
    BY <1>1 DEF Clobbered
  <2> HIDE DEF W
  <2> QED BY <1>1, <2>1, <2>2, <2>3, <2>4, AfterFact
<1>2. CASE i[1] = "sgl" /\ i[2] \in Reg /\ i[3] \in Glob
  <2>1. n = Exec(m, i) /\ Keeps(m, i)
    BY <1>2 DEF Effects
  <2>2. n = [m EXCEPT !.glob[i[3]] = m.regs[i[2]]]
    BY <1>2, <2>1 DEF Exec
  <2>3. n \in Machine /\ n.regs = m.regs /\ n.glob = [m.glob EXCEPT ![i[3]] = m.regs[i[2]]]
    BY <1>m, <1>2, <2>2 DEF Machine
  <2>4. Satisfies(m.regs[i[2]], GlobalType[i[3]].type, GlobalType[i[3]].typeinfo)
    BY <1>2, <2>1 DEF Keeps
  <2>5. GlobalsOK(n.glob)
    BY <1>m, <1>2, <2>3, <2>4 DEF GlobalsOK
  <2> QED BY <1>2, <2>3, <2>5
<1>3. CASE WellFormed(i)
  <2>1. i[1] # "call"
    BY <1>3 DEF WellFormed
  <2>2. n = Exec(m, i)
    BY <2>1 DEF Effects
  <2>3. ASSUME NEW v \in Val, i[2] \in Reg, n = SetReg(m, i[2], v), Clobbered(i) = {i[2]}
        PROVE  /\ n \in Machine /\ n.glob = m.glob /\ n.upv = m.upv
               /\ \A r \in Reg \ Clobbered(i) : n.regs[r] = m.regs[r]
    BY <2>3, SetRegMachine DEF SameBut
  <2>4. CASE i[1] \in {"mov", "lct", "lgl", "lup"}
    <3>1. \E v \in Val : i[2] \in Reg /\ n = SetReg(m, i[2], v)
      BY <1>m, <1>3, <2>2, <2>4 DEF WellFormed, Exec
    <3>2. Clobbered(i) = {i[2]}
      BY <2>4 DEF Clobbered, Overwritten
    <3> QED BY <2>3, <3>1, <3>2
  <2>5. CASE i[1] \in {"arith", "compare"}
    <3>1. i[2] \in Reg /\ m.regs[i[3]] \in Val /\ m.regs[i[4]] \in Val
      BY <1>m, <1>3, <2>5 DEF WellFormed
    <3> DEFINE v == Arith[m.regs[i[3]]][m.regs[i[4]]]
               w == Compare[m.regs[i[3]]][m.regs[i[4]]]
    <3>2. v \in Val /\ w \in Val
      BY <3>1, NumberAssumption
    <3>3. n = SetReg(m, i[2], v) \/ n = SetReg(m, i[2], w)
      BY <2>2, <2>5 DEF Exec
    <3>4. Clobbered(i) = {i[2]}
      BY <2>5 DEF Clobbered, Overwritten
    <3> HIDE DEF v, w
    <3> QED BY <2>3, <3>1, <3>2, <3>3, <3>4
  <2>6. CASE i[1] = "sup"
    <3>1. n = [m EXCEPT !.upv[i[2]] = m.regs[i[3]]] /\ i[2] \in Upv /\ i[3] \in Reg
      BY <1>3, <2>2, <2>6 DEF Exec, WellFormed
    <3> QED BY <1>m, <2>6, <3>1 DEF Machine
  <2>7. CASE i[1] \in {"print", "nop"}
    <3>1. n = m
      BY <2>2, <2>7 DEF Exec
    <3> QED BY <3>1
  <2> QED BY <1>3, <2>4, <2>5, <2>6, <2>7 DEF WellFormed
<1> QED BY <1>1, <1>2, <1>3 DEF IsInstruction

\* The machines of a run of a block: those that may be there after each instruction.
RunThrough(R, b, m) ==
  /\ R[0] = {m}
  /\ \A k \in 1 .. Len(prog.code[b]) :
       R[k] = UNION {Effects(n, prog.code[b][k]) : n \in R[k - 1]}

LEMMA RunsThrough ==
  ASSUME IsFunction(prog), NEW b \in Block, NEW m \in Machine, GlobalsOK(m.glob)
  PROVE  \E R \in [0 .. Len(prog.code[b]) -> SUBSET {n \in Machine : GlobalsOK(n.glob)}] :
           RunThrough(R, b, m) /\ Runs(b, m) = R[Len(prog.code[b])]
<1> DEFINE M == {n \in Machine : GlobalsOK(n.glob)}
<1> PICK code : code = prog.code[b]
  OBVIOUS
<1> PICK n : n = Len(code)
  OBVIOUS
<1> DEFINE Rec(t) == [k \in 0 .. n |-> IF k = 0 THEN {m} ELSE UNION {Effects(x, code[k]) : x \in t[k - 1]}]
           run == CHOOSE t : t = Rec(t)
           step == [k \in 1 .. n |-> [N \in SUBSET M |-> UNION {Effects(x, code[k]) : x \in N}]]
<1>1. n \in Nat /\ \A k \in 1 .. n : IsInstruction(code[k])
  BY ProgramFacts
<1>2. \A k \in 1 .. n : \A N \in SUBSET M : UNION {Effects(x, code[k]) : x \in N} \in SUBSET M
  BY <1>1, EffectsFacts
<1>3. step \in [1 .. n -> [SUBSET M -> SUBSET M]]
  BY <1>2
<1>4. {m} \in SUBSET M
  OBVIOUS
<1> HIDE DEF M
<1>5. PICK t \in [0 .. n -> SUBSET M] : Iteration(t, n, {m}, step)
  <2> HIDE DEF step
  <2> QED BY <1>1, <1>3, <1>4, Iterates
<1>6. t[0] = {m} /\ \A k \in 1 .. n : t[k] = UNION {Effects(x, code[k]) : x \in t[k - 1]}
  <2>1. \A k \in 1 .. n : k - 1 \in 0 .. n /\ t[k - 1] \in SUBSET M
    BY <1>1
  <2>2. \A k \in 1 .. n : t[k] = step[k][t[k - 1]]
    BY <1>5 DEF Iteration
  <2>3. t[0] = {m}
    BY <1>5 DEF Iteration
  <2> QED BY <2>1, <2>2, <2>3
<1>7. t = Rec(t)
  <2> DEFINE Go(k) == UNION {Effects(x, code[k]) : x \in t[k - 1]}
  <2>1. \A k \in 0 .. n : t[k] = IF k = 0 THEN {m} ELSE Go(k)
    <3>1. t[0] = {m} /\ \A k \in 1 .. n : t[k] = Go(k)
      BY <1>6
    <3>2. \A k \in 0 .. n : k = 0 \/ k \in 1 .. n
      BY <1>1
    <3> HIDE DEF Go
    <3>3. ASSUME NEW k \in 0 .. n
          PROVE  t[k] = IF k = 0 THEN {m} ELSE Go(k)
      <4>1. CASE k = 0
        BY <3>1, <4>1
      <4>2. CASE k # 0
        BY <3>1, <3>2, <4>2
      <4> QED BY <4>1, <4>2
    <3> QED BY <3>3
  <2> QED BY <2>1
<1>8. run = Rec(run)
  BY <1>7
<1>9. Runs(b, m) = run[n]
  BY DEF Runs
<1> HIDE DEF run
<1>10. /\ DOMAIN run = 0 .. n
       /\ \A k \in 0 .. n : run[k] = IF k = 0 THEN {m} ELSE UNION {Effects(x, code[k]) : x \in run[k - 1]}
  BY <1>8
<1> DEFINE Agreed == {k \in 0 .. n : run[k] = t[k]}
<1>11. 0 .. n \subseteq Agreed
  <2>1. 0 \in Agreed
    BY <1>1, <1>6, <1>10
  <2>2. ASSUME NEW k \in 1 .. n, k - 1 \in Agreed
        PROVE  k \in Agreed
    <3>1. k \in 0 .. n /\ k # 0 /\ run[k - 1] = t[k - 1]
      BY <1>1, <2>2
    <3> QED BY <1>6, <1>10, <3>1
  <2>3. Agreed \in SUBSET (0 .. n)
    OBVIOUS
  <2> HIDE DEF Agreed
  <2> QED BY <1>1, <2>1, <2>2, <2>3, Upward
<1>12. run[n] = t[n]
  BY <1>1, <1>11
<1>13. t \in [0 .. Len(prog.code[b]) -> SUBSET {x \in Machine : GlobalsOK(x.glob)}]
  BY DEF M
<1>14. RunThrough(t, b, m)
  BY <1>6 DEF RunThrough
<1> HIDE DEF step, Rec, Agreed
<1> QED BY <1>9, <1>12, <1>13, <1>14

-----------------------------------------------------------------------------
(***************************************************************************)
(* The analysis.                                                           *)
(***************************************************************************)
\* Blocks that are known to be reached: visited, on the worklist, or current.
Seen == visited \cup ToSet(worklist) \cup {current}

\* Block b has seen what its predecessors end with.
UpToDate(b) == rin[b] = JoinInput(b)

Kinds ==
  /\ IsFunction(prog)
  /\ loopblocks = [h \in Block |-> LoopBlocks(prog, h)]
  /\ worklist \in Seq(Block) /\ visited \in SUBSET Block
  /\ rin \in [Block -> [Reg -> Ranged]] /\ OutputsOK /\ rlist \in [Reg -> Ranged]
  /\ current \in Block \cup {NoBlock} /\ pos \in 1 .. Width + 1
  /\ machine \in Machine /\ at \in Block \cup {NotCalled, Returned}
  /\ at \in Block => GlobalsOK(machine.glob)

Progress ==
  /\ SourcesOK /\ \A r \in Reg : FromCode(rlist[r])
  /\ current # NoBlock => UpToDate(current)
  /\ \A b \in visited \ (ToSet(worklist) \cup {current}) : UpToDate(b)
  /\ Entry \in Seen /\ \A b \in visited : ToSet(prog.dest[b]) \subseteq Seen
  /\ at # NotCalled => current = NoBlock /\ worklist = <<>>

AInv == Kinds /\ Progress

\* A step that changes nothing that facts are joined from.
LEMMA NothingNew ==
  ASSUME AInv, prog' = prog, loopblocks' = loopblocks, rout' = rout
  PROVE  \A b \in Block : JoinInput(b) = (JoinInput(b))'
<1>1. /\ IsFunction(prog) /\ OutputsOK /\ SourcesOK
  BY DEF AInv, Kinds, Progress
<1>2. OutputsOK'
  BY <1>1 DEF OutputsOK
<1>3. ASSUME NEW b \in Block
      PROVE  JoinInput(b) = (JoinInput(b))'
  <2>1. \A s \in Preds(prog, b) : SameOutput(s)
    BY EqualSelf DEF SameOutput
  <2> QED BY <1>1, <1>2, <2>1, InputSame
<1> QED BY <1>3

\* Facts of the functions stay facts of it.
LEMMA SameSources ==
  ASSUME prog' = prog
  PROVE  \A f : FromCode(f) <=> (FromCode(f))'
BY DEF FromCode, PcOf

LEMMA InitHolds == Init => AInv
<1> SUFFICES ASSUME Init PROVE AInv
  OBVIOUS
<1>1. /\ prog \in Programs /\ worklist = <<Entry>> /\ visited = {} /\ current = NoBlock
      /\ loopblocks = [h \in Block |-> LoopBlocks(prog, h)]
      /\ rin = [b \in Block |-> [r \in Reg |-> InitFact]] /\ rout = rin
      /\ pos = 1 /\ rlist = rin[Entry] /\ machine = (CHOOSE m \in Machine : TRUE)
      /\ at = NotCalled
  BY DEF Init
<1>2. Entry \in Block /\ Width \in Nat
  BY BlockAssumption DEF Entry, Block
<1>3. InitFact \in Ranged /\ InitFact.iindx = NoPc
  BY DEF InitFact, Ranged, RegInfo, Contents, Usage, TypeInfo, InRange
<1>4. machine \in Machine
  <2>1. PICK v : v \in Val
    BY ValueAssumption
  <2>2. [regs |-> [r \in Reg |-> v], glob |-> [g \in Glob |-> v], upv |-> [u \in Upv |-> v]] \in Machine
    BY <2>1 DEF Machine
  <2> QED BY <1>1, <2>2
<1>5. worklist \in Seq(Block) /\ ToSet(worklist) = {Entry}
  BY <1>1, <1>2, Members
<1>6. Kinds
  BY <1>1, <1>2, <1>3, <1>4, <1>5, ProgramAssumption DEF Kinds, OutputsOK, NotCalled, Block
<1>7. \A b \in Block, r \in Reg : FromCode(rout[b][r]) /\ FromCode(rlist[r])
  BY <1>1, <1>2, <1>3 DEF FromCode
<1>8. Progress
  BY <1>1, <1>2, <1>5, <1>7 DEF Progress, SourcesOK, Seen
<1> QED BY <1>6, <1>8 DEF AInv

LEMMA TakeBlockHolds ==
  ASSUME AInv, TakeBlock
  PROVE  AInv'
<1> PICK b : b = Last(worklist)
  OBVIOUS
<1>1. /\ current = NoBlock /\ worklist # <<>> /\ worklist' = Front(worklist) /\ current' = b
      /\ rlist' = JoinInput(b) /\ rin' = [rin EXCEPT ![b] = rlist'] /\ pos' = 1
      /\ UNCHANGED <<prog, loopblocks, visited, rout, machine, at>>
  BY DEF TakeBlock
<1>2. Kinds /\ Progress
  BY DEF AInv
<1>3. /\ worklist' \in Seq(Block) /\ b \in Block
      /\ ToSet(worklist) = ToSet(worklist') \cup {b}
  BY <1>1, <1>2, Popped DEF Kinds
<1>4. /\ JoinInput(b) \in [Reg -> Ranged]
      /\ \A r \in Reg : \/ JoinInput(b)[r].iindx = NoPc
                        \/ \E s \in Block : JoinInput(b)[r].iindx = rout[s][r].iindx
  BY <1>2, <1>3, InputFacts DEF Kinds
<1>5. /\ rin' \in [Block -> [Reg -> Ranged]] /\ rin'[b] = JoinInput(b)
      /\ \A c \in Block : c # b => rin'[c] = rin[c]
  BY <1>1, <1>2, <1>3, <1>4 DEF Kinds
<1>6. Kinds'
  <2>1. 1 \in 1 .. Width + 1
    BY BlockAssumption
  <2> QED BY <1>1, <1>2, <1>3, <1>4, <1>5, <2>1 DEF Kinds, OutputsOK
<1>7. \A c \in Block : (JoinInput(c))' = JoinInput(c)
  BY <1>1, NothingNew
<1>8. \A f : FromCode(f) <=> (FromCode(f))'
  BY <1>1, SameSources
<1>9. SourcesOK' /\ \A r \in Reg : (FromCode(rlist[r]))'
  <2>1. \A c \in Block, r \in Reg : FromCode(rout[c][r])
    BY <1>2 DEF Progress, SourcesOK
  <2>2. \A r \in Reg : FromCode(JoinInput(b)[r])
    BY <1>4, <2>1 DEF FromCode
  <2>3. \A c \in Block, r \in Reg : (FromCode(rout[c][r]))'
    BY <1>1, <2>1 DEF FromCode, PcOf
  <2>4. \A r \in Reg : (FromCode(rlist[r]))'
    BY <1>1, <2>2 DEF FromCode, PcOf
  <2> QED BY <2>3, <2>4 DEF SourcesOK
<1>10. Seen' = Seen \ {NoBlock} \/ Seen' = Seen
  BY <1>1, <1>3 DEF Seen
<1>11. (current # NoBlock => UpToDate(current))'
  BY <1>1, <1>3, <1>5, <1>7 DEF UpToDate
<1>12. ASSUME NEW c \in visited, c \notin ToSet(worklist'), c # b
       PROVE  (UpToDate(c))'
  <2>1. c \in Block /\ UpToDate(c)
    BY <1>1, <1>2, <1>3, <1>12 DEF Kinds, Progress, NoBlock, Block
  <2> QED BY <1>1, <1>5, <1>7, <1>12, <2>1 DEF UpToDate
<1>13. (Entry \in Seen /\ \A c \in visited : ToSet(prog.dest[c]) \subseteq Seen)'
  <2>1. NoBlock \notin Block /\ Entry \in Block
    BY BlockAssumption DEF Block, NoBlock, Entry
  <2>2. \A c \in Block : ToSet(prog.dest[c]) \subseteq Block
    BY <1>2, ProgramFacts DEF Kinds
  <2> QED BY <1>1, <1>2, <1>10, <2>1, <2>2 DEF Kinds, Progress
<1>14. at = NotCalled
  BY <1>1, <1>2 DEF Progress
<1> QED BY <1>1, <1>6, <1>9, <1>11, <1>12, <1>13, <1>14 DEF AInv, Progress

LEMMA SimulateHolds ==
  ASSUME AInv, Simulate
  PROVE  AInv'
<1> PICK i, pc, ml : /\ i = prog.code[current][pos] /\ pc = PcOf(current, pos)
                     /\ ml = MarkUsed(rlist, i)
  OBVIOUS
<1>1. /\ current # NoBlock /\ pos <= Len(prog.code[current])
      /\ rlist' = TrackAny(ml, pc, i) /\ pos' = pos + 1
      /\ UNCHANGED <<prog, loopblocks, worklist, visited, rin, rout, current, machine, at>>
  BY DEF Simulate
<1>2. Kinds /\ Progress
  BY DEF AInv
<1>3. /\ current \in Block /\ IsFunction(prog) /\ pos \in 1 .. Len(prog.code[current])
      /\ Len(prog.code[current]) \in Nat /\ Len(prog.code[current]) <= Width
  BY <1>1, <1>2, ProgramFacts DEF Kinds
<1>4. pc \in Pc /\ IsInstruction(i)
  BY <1>3, InstrAtFacts
<1>5. Facts(rlist)
  BY <1>2 DEF Kinds, Facts, RegInfoList, Ranged
<1>6. Follows(rlist, ml, pc, TRUE) /\ Follows(ml, rlist', pc, IsLoad(i))
  <2>1. Follows(rlist, ml, pc, TRUE)
    BY <1>4, <1>5, MarkUsedFollows
  <2>2. Facts(ml)
    BY <2>1 DEF Follows
  <2> QED BY <1>1, <1>4, <2>1, <2>2, TrackFollows
<1>7. /\ rlist' \in [Reg -> Ranged]
      /\ \A r \in Reg : rlist'[r].iindx \in {rlist[r].iindx, NoPc, pc}
  <2>1. Facts(rlist') /\ \A r \in Reg : rlist'[r].iindx \in {rlist[r].iindx, NoPc, pc}
    BY <1>6 DEF Follows
  <2> QED BY <2>1 DEF Facts, RegInfoList, Ranged
<1>8. Kinds'
  <2>1. pos' \in 1 .. Width + 1
    BY <1>1, <1>3, BlockAssumption
  <2> QED BY <1>1, <1>2, <1>7, <2>1 DEF Kinds, OutputsOK
<1>9. \A c \in Block : (JoinInput(c))' = JoinInput(c)
  BY <1>1, NothingNew
<1>10. SourcesOK' /\ \A r \in Reg : (FromCode(rlist[r]))'
  <2>1. \A c \in Block, r \in Reg : FromCode(rout[c][r]) /\ FromCode(rlist[r])
    BY <1>2 DEF Progress, SourcesOK
  <2>2. \A r \in Reg : (FromCode(rlist[r]))'
    BY <1>1, <1>3, <1>7, <2>1 DEF FromCode, PcOf
  <2>3. \A c \in Block, r \in Reg : (FromCode(rout[c][r]))'
    BY <1>1, <2>1 DEF FromCode, PcOf
  <2> QED BY <2>2, <2>3 DEF SourcesOK
<1>11. Seen' = Seen
  BY <1>1 DEF Seen
<1>12. \A c \in Block : UpToDate(c) => (UpToDate(c))'
  BY <1>1, <1>9 DEF UpToDate
<1>13. Progress'
  BY <1>1, <1>2, <1>3, <1>10, <1>11, <1>12 DEF Progress, Kinds
<1> QED BY <1>8, <1>13 DEF AInv

LEMMA LeaveBlockHolds ==
  ASSUME AInv, LeaveBlock
  PROVE  AInv'
<1> PICK b, q : b = current /\ q = Queues(current, rlist)
  OBVIOUS
<1>1. /\ b # NoBlock /\ rout' = [rout EXCEPT ![b] = rlist] /\ worklist' = worklist \o q
      /\ visited' = visited \cup {b} /\ current' = NoBlock
      /\ UNCHANGED <<prog, loopblocks, rin, pos, rlist, machine, at>>
  BY DEF LeaveBlock
<1>2. Kinds /\ Progress
  BY DEF AInv
<1>3. b \in Block /\ IsFunction(prog) /\ current = b /\ NoBlock \notin Block
  BY <1>1, <1>2 DEF Kinds, NoBlock, Block
<1>4. /\ q \in Seq(Block) /\ ToSet(q) \subseteq ToSet(prog.dest[b])
      /\ \/ q = prog.dest[b]
         \/ b \in visited /\ \A r \in Reg : Equal(rout[b][r], rlist[r])
  <2>1. prog.dest[b] \in Seq(Block) /\ <<>> \in Seq(Block) /\ ToSet(<<>>) = {}
    BY <1>3, ProgramFacts, Members
  <2> QED BY <1>3, <2>1 DEF Queues
<1>5. worklist' \in Seq(Block) /\ ToSet(worklist') = ToSet(worklist) \cup ToSet(q)
  BY <1>1, <1>2, <1>4, Chained DEF Kinds
<1>6. /\ rout' \in [Block -> [Reg -> Ranged]] /\ rout'[b] = rlist
      /\ \A c \in Block : c # b => rout'[c] = rout[c]
  BY <1>1, <1>2, <1>3 DEF Kinds, OutputsOK
<1>7. Kinds'
  BY <1>1, <1>2, <1>3, <1>5, <1>6 DEF Kinds, OutputsOK
<1>8. SourcesOK' /\ \A r \in Reg : (FromCode(rlist[r]))'
  <2>1. /\ \A c \in Block, r \in Reg : FromCode(rout[c][r])
        /\ \A r \in Reg : FromCode(rlist[r])
    BY <1>2 DEF Progress, SourcesOK
  <2>2. \A r \in Reg : (FromCode(rlist[r]))'
    BY <1>1, <2>1 DEF FromCode, PcOf
  <2>3. \A c \in Block, r \in Reg : (FromCode(rout[c][r]))'
    BY <1>1, <1>6, <2>1 DEF FromCode, PcOf
  <2> QED BY <2>2, <2>3 DEF SourcesOK
<1>9. ASSUME NEW c \in visited', c \notin ToSet(worklist')
      PROVE  (UpToDate(c))'
  <2>1. c \in Block
    BY <1>7, <1>9 DEF Kinds
  <2>2. UpToDate(c)
    BY <1>1, <1>2, <1>3, <1>5, <1>9 DEF Progress
  <2>3. \A s \in Preds(prog, c) : SameOutput(s)
    <3>1. ASSUME NEW s \in Preds(prog, c)
          PROVE  SameOutput(s)
      <4>1. s \in Block /\ c \in ToSet(prog.dest[s])
        BY <1>3, <2>1, ProgramFacts
      <4>2. CASE s # b
        BY <1>6, <4>1, <4>2, EqualSelf DEF SameOutput
      <4>3. CASE s = b
        BY <1>4, <1>5, <1>6, <1>9, <4>1, <4>3 DEF SameOutput
      <4> QED BY <4>2, <4>3
    <3> QED BY <3>1
  <2>4. JoinInput(c) = (JoinInput(c))'
    BY <1>1, <1>2, <1>7, <2>1, <2>3, InputSame DEF Kinds, Progress
  <2> QED BY <1>1, <2>2, <2>4 DEF UpToDate
<1>10. Seen \subseteq Seen' /\ ToSet(q) \subseteq Seen'
  BY <1>1, <1>3, <1>5 DEF Seen
<1>11. \A c \in visited' : ToSet(prog.dest[c]) \subseteq Seen'
  BY <1>1, <1>2, <1>4, <1>10 DEF Progress
<1>12. at = NotCalled
  BY <1>1, <1>2, <1>3 DEF Progress
<1> QED BY <1>1, <1>2, <1>7, <1>8, <1>9, <1>10, <1>11, <1>12 DEF AInv, Progress

LEMMA CallHolds ==
  ASSUME AInv, Called \/ Run
  PROVE  AInv'
<1>1. Kinds /\ Progress
  BY DEF AInv
<1>2. UNCHANGED <<prog, loopblocks, worklist, visited, rin, rout, current, pos, rlist>>
  BY DEF Called, Run, analysis
<1>3. /\ machine' \in Machine /\ at' \in Block \cup {Returned}
      /\ at' \in Block => GlobalsOK(machine'.glob)
      /\ current = NoBlock /\ worklist = <<>>
  <2>1. CASE Called
    <3>1. machine' \in Entering /\ at' = Entry /\ current = NoBlock /\ worklist = <<>>
      BY <2>1 DEF Called
    <3>2. Entry \in Block
      BY BlockAssumption DEF Entry, Block
    <3> QED BY <3>1, <3>2 DEF Entering
  <2>2. CASE Run
    <3>1. /\ at \in Block /\ machine' \in Runs(at, machine)
          /\ at' \in IF prog.dest[at] = <<>> THEN {Returned} ELSE ToSet(prog.dest[at])
      BY <2>2 DEF Run
    <3>2. ToSet(prog.dest[at]) \subseteq Block
      BY <1>1, <3>1, ProgramFacts DEF Kinds
    <3>3. machine' \in Machine /\ GlobalsOK(machine'.glob)
      <4>1. PICK R \in [0 .. Len(prog.code[at]) -> SUBSET {n \in Machine : GlobalsOK(n.glob)}] :
                   Runs(at, machine) = R[Len(prog.code[at])]
        BY <1>1, <3>1, RunsThrough DEF Kinds
      <4>2. Len(prog.code[at]) \in 0 .. Len(prog.code[at])
        BY <1>1, <3>1, ProgramFacts DEF Kinds
      <4> QED BY <3>1, <4>1, <4>2
    <3>4. at # NotCalled
      BY <3>1 DEF NotCalled, Block
    <3> QED BY <1>1, <3>1, <3>2, <3>3, <3>4 DEF Progress
  <2> QED BY <2>1, <2>2
<1>4. Kinds'
  BY <1>1, <1>2, <1>3 DEF Kinds, OutputsOK
<1>5. \A c \in Block : (JoinInput(c))' = JoinInput(c)
  BY <1>2, NothingNew
<1>6. SourcesOK' /\ \A r \in Reg : (FromCode(rlist[r]))'
  <2>1. /\ \A c \in Block, r \in Reg : FromCode(rout[c][r])
        /\ \A r \in Reg : FromCode(rlist[r])
    BY <1>1 DEF Progress, SourcesOK
  <2>2. \A r \in Reg : (FromCode(rlist[r]))'
    BY <1>2, <2>1 DEF FromCode, PcOf
  <2>3. \A c \in Block, r \in Reg : (FromCode(rout[c][r]))'
    BY <1>2, <2>1 DEF FromCode, PcOf
  <2> QED BY <2>2, <2>3 DEF SourcesOK
<1>7. \A c \in Block : UpToDate(c) => (UpToDate(c))'
  BY <1>2, <1>5 DEF UpToDate
<1>8. Seen' = Seen
  BY <1>2 DEF Seen
<1>9. Progress'
  BY <1>1, <1>2, <1>3, <1>6, <1>7, <1>8 DEF Progress, Kinds
<1> QED BY <1>4, <1>9 DEF AInv

\* What is true of the analysis at each step.
LEMMA StutterHolds ==
  ASSUME AInv, UNCHANGED vars
  PROVE  AInv'
<1>1. UNCHANGED <<prog, loopblocks, worklist, visited, rin, rout, current, pos, rlist,
                  machine, at>>
  BY DEF vars, analysis
<1>2. \A c \in Block : (JoinInput(c))' = JoinInput(c)
  BY <1>1, NothingNew
<1>3. \A c \in Block : UpToDate(c) => (UpToDate(c))'
  BY <1>1, <1>2 DEF UpToDate
<1>4. Kinds'
  BY <1>1 DEF AInv, Kinds, OutputsOK
<1>5. Progress'
  BY <1>1, <1>3 DEF AInv, Kinds, Progress, SourcesOK, FromCode, PcOf, Seen
<1> QED BY <1>4, <1>5 DEF AInv

LEMMA AnalysisInvariant == Spec => []AInv
<1>1. AInv /\ [Next]_vars => AInv'
  <2> SUFFICES ASSUME AInv, [Next]_vars PROVE AInv'
    OBVIOUS
  <2>1. CASE TakeBlock \/ Simulate \/ LeaveBlock
    BY <2>1, TakeBlockHolds, SimulateHolds, LeaveBlockHolds
  <2>2. CASE Called \/ Run
    BY <2>2, CallHolds
  <2> QED BY <2>1, <2>2, StutterHolds DEF Next
<1> QED BY <1>1, InitHolds, PTL DEF Spec

\* The type invariant of the analysis (optimize_dataflow), for functions of any
\* size: in particular, whatever is joined, tracked or weakened, each fact names
\* a location of the kind its contents are.
THEOREM TypeCorrect == Spec => []TypeOK
<1>1. AInv => TypeOK
  <2> SUFFICES ASSUME AInv PROVE TypeOK
    OBVIOUS
  <2>1. Kinds
    BY DEF AInv
  <2>2. loopblocks \in [Block -> SUBSET Block]
    BY <2>1, LoopFacts DEF Kinds
  <2>3. [Reg -> Ranged] \subseteq RegInfoList
    BY DEF Ranged, RegInfoList
  <2>4. \A b \in Block, r \in Reg : InRange(rin[b][r]) /\ InRange(rout[b][r])
    BY <2>1 DEF Kinds, OutputsOK, Ranged
  <2> QED BY <2>1, <2>2, <2>3, <2>4 DEF Kinds, OutputsOK, TypeOK
<1> QED BY <1>1, AnalysisInvariant, PTL

LEMMA SettledHolds == AInv => Settled
<1> SUFFICES ASSUME AInv PROVE Settled
  OBVIOUS
<1>1. Kinds /\ Progress
  BY DEF AInv
<1>2. \A b \in visited \ (ToSet(worklist) \cup {current}) : rin[b] = JoinInput(b)
  BY <1>1 DEF Progress, UpToDate
<1>3. ASSUME current = NoBlock, worklist = <<>>
      PROVE  visited = Block
  <2> DEFINE succ == [b \in Block |-> ToSet(prog.dest[b])]
  <2>1. Entry \in Block /\ NoBlock \notin Block /\ IsFiniteSet(Block)
    BY BlockAssumption, FS_Interval DEF Entry, Block, NoBlock
  <2>2. \A b \in Block : ToSet(prog.dest[b]) \in SUBSET Block
    BY <1>1, ProgramFacts DEF Kinds
  <2>3. Seen \cap Block = visited
    BY <1>1, <1>3, <2>1, Members DEF Seen, Kinds
  <2>4. Entry \in visited /\ \A b \in visited : ToSet(prog.dest[b]) \subseteq visited
    BY <1>1, <2>1, <2>2, <2>3 DEF Progress, Kinds
  <2>5. succ \in Graph(Block) /\ Closed(visited, succ) /\ visited \in SUBSET Block
    BY <1>1, <2>2, <2>4 DEF Graph, Closed, Kinds
  <2>6. ReachedFrom({Entry}, succ) = Block
    BY <1>1 DEF Kinds, IsFunction
  <2> HIDE DEF succ
  <2>7. {Entry} \in SUBSET Block /\ {Entry} \subseteq visited
    BY <2>1, <2>4
  <2>8. ReachedFrom({Entry}, succ) \subseteq visited
    BY <2>1, <2>5, <2>7, ReachedFacts
  <2> QED BY <2>5, <2>6, <2>8
<1> QED BY <1>2, <1>3 DEF Settled

\* When the worklist is empty every block has been visited, and each starts from
\* just what its predecessors end with: the analysis stops at a fixed point, though
\* a join may lose what an earlier one knew, and a block is only queued again if a
\* predecessor's facts differ by more than reginfo_equal looks at.
THEOREM StopsAtFixedPoint == Spec => []Settled
BY AnalysisInvariant, SettledHolds, PTL

-----------------------------------------------------------------------------
(***************************************************************************)
(* From the start of a block to its end: what the facts say stays true.    *)
(***************************************************************************)
\* What a weaker fact says is true where the fact was.
LEMMA WeakerTrue ==
  ASSUME NEW f, NEW g, NEW r \in Reg, NEW m \in Machine,
         Weaker(f, g), f.alias = NoReg, True(g, r, m)
  PROVE  True(f, r, m)
<1>1. m.regs[r] \in Val
  BY DEF Machine
<1>2. InRange(f)
  BY WeakerInRange DEF True
<1> QED BY <1>1, <1>2 DEF Weaker, True, HasIndexedContents

\* Facts that are true before an instruction are, once it is tracked, true after it.
LEMMA EffectsSound ==
  ASSUME NEW rl, Facts(rl), NEW m \in Machine, GlobalsOK(m.glob), Sound(rl, m),
         NEW pc \in Pc, NEW i, IsInstruction(i), NEW n \in Effects(m, i)
  PROVE  Sound(TrackAny(MarkUsed(rl, i), pc, i), n)
<1> PICK ml : ml = MarkUsed(rl, i)
  OBVIOUS
<1>1. ml \in RegInfoList
  BY MarkUsedFollows DEF Follows, Facts
<1>2. Sound(ml, m)
  <2>1. \A r \in Reg : Alike(ml[r], rl[r]) /\ ml[r].alias = rl[r].alias
    BY MarkUsedFollows
  <2>2. \A r \in Reg : True(rl[r], r, m)
    BY SoundIsTrue
  <2>3. \A r \in Reg : True(ml[r], r, m)
    BY <2>1, <2>2 DEF Alike, True, InRange
  <2> QED BY <2>3, SoundIsTrue
<1>3. n \in Machine
  BY EffectsFacts
<1>4. CASE i[1] = "call" /\ i[2] \in Reg /\ i[3] \in Nat /\ i[2] + i[3] < NReg
  <2> DEFINE W == i[2] .. i[2] + i[3]
  <2>1. W \in SUBSET Reg /\ i[2] \in W
    BY <1>4, RegAssumption DEF Reg
  <2>2. PICK o \in Results(m, i) : n = After(m, o)
    BY <1>4 DEF Effects
  <2>3. /\ o \in Outcomes(W, Glob \cup Upv)
        /\ Satisfies(o.regs[i[2]], Returns[m.regs[i[2]]].type, Returns[m.regs[i[2]]].typeinfo)
    BY <2>2 DEF Results
  <2>4. /\ \A r \in Reg \ W : n.regs[r] = m.regs[r]
        /\ n.regs[i[2]] = o.regs[i[2]]
    <3> HIDE DEF W
    <3> QED BY <2>1, <2>2, <2>3, AfterFact
  <2>5. Sound(TrackCall(ml, pc, i[2], i[2], i[3], TRUE), n)
    BY <1>1, <1>2, <1>3, <1>4, <2>3, <2>4, TrackCallSound
  <2> QED BY <1>4, <2>5 DEF TrackAny
<1>5. CASE i[1] = "sgl" /\ i[2] \in Reg /\ i[3] \in Glob
  <2>1. n = [m EXCEPT !.glob[i[3]] = m.regs[i[2]]]
    BY <1>5 DEF Effects, Exec
  <2>2. /\ n.regs = m.regs /\ n.upv = m.upv
        /\ \A y \in Glob : y = i[3] \/ n.glob[y] = m.glob[y]
    BY <1>5, <2>1 DEF Machine
  <2>3. Sound(Invalidate(ml, "global", i[3]), n)
    BY <1>1, <1>2, <2>2, InvalidateSound
  <2> QED BY <1>5, <2>3 DEF TrackAny, Track
<1>6. CASE WellFormed(i)
  <2>1. i[1] # "call"
    BY <1>6 DEF WellFormed
  <2>2. n = Exec(m, i) /\ TrackAny(ml, pc, i) = Track(ml, pc, i)
    BY <2>1 DEF Effects, TrackAny
  <2> QED BY <1>1, <1>2, <1>6, <2>2, TrackSound
<1> QED BY <1>4, <1>5, <1>6 DEF IsInstruction

\* Facts that the first k instructions of block b of p make of facts f.
Trace(t, p, b, k) ==
  \A j \in 1 .. k : t[j] = TrackAny(MarkUsed(t[j - 1], p.code[b][j]), PcOf(b, j), p.code[b][j])

Tracked(p, b, f, k, g) ==
  \E t \in [0 .. k -> [Reg -> Ranged]] : Trace(t, p, b, k) /\ t[0] = f /\ t[k] = g

LEMMA TrackedNothing ==
  ASSUME NEW p, NEW b, NEW f \in [Reg -> Ranged]
  PROVE  Tracked(p, b, f, 0, f)
<1>1. [j \in 0 .. 0 |-> f] \in [0 .. 0 -> [Reg -> Ranged]] /\ Trace([j \in 0 .. 0 |-> f], p, b, 0)
  BY DEF Trace
<1> QED BY <1>1 DEF Tracked

LEMMA TrackedOn ==
  ASSUME NEW p, NEW b, NEW f, NEW k \in Nat, k > 0, NEW g, Tracked(p, b, f, k - 1, g),
         NEW h \in [Reg -> Ranged],
         h = TrackAny(MarkUsed(g, p.code[b][k]), PcOf(b, k), p.code[b][k])
  PROVE  Tracked(p, b, f, k, h)
<1>1. PICK t \in [0 .. k - 1 -> [Reg -> Ranged]] :
             Trace(t, p, b, k - 1) /\ t[0] = f /\ t[k - 1] = g
  BY DEF Tracked
<1> DEFINE u == [j \in 0 .. k |-> IF j = k THEN h ELSE t[j]]
<1>2. u \in [0 .. k -> [Reg -> Ranged]] /\ u[0] = f /\ u[k] = h
  BY <1>1
<1>3. ASSUME NEW j \in 1 .. k
      PROVE  u[j] = TrackAny(MarkUsed(u[j - 1], p.code[b][j]), PcOf(b, j), p.code[b][j])
  <2>1. CASE j = k
    <3>1. u[j - 1] = g
      BY <1>1, <2>1
    <3> QED BY <1>2, <2>1, <3>1
  <2>2. CASE j # k
    <3>1. j \in 1 .. k - 1 /\ u[j] = t[j] /\ u[j - 1] = t[j - 1]
      BY <1>3, <2>2
    <3> QED BY <1>1, <3>1 DEF Trace
  <2> QED BY <2>1, <2>2
<1> HIDE DEF u
<1> QED BY <1>2, <1>3 DEF Tracked, Trace

\* Where the sources of the facts at the end of a block are, and that without a load
\* there are no mirrors at the end if there were none at the start.
LEMMA TrackedFollows ==
  ASSUME NEW p, IsFunction(p), p = prog, NEW b \in Block, NEW f, NEW g,
         Tracked(p, b, f, Len(p.code[b]), g)
  PROVE  /\ \A r \in Reg : \/ g[r].iindx \in {f[r].iindx, NoPc}
                           \/ \E j \in 1 .. Len(p.code[b]) : g[r].iindx = PcOf(b, j)
         /\ (\A j \in 1 .. Len(p.code[b]) : ~IsLoad(p.code[b][j])) /\ MirrorsNone(f) => MirrorsNone(g)
<1> PICK n : n = Len(p.code[b])
  OBVIOUS
<1>1. PICK t \in [0 .. n -> [Reg -> Ranged]] : Trace(t, p, b, n) /\ t[0] = f /\ t[n] = g
  BY DEF Tracked
<1> DEFINE Made(k) == \A r \in Reg : \/ t[k][r].iindx \in {f[r].iindx, NoPc}
                                     \/ \E j \in 1 .. n : t[k][r].iindx = PcOf(b, j)
           Quiet == \A j \in 1 .. n : ~IsLoad(p.code[b][j])
           S == {k \in 0 .. n : Made(k) /\ (Quiet /\ MirrorsNone(f) => MirrorsNone(t[k]))}
<1>2. n \in Nat
  BY ProgramFacts
<1>3. 0 \in S
  BY <1>1, <1>2
<1>4. ASSUME NEW k \in 1 .. n, k - 1 \in S
      PROVE  k \in S
  <2> PICK i, tl, ml, ul, pc : /\ i = p.code[b][k] /\ tl = t[k - 1] /\ ml = MarkUsed(tl, i)
                               /\ ul = t[k] /\ pc = PcOf(b, k)
    OBVIOUS
  <2>1. k - 1 \in 0 .. n /\ k \in 0 .. n
    BY <1>2
  <2>2. Facts(tl)
    BY <2>1 DEF Facts, RegInfoList, Ranged
  <2>3. IsInstruction(i) /\ pc \in Pc
    BY InstrAtFacts
  <2>4. ul = TrackAny(ml, pc, i)
    BY <1>1 DEF Trace
  <2>5. Follows(tl, ml, pc, FALSE) /\ Follows(ml, ul, pc, IsLoad(i))
    <3>1. Follows(tl, ml, pc, FALSE)
      BY <2>2, <2>3, MarkUsedFollows
    <3>2. Facts(ml)
      BY <3>1 DEF Follows
    <3> QED BY <2>3, <2>4, <3>1, <3>2, TrackFollows
  <2>6. \A r \in Reg : ul[r].iindx \in {tl[r].iindx, NoPc, pc}
    BY <2>5 DEF Follows
  <2>7. Made(k)
    BY <1>4, <2>6
  <2>8. Quiet => (MirrorsNone(tl) => MirrorsNone(ul))
    BY <2>5 DEF Follows
  <2> QED BY <1>4, <2>1, <2>7, <2>8
<1>5. n \in S
  <2> HIDE DEF S
  <2>1. S \in SUBSET (0 .. n)
    BY DEF S
  <2>2. 0 .. n \subseteq S
    BY <1>2, <1>3, <1>4, <2>1, Upward
  <2> QED BY <1>2, <2>2
<1> QED BY <1>1, <1>5

\* What each instruction of a block keeps, the block keeps.
LEMMA Along ==
  ASSUME IsFunction(prog), NEW b \in Block, NEW m \in Machine, GlobalsOK(m.glob),
         NEW I, m \in I[0],
         \A k \in 1 .. Len(prog.code[b]) : \A x \in I[k - 1] :
           x \in Machine /\ GlobalsOK(x.glob) => Effects(x, prog.code[b][k]) \subseteq I[k],
         NEW n \in Runs(b, m)
  PROVE  n \in Machine /\ GlobalsOK(n.glob) /\ n \in I[Len(prog.code[b])]
<1> PICK l, code : code = prog.code[b] /\ l = Len(code)
  OBVIOUS
<1>1. PICK R \in [0 .. l -> SUBSET {x \in Machine : GlobalsOK(x.glob)}] :
             RunThrough(R, b, m) /\ Runs(b, m) = R[l]
  BY RunsThrough
<1> DEFINE S == {k \in 0 .. l : R[k] \subseteq I[k]}
<1>2. l \in Nat
  BY ProgramFacts
<1>3. 0 \in S
  BY <1>1, <1>2 DEF RunThrough
<1>4. ASSUME NEW k \in 1 .. l, k - 1 \in S
      PROVE  k \in S
  <2>1. k - 1 \in 0 .. l /\ k \in 0 .. l
    BY <1>2
  <2>2. R[k] = UNION {Effects(x, code[k]) : x \in R[k - 1]}
    BY <1>1 DEF RunThrough
  <2>3. \A x \in R[k - 1] : x \in I[k - 1] /\ x \in Machine /\ GlobalsOK(x.glob)
    BY <1>1, <1>4, <2>1
  <2>4. \A x \in R[k - 1] : Effects(x, code[k]) \subseteq I[k]
    BY <2>3
  <2> QED BY <2>1, <2>2, <2>4
<1>5. l \in S
  <2> HIDE DEF S
  <2>1. S \in SUBSET (0 .. l)
    BY DEF S
  <2>2. 0 .. l \subseteq S
    BY <1>2, <1>3, <1>4, <2>1, Upward
  <2> QED BY <1>2, <2>2
<1> QED BY <1>1, <1>2, <1>5

\* Facts that are true of the machine that enters a block become facts that are
\* true of the one that leaves it.
LEMMA BlockSound ==
  ASSUME IsFunction(prog), NEW b \in Block, NEW m \in Machine, GlobalsOK(m.glob),
         NEW f, NEW g, Tracked(prog, b, f, Len(prog.code[b]), g), Sound(f, m),
         NEW n \in Runs(b, m)
  PROVE  Sound(g, n)
<1> PICK l, code : code = prog.code[b] /\ l = Len(code)
  OBVIOUS
<1>1. PICK t \in [0 .. l -> [Reg -> Ranged]] : Trace(t, prog, b, l) /\ t[0] = f /\ t[l] = g
  BY DEF Tracked
<1> DEFINE I == [k \in 0 .. l |-> {x \in Machine : Sound(t[k], x)}]
<1>2. l \in Nat
  BY ProgramFacts
<1>3. m \in I[0]
  BY <1>1, <1>2
<1>4. ASSUME NEW k \in 1 .. l, NEW x \in I[k - 1], x \in Machine, GlobalsOK(x.glob),
             NEW y \in Effects(x, code[k])
      PROVE  y \in I[k]
  <2>1. k - 1 \in 0 .. l /\ k \in 0 .. l
    BY <1>2
  <2>2. Facts(t[k - 1]) /\ Sound(t[k - 1], x)
    BY <1>4, <2>1 DEF Facts, RegInfoList, Ranged
  <2>3. IsInstruction(code[k]) /\ PcOf(b, k) \in Pc
    BY InstrAtFacts
  <2>4. t[k] = TrackAny(MarkUsed(t[k - 1], code[k]), PcOf(b, k), code[k])
    BY <1>1 DEF Trace
  <2>5. Sound(t[k], y)
    BY <1>4, <2>2, <2>3, <2>4, EffectsSound
  <2>6. y \in Machine
    BY <1>4, <2>3, EffectsFacts
  <2> QED BY <2>1, <2>5, <2>6
<1>5. n \in I[l]
  <2> HIDE DEF I
  <2> QED BY <1>3, <1>4, Along
<1> QED BY <1>1, <1>2, <1>5

\* What a block leaves alone.
LEMMA BlockKeeps ==
  ASSUME IsFunction(prog), NEW b \in Block, NEW m \in Machine, GlobalsOK(m.glob),
         NEW n \in Runs(b, m)
  PROVE  /\ n \in Machine /\ GlobalsOK(n.glob)
         /\ \A r \in Reg \ BlockClobbers(prog, b) : n.regs[r] = m.regs[r]
         /\ (\A k \in 1 .. Len(prog.code[b]) : prog.code[b][k][1] \notin {"sgl", "sup", "call"}) =>
              n.glob = m.glob /\ n.upv = m.upv
<1> PICK l, code : code = prog.code[b] /\ l = Len(code)
  OBVIOUS
<1> DEFINE Still == \A k \in 1 .. l : code[k][1] \notin {"sgl", "sup", "call"}
           Same(x) == /\ \A r \in Reg \ BlockClobbers(prog, b) : x.regs[r] = m.regs[r]
                      /\ Still => x.glob = m.glob /\ x.upv = m.upv
           I == [k \in 0 .. l |-> {x \in Machine : Same(x)}]
<1>2. l \in Nat /\ DOMAIN code = 1 .. l
  BY ProgramFacts
<1>3. m \in I[0]
  BY <1>2
<1>4. ASSUME NEW k \in 1 .. l, NEW x \in I[k - 1], x \in Machine, GlobalsOK(x.glob),
             NEW y \in Effects(x, code[k])
      PROVE  y \in I[k]
  <2>1. k - 1 \in 0 .. l /\ k \in 0 .. l
    BY <1>2
  <2>2. Same(x)
    BY <1>4, <2>1
  <2>3. IsInstruction(code[k])
    BY InstrAtFacts
  <2>4. Clobbered(code[k]) \subseteq BlockClobbers(prog, b)
    BY <1>2 DEF BlockClobbers
  <2>5. /\ y \in Machine
        /\ \A r \in Reg \ Clobbered(code[k]) : y.regs[r] = x.regs[r]
        /\ code[k][1] \notin {"sgl", "sup", "call"} => y.glob = x.glob /\ y.upv = x.upv
    BY <1>4, <2>3, EffectsFacts
  <2> QED BY <2>1, <2>2, <2>4, <2>5
<1>5. n \in Machine /\ GlobalsOK(n.glob) /\ n \in I[l]
  <2> HIDE DEF I
  <2> QED BY <1>3, <1>4, Along
<1> QED BY <1>2, <1>5

\* Register r holds an integer if register q does.
IntIf(q, r, m) == TypeOf[m.regs[q]] = IntType => TypeOf[m.regs[r]] = IntType

\* Instruction i adds register q to register r, or leaves both alone.
AddsOnly(i, q, r) ==
  \/ Clobbered(i) \cap {q, r} = {}
  \/ i[1] = "arith" /\ i[2] = r /\ {i[3], i[4]} = {q, r}

\* Adding integers keeps an integer one.
LEMMA BlockGrows ==
  ASSUME IsFunction(prog), NEW b \in Block, NEW m \in Machine, GlobalsOK(m.glob),
         NEW q \in Reg, NEW r \in Reg, IntIf(q, r, m),
         \A k \in 1 .. Len(prog.code[b]) : AddsOnly(prog.code[b][k], q, r),
         NEW n \in Runs(b, m)
  PROVE  IntIf(q, r, n)
<1> PICK l, code : code = prog.code[b] /\ l = Len(code)
  OBVIOUS
<1> DEFINE I == [k \in 0 .. l |-> {x \in Machine : IntIf(q, r, x)}]
<1>2. l \in Nat
  BY ProgramFacts
<1>3. m \in I[0]
  BY <1>2
<1>4. ASSUME NEW k \in 1 .. l, NEW x \in I[k - 1], x \in Machine, GlobalsOK(x.glob),
             NEW y \in Effects(x, code[k])
      PROVE  y \in I[k]
  <2> PICK i : i = code[k]
    OBVIOUS
  <2>1. k - 1 \in 0 .. l /\ k \in 0 .. l
    BY <1>2
  <2>2. IntIf(q, r, x)
    BY <1>4, <2>1
  <2>3. IsInstruction(i) /\ AddsOnly(i, q, r)
    BY InstrAtFacts
  <2>4. /\ y \in Machine
        /\ \A z \in Reg \ Clobbered(i) : y.regs[z] = x.regs[z]
    BY <1>4, <2>3, EffectsFacts
  <2>5. IntIf(q, r, y)
    <3>1. CASE Clobbered(i) \cap {q, r} = {}
      BY <2>2, <2>4, <3>1 DEF IntIf
    <3>2. CASE i[1] = "arith" /\ i[2] = r /\ {i[3], i[4]} = {q, r}
      <4> DEFINE v == Arith[x.regs[i[3]]][x.regs[i[4]]]
      <4>1. x.regs[q] \in Val /\ x.regs[r] \in Val
        BY <1>4 DEF Machine
      <4>2. v \in Val /\ (TypeOf[x.regs[q]] = IntType /\ TypeOf[x.regs[r]] = IntType => TypeOf[v] = IntType)
        <5>1. i[3] \in {q, r} /\ i[4] \in {q, r}
          BY <3>2
        <5> PICK c, e : c = x.regs[i[3]] /\ e = x.regs[i[4]]
          OBVIOUS
        <5>2. c \in {x.regs[q], x.regs[r]} /\ e \in {x.regs[q], x.regs[r]} /\ v = Arith[c][e]
          BY <5>1
        <5> HIDE DEF v
        <5>3. /\ c \in Val /\ e \in Val
              /\ TypeOf[x.regs[q]] = IntType /\ TypeOf[x.regs[r]] = IntType =>
                   TypeOf[c] = IntType /\ TypeOf[e] = IntType
          BY <4>1, <5>2
        <5>4. /\ Arith[c][e] \in Val
              /\ TypeOf[c] = IntType /\ TypeOf[e] = IntType => TypeOf[Arith[c][e]] = IntType
          <6>1. Arith[c][e] \in Val
            BY ONLY <5>3, NumberAssumption
          <6>2. TypeOf[c] = IntType /\ TypeOf[e] = IntType => TypeOf[Arith[c][e]] = IntType
            BY ONLY <5>3, ArithAssumption
          <6> QED BY <6>1, <6>2
        <5> QED BY <5>2, <5>3, <5>4
      <4>3. y = SetReg(x, r, v)
        BY <1>4, <3>2 DEF Effects, Exec
      <4> HIDE DEF v
      <4>4. y.regs[r] = v /\ (q # r => y.regs[q] = x.regs[q])
        BY <1>4, <4>2, <4>3, SetRegMachine DEF SameBut
      <4> QED BY <2>2, <4>2, <4>4 DEF IntIf
    <3> QED BY <2>3, <3>1, <3>2 DEF AddsOnly
  <2> QED BY <2>1, <2>4, <2>5
<1>5. n \in I[l]
  <2> HIDE DEF I
  <2> QED BY <1>3, <1>4, Along
<1> QED BY <1>2, <1>5

-----------------------------------------------------------------------------
(***************************************************************************)
(* What a block ends with is what tracking makes of what it starts from.   *)
(***************************************************************************)
Transferred ==
  /\ \A b \in visited \ {current} : Tracked(prog, b, rin[b], Len(prog.code[b]), rout[b])
  /\ current # NoBlock => /\ pos - 1 \in 0 .. Len(prog.code[current])
                          /\ Tracked(prog, current, rin[current], pos - 1, rlist)

LEMMA TransferredHolds ==
  ASSUME AInv, AInv', Transferred, [Next]_vars
  PROVE  Transferred'
<1>1. Kinds /\ Kinds' /\ Progress
  BY DEF AInv
<1>2. CASE TakeBlock
  <2> PICK b : b = Last(worklist)
    OBVIOUS
  <2>1. /\ current = NoBlock /\ worklist # <<>> /\ current' = b
        /\ rlist' = JoinInput(b) /\ rin' = [rin EXCEPT ![b] = rlist'] /\ pos' = 1
        /\ UNCHANGED <<prog, visited, rout>>
    BY <1>2 DEF TakeBlock
  <2>2. b \in Block /\ rlist' \in [Reg -> Ranged] /\ visited \in SUBSET Block
    BY <1>1, <2>1, Popped DEF Kinds
  <2>3. rin'[b] = rlist' /\ \A c \in Block : c # b => rin'[c] = rin[c]
    BY <1>1, <2>1, <2>2 DEF Kinds
  <2>4. Tracked(prog, b, rlist', 0, rlist')
    BY <2>2, TrackedNothing
  <2>5. Len(prog.code[b]) \in Nat
    BY <1>1, <2>2, ProgramFacts DEF Kinds
  <2>6. ASSUME NEW c \in visited \ {b}
        PROVE  Tracked(prog, c, rin'[c], Len(prog.code[c]), rout[c])
    <3>1. c # NoBlock /\ rin'[c] = rin[c]
      BY <2>2, <2>3 DEF Block, NoBlock
    <3> QED BY <2>1, <3>1 DEF Transferred
  <2> QED BY <2>1, <2>3, <2>4, <2>5, <2>6 DEF Transferred
<1>3. CASE Simulate
  <2> PICK i, g : i = prog.code[current][pos] /\ g = MarkUsed(rlist, i)
    OBVIOUS
  <2>1. /\ current # NoBlock /\ pos <= Len(prog.code[current])
        /\ rlist' = TrackAny(g, PcOf(current, pos), i) /\ pos' = pos + 1
        /\ UNCHANGED <<prog, visited, rin, rout, current>>
    BY <1>3 DEF Simulate
  <2>2. current \in Block /\ rlist' \in [Reg -> Ranged] /\ pos \in Nat /\ pos > 0
    BY <1>1, <2>1, BlockAssumption DEF Kinds
  <2>3. Len(prog.code[current]) \in Nat
    BY <1>1, <2>2, ProgramFacts DEF Kinds
  <2>4. Tracked(prog, current, rin[current], pos, rlist')
    BY <2>1, <2>2, TrackedOn DEF Transferred
  <2>5. pos' - 1 = pos /\ pos \in 0 .. Len(prog.code[current])
    BY <2>1, <2>2, <2>3
  <2> QED BY <2>1, <2>4, <2>5 DEF Transferred
<1>4. CASE LeaveBlock
  <2> PICK b : b = current
    OBVIOUS
  <2>1. /\ b # NoBlock /\ pos > Len(prog.code[b]) /\ rout' = [rout EXCEPT ![b] = rlist]
        /\ visited' = visited \cup {b} /\ current' = NoBlock
        /\ UNCHANGED <<prog, rin>>
    BY <1>4 DEF LeaveBlock
  <2>2. b \in Block /\ visited \in SUBSET Block
    BY <1>1, <2>1 DEF Kinds
  <2>3. Len(prog.code[b]) \in Nat /\ pos \in Int
    BY <1>1, <2>2, ProgramFacts, BlockAssumption DEF Kinds
  <2>4. pos - 1 = Len(prog.code[b]) /\ Tracked(prog, b, rin[b], pos - 1, rlist)
    BY <2>1, <2>3 DEF Transferred
  <2>5. rout'[b] = rlist /\ \A c \in Block : c # b => rout'[c] = rout[c]
    BY <1>1, <2>1, <2>2 DEF Kinds, OutputsOK
  <2>6. ASSUME NEW c \in visited'
        PROVE  Tracked(prog, c, rin[c], Len(prog.code[c]), rout'[c])
    <3>1. CASE c = b
      BY <2>4, <2>5, <3>1
    <3>2. CASE c # b
      BY <2>1, <2>2, <2>5, <2>6, <3>2 DEF Transferred
    <3> QED BY <3>1, <3>2
  <2> QED BY <2>1, <2>6 DEF Transferred
<1>5. CASE Called \/ Run \/ UNCHANGED vars
  <2>1. UNCHANGED <<prog, visited, rin, rout, current, pos, rlist>>
    BY <1>5 DEF Called, Run, vars, analysis
  <2> QED BY <2>1 DEF Transferred
<1> QED BY <1>2, <1>3, <1>4, <1>5 DEF Next

-----------------------------------------------------------------------------
(***************************************************************************)
(* Once the analysis is over: where the facts a block starts from come     *)
(* from.                                                                   *)
(***************************************************************************)
Fixed ==
  /\ Kinds
  /\ \A b \in Block : /\ rin[b] = JoinInput(b)
                      /\ Tracked(prog, b, rin[b], Len(prog.code[b]), rout[b])

LEMMA Stopped ==
  ASSUME AInv, Transferred, current = NoBlock, worklist = <<>>
  PROVE  Fixed
<1>1. Kinds /\ Settled
  BY SettledHolds DEF AInv
<1>2. visited = Block /\ NoBlock \notin Block /\ \A b \in Block : b \notin ToSet(worklist)
  BY <1>1, Members DEF Settled, Block, NoBlock
<1>3. \A b \in Block : rin[b] = JoinInput(b)
  BY <1>1, <1>2 DEF Settled
<1>4. \A b \in Block : Tracked(prog, b, rin[b], Len(prog.code[b]), rout[b])
  BY <1>2 DEF Transferred
<1> QED BY <1>1, <1>3, <1>4 DEF Fixed

\* What the signature says of a register it gives no type to is true of anything.
LEMMA UntypedTrue ==
  ASSUME NEW r \in Reg, ~IsPreservedEntryRegister(r),
         r <= NArgs + NOpt => ParamFact[r].type = NoType,
         NEW m
  PROVE  True(EntryFact(r), r, m)
<1> DEFINE f == [InitFact EXCEPT !.contents = "value", !.usage = "written"]
<1>1. Input[r].contents = "nofact"
  BY BlockAssumption
<1>2. EntryFact(r) = IF r > NArgs + NOpt THEN InitFact
                     ELSE TypedFact(f, ParamFact[r].type, ParamFact[r].typeinfo)
  BY <1>1 DEF EntryFact, Signature
<1>3. r \in Int /\ NArgs + NOpt \in Int
  BY BlockAssumption, RegAssumption DEF Reg
<1>4. CASE r > NArgs + NOpt
  BY <1>2, <1>4 DEF InitFact, True, InRange, Satisfies
<1>5. CASE r <= NArgs + NOpt
  <2> DEFINE g == TypedFact(f, NoType, ParamFact[r].typeinfo)
  <2>1. g.contents = "value" /\ g.alias = NoReg /\ g.type = NoType
    BY DEF TypedFact, InitFact, ValueOf
  <2>2. EntryFact(r) = g
    BY <1>2, <1>3, <1>5
  <2> HIDE DEF g
  <2> QED BY <2>1, <2>2 DEF True, InRange, Satisfies
<1> QED BY <1>3, <1>4, <1>5

\* The predecessors a block is entered from first.
LEMMA EntrySourcesFacts ==
  ASSUME IsFunction(prog), NEW b \in Block
  PROVE  EntrySources(b) = {s \in Preds(prog, b) : s < b} /\ EntrySources(b) \in SUBSET Block
<1>1. Preds(prog, b) \in SUBSET Block /\ \A s \in Block : s \in Int /\ b \in Int
  BY ProgramFacts DEF Block
<1> QED BY <1>1 DEF EntrySources, LoopSources

\* A fact that a block starts from is one that each of those ends with, weakened, or
\* is no mirror of a variable and of no instruction.
LEMMA InputFrom ==
  ASSUME Fixed, NEW b \in Block, b # Entry, NEW s \in EntrySources(b), NEW r \in Reg
  PROVE  \/ Weaker(rin[b][r], rout[s][r])
         \/ ~Mirrored(rin[b][r]) /\ rin[b][r].iindx = NoPc
<1>1. IsFunction(prog) /\ OutputsOK /\ rin[b] = JoinInput(b)
  BY DEF Fixed, Kinds
<1>2. s \in Preds(prog, b) /\ EntrySources(b) # {}
  BY DEF EntrySources
<1>3. CASE b = Entry \/ prog.src[b] = <<>> \/ IsPreservedEntryRegister(r)
  <2>1. rin[b][r] = EntryFact(r)
    BY <1>1, <1>3 DEF JoinInput
  <2> QED BY <2>1, EntryFacts
<1>4. CASE ~(b = Entry \/ prog.src[b] = <<>> \/ IsPreservedEntryRegister(r))
  <2>1. rin[b][r] = IF IsLoopHeader(prog, b) THEN HeaderFact(b, r) ELSE Resolve(prog.src[b], r)
    BY <1>1, <1>4 DEF JoinInput
  <2>2. prog.src[b] \in Seq(Block) /\ prog.src[b] # <<>> /\ s \in ToSet(prog.src[b])
    BY <1>1, <1>2, <1>4, ProgramFacts DEF Preds
  <2>3. Weaker(Resolve(prog.src[b], r), rout[s][r])
    BY <1>1, <2>2, ResolveFacts
  <2>4. ASSUME IsLoopHeader(prog, b)
        PROVE  \/ Weaker(HeaderFact(b, r), rout[s][r])
               \/ ~Mirrored(HeaderFact(b, r)) /\ HeaderFact(b, r).iindx = NoPc
    <3>1. Base(b, r) \in Ranged /\ Weaker(Base(b, r), rout[s][r])
      BY <1>1, <1>2, BaseFacts
    <3>2. CASE HeaderFact(b, r) = ExactIntFact(Base(b, r))
      BY <3>1, <3>2, ExactIntFacts DEF Ranged, Mirrored
    <3>3. CASE HeaderFact(b, r) = Base(b, r)
      BY <3>1, <3>3
    <3>4. CASE \A x \in Preds(prog, b) : Weaker(HeaderFact(b, r), rout[x][r])
      BY <1>2, <3>4
    <3> QED BY <1>1, <2>4, <3>2, <3>3, <3>4, HeaderFacts
  <2> QED BY <2>1, <2>3, <2>4
<1> QED BY <1>3, <1>4

\* Each block but the first is entered from an earlier one.
LEMMA EnteredBefore ==
  ASSUME IsFunction(prog), Structured(prog), NEW b \in Block, b # Entry
  PROVE  \E s \in EntrySources(b) : s \in Block /\ s < b
BY EntrySourcesFacts DEF Structured

\* Before a loop that stores to a variable or calls, nothing is loaded, and no facts
\* are mirrors.
LEMMA NoMirrorsBefore ==
  ASSUME Fixed, Structured(prog), LoadsInside(prog), NEW h \in Block,
         NEW c \in LoopBlocks(prog, h), NEW k \in 1 .. Len(prog.code[c]),
         prog.code[c][k][1] \in {"sgl", "sup", "call"}
  PROVE  \A b \in Block : b < h => MirrorsNone(rout[b])
<1> DEFINE S == {b \in Block : b < h /\ ~MirrorsNone(rout[b])}
<1>1. IsFunction(prog) /\ Block \subseteq Nat /\ c \in Block
  BY BlockAssumption, LoopFacts DEF Fixed, Kinds, Block
<1>2. SUFFICES ASSUME S # {} PROVE FALSE
  OBVIOUS
<1>3. PICK b \in S : \A x \in S : b <= x
  BY <1>1, <1>2, LeastNumber
<1>4. b \in Block /\ b < h /\ ~MirrorsNone(rout[b])
  OBVIOUS
<1>5. \A x \in Block : x < b => MirrorsNone(rout[x])
  BY <1>1, <1>3, <1>4
<1>6. \A j \in 1 .. Len(prog.code[b]) : ~IsLoad(prog.code[b][j])
  <2>1. b \notin LoopBlocks(prog, h)
    BY <1>1, <1>4 DEF Structured
  <2>2. \E j \in DOMAIN prog.code[c] : prog.code[c][j][1] \in {"sgl", "sup", "call"}
    BY <1>1, ProgramFacts
  <2>3. \A x \in Block \ LoopBlocks(prog, h) :
           ~ \E j \in DOMAIN prog.code[x] : prog.code[x][j][1] \in {"lgl", "lup"}
    BY <2>2 DEF LoadsInside
  <2>4. DOMAIN prog.code[b] = 1 .. Len(prog.code[b])
    BY <1>1, <1>4, ProgramFacts
  <2> QED BY <1>4, <2>1, <2>3, <2>4 DEF IsLoad
<1>7. MirrorsNone(rin[b])
  <2>1. CASE b = Entry
    <3>1. \A r \in Reg : rin[b][r] = EntryFact(r)
      BY <1>4, <2>1 DEF Fixed, JoinInput
    <3> QED BY <3>1, EntryFacts DEF MirrorsNone
  <2>2. CASE b # Entry
    <3>1. PICK s \in EntrySources(b) : s \in Block /\ s < b
      BY <1>1, <1>4, <2>2, EnteredBefore
    <3>2. \A r \in Reg : ~Mirrored(rout[s][r])
      BY <1>5, <3>1 DEF MirrorsNone
    <3>3. \A r \in Reg : \/ Weaker(rin[b][r], rout[s][r])
                         \/ ~Mirrored(rin[b][r])
      BY <1>4, <2>2, InputFrom
    <3> QED BY <3>2, <3>3 DEF MirrorsNone, Weaker, Mirrored, HasIndexedContents
  <2> QED BY <2>1, <2>2
<1>8. Tracked(prog, b, rin[b], Len(prog.code[b]), rout[b])
  BY <1>4 DEF Fixed
<1> QED BY <1>1, <1>4, <1>6, <1>7, <1>8, TrackedFollows

-----------------------------------------------------------------------------
(***************************************************************************)
(* Around a loop. What the loop is entered with, and is not written in it, *)
(* stays true; a register it adds integers to stays an integer.            *)
(***************************************************************************)
\* Facts that say no more of a register than each block that loop h is entered from.
Above(h, r) ==
  {f \in Ranged : f.alias = NoReg /\ \A s \in EntrySources(h) : Weaker(f, rout[s][r])}

\* The last write of r before the back edge from block s, and what it adds to r.
LastWrite(s, r) == InstrAt(rout[s][r].iindx)
Added(s, r) == IF LastWrite(s, r)[3] = r THEN LastWrite(s, r)[4] ELSE LastWrite(s, r)[3]

\* Loop h is entered with an integer in r, and adds to it.
Held(h, r) ==
  /\ rin[h][r].iindx = NoPc
  /\ \A s \in LoopSources(prog, h) : IsIntPreservingLoopUpdate(s, r)
  /\ \E f \in Above(h, r) : IsIntFact(f)

LEMMA LoopKeeps ==
  ASSUME Fixed, Regular(prog), NEW h \in Block, EntrySources(h) # {},
         NEW b \in LoopBlocks(prog, h), NEW r \in Reg, ~LoopWrites(h, r), NEW f \in Above(h, r),
         NEW m \in Machine, GlobalsOK(m.glob), True(f, r, m), NEW n \in Runs(b, m)
  PROVE  True(f, r, n)
<1>1. /\ IsFunction(prog) /\ b \in Block /\ loopblocks[h] = LoopBlocks(prog, h)
      /\ Structured(prog) /\ LoadsInside(prog) /\ ArgumentsLoaded(prog)
  BY LoopFacts DEF Fixed, Kinds, Regular
<1>2. n.regs[r] = m.regs[r]
  <2>1. r \notin BlockClobbers(prog, b)
    BY <1>1 DEF ArgumentsLoaded, LoopWrites
  <2> QED BY <1>1, <2>1, BlockKeeps
<1>3. Mirrored(f) => n.glob = m.glob /\ n.upv = m.upv
  <2> SUFFICES ASSUME Mirrored(f) PROVE n.glob = m.glob /\ n.upv = m.upv
    OBVIOUS
  <2>1. PICK s \in EntrySources(h) : s \in Block /\ s < h
    BY <1>1, EntrySourcesFacts
  <2>2. Mirrored(rout[s][r])
    BY DEF Above, Weaker, Mirrored, HasIndexedContents
  <2>3. ~MirrorsNone(rout[s])
    BY <2>2 DEF MirrorsNone
  <2>4. \A k \in 1 .. Len(prog.code[b]) : prog.code[b][k][1] \notin {"sgl", "sup", "call"}
    BY <1>1, <2>1, <2>3, NoMirrorsBefore
  <2> QED BY <1>1, <2>4, BlockKeeps
<1>4. f.alias = NoReg
  BY DEF Above
<1> QED BY <1>2, <1>3, <1>4 DEF True, Mirrored

\* In a loop that is entered with nothing known of the source of r, its source is in
\* the loop.
LEMMA SourcesInside ==
  ASSUME Fixed, SourcesOK, Structured(prog), NEW h \in Block, NEW r \in Reg, rin[h][r].iindx = NoPc,
         NEW b \in LoopBlocks(prog, h), rout[b][r].iindx # NoPc
  PROVE  \E c \in LoopBlocks(prog, h) : \E k \in 1 .. Len(prog.code[c]) :
           rout[b][r].iindx = PcOf(c, k)
<1> DEFINE Inside(pc) == \/ pc = NoPc
                         \/ \E c \in LoopBlocks(prog, h) : \E k \in 1 .. Len(prog.code[c]) :
                              pc = PcOf(c, k)
           S == {x \in LoopBlocks(prog, h) : ~Inside(rout[x][r].iindx)}
<1>1. IsFunction(prog) /\ Block \subseteq Nat /\ LoopBlocks(prog, h) \subseteq Block
  BY BlockAssumption, LoopFacts DEF Fixed, Kinds, Block
<1>2. SUFFICES ASSUME S # {} PROVE FALSE
  OBVIOUS
<1>3. PICK x \in S : \A y \in S : x <= y
  BY <1>1, <1>2, LeastNumber
<1>4. x \in LoopBlocks(prog, h) /\ x \in Block /\ ~Inside(rout[x][r].iindx)
  BY <1>1
<1>5. ASSUME NEW y \in LoopBlocks(prog, h), y < x
      PROVE  Inside(rout[y][r].iindx)
  <2>1. CASE y \in S
    <3>1. x <= y /\ x \in Nat /\ y \in Nat
      BY <1>1, <1>3, <1>4, <2>1
    <3> QED BY ONLY <1>5, <3>1
  <2>2. CASE y \notin S
    BY <2>2
  <2> QED BY <2>1, <2>2
<1> HIDE DEF S
<1>6. rout[x][r].iindx = rin[x][r].iindx
  <2>1. \/ rout[x][r].iindx \in {rin[x][r].iindx, NoPc}
        \/ \E j \in 1 .. Len(prog.code[x]) : rout[x][r].iindx = PcOf(x, j)
    <3>1. Tracked(prog, x, rin[x], Len(prog.code[x]), rout[x])
      BY <1>4 DEF Fixed
    <3> QED BY <1>1, <1>4, <3>1, TrackedFollows
  <2> QED BY <1>4, <2>1
<1>7. x # h
  BY <1>4, <1>6
<1>8. x # Entry
  <2>1. h <= x /\ h \in Nat /\ x \in Nat
    BY <1>1, <1>4 DEF Structured
  <2> QED BY <1>7, <2>1 DEF Entry
<1>9. PICK s \in EntrySources(x) : s \in Block /\ s < x
  BY <1>1, <1>4, <1>8, EnteredBefore
<1>10. s \in LoopBlocks(prog, h)
  <2>1. s \in Preds(prog, x)
    BY <1>9 DEF EntrySources
  <2> QED BY <1>1, <1>4, <1>7, <2>1, LoopFacts
<1>11. rin[x][r].iindx \in {NoPc, rout[s][r].iindx}
  <2>1. \/ Weaker(rin[x][r], rout[s][r])
        \/ rin[x][r].iindx = NoPc
    BY <1>4, <1>8, <1>9, InputFrom
  <2> QED BY <2>1 DEF Weaker
<1> QED BY <1>4, <1>5, <1>6, <1>9, <1>10, <1>11

\* What adds to a register in a loop is all that changes the register or what is added.
LEMMA OnlyAdds ==
  ASSUME Fixed, SourcesOK, Regular(prog), NEW h \in Block, NEW r \in Reg, Held(h, r),
         NEW s \in LoopSources(prog, h)
  PROVE  /\ Added(s, r) \in Reg /\ IsIntFact(rout[s][Added(s, r)])
         /\ \A b \in LoopBlocks(prog, h) : \A k \in 1 .. Len(prog.code[b]) :
              AddsOnly(prog.code[b][k], Added(s, r), r)
<1>1. IsFunction(prog) /\ Structured(prog) /\ UpdatesAlone(prog)
  BY DEF Fixed, Kinds, Regular
<1>2. s \in LoopBlocks(prog, h) /\ s \in Block /\ LoopBlocks(prog, h) \subseteq Block
  BY <1>1, LoopFacts
<1> PICK pc, i, q : pc = rout[s][r].iindx /\ i = LastWrite(s, r) /\ q = Added(s, r)
  OBVIOUS
<1>3. /\ pc # NoPc /\ i[1] = "arith" /\ i[2] = r /\ r \in {i[3], i[4]}
      /\ q = (IF i[3] = r THEN i[4] ELSE i[3]) /\ IsIntFact(rout[s][q])
  BY DEF Held, IsIntPreservingLoopUpdate, LastWrite, Added
<1>4. PICK c \in LoopBlocks(prog, h) : \E k \in 1 .. Len(prog.code[c]) : pc = PcOf(c, k)
  BY <1>1, <1>2, <1>3, SourcesInside DEF Held
<1>5. PICK k \in 1 .. Len(prog.code[c]) : pc = PcOf(c, k)
  BY <1>4
<1>6. i = prog.code[c][k] /\ IsInstruction(i)
  BY <1>1, <1>2, <1>5, InstrAtFacts DEF LastWrite
<1>7. i[3] \in Reg /\ i[4] \in Reg
  BY <1>3, <1>6 DEF IsInstruction, WellFormed
<1>8. q \in Reg /\ {i[3], i[4]} = {q, r}
  BY <1>3, <1>7
<1>9. ASSUME NEW b \in LoopBlocks(prog, h), NEW j \in 1 .. Len(prog.code[b])
      PROVE  AddsOnly(prog.code[b][j], q, r)
  <2>1. CASE b = c /\ j = k
    BY <1>3, <1>6, <1>8, <2>1 DEF AddsOnly
  <2>2. CASE ~(b = c /\ j = k)
    <3> DEFINE body == {w \in LoopBlocks(prog, h) \X (1 .. Width) : w[2] <= Len(prog.code[w[1]])}
               w == <<c, k>>
               x == <<b, j>>
    <3>1. w \in body /\ x \in body /\ x # w
      <4>1. /\ Len(prog.code[c]) \in Nat /\ Len(prog.code[c]) <= Width
            /\ Len(prog.code[b]) \in Nat /\ Len(prog.code[b]) <= Width /\ Width \in Nat
        BY <1>1, <1>2, ProgramFacts, BlockAssumption
      <4>2. k \in 1 .. Width /\ j \in 1 .. Width
        BY <4>1
      <4> QED BY <2>2, <4>2
    <3>2. prog.code[w[1]][w[2]] = i /\ prog.code[x[1]][x[2]] = prog.code[b][j]
      BY <1>6
    <3>3. Clobbered(prog.code[x[1]][x[2]]) \cap
             {prog.code[w[1]][w[2]][2], prog.code[w[1]][w[2]][3], prog.code[w[1]][w[2]][4]} = {}
      <4>1. \A y \in body :
              /\ prog.code[y[1]][y[2]][1] = "arith"
              /\ prog.code[y[1]][y[2]][2] \in {prog.code[y[1]][y[2]][3], prog.code[y[1]][y[2]][4]}
              => \A z \in body : z # y =>
                   Clobbered(prog.code[z[1]][z[2]]) \cap
                     {prog.code[y[1]][y[2]][2], prog.code[y[1]][y[2]][3],
                      prog.code[y[1]][y[2]][4]} = {}
        BY <1>1 DEF UpdatesAlone
      <4> HIDE DEF body, w, x
      <4> QED BY <1>3, <3>1, <3>2, <4>1
    <3>4. Clobbered(prog.code[b][j]) \cap {i[2], i[3], i[4]} = {}
      BY <3>2, <3>3
    <3> QED BY <1>3, <1>8, <3>4 DEF AddsOnly
  <2> QED BY <2>1, <2>2
<1> QED BY <1>3, <1>8, <1>9

-----------------------------------------------------------------------------
(***************************************************************************)
(* What is true of the machine that enters a block, by whatever path.      *)
(***************************************************************************)
\* Of machine m at block b of loop h: what the loop does not write is as it was when
\* the loop was entered, and a register that is held to an integer is one at the
\* header, and is one everywhere if what is added to it is.
LoopHolds(h, b, m) ==
  /\ \A r \in Reg : ~LoopWrites(h, r) => \A f \in Above(h, r) : True(f, r, m)
  /\ \A r \in Reg : Held(h, r) =>
       /\ b = h => TypeOf[m.regs[r]] = IntType
       /\ \A s \in LoopSources(prog, h) : IntIf(Added(s, r), r, m)
       /\ \A f \in Above(h, r) : IsIntFact(f) =>
            \A v \in Val : TypeOf[v] = IntType => Satisfies(v, f.type, f.typeinfo)

\* The function may change register r.
Clobbers(r) == \E c \in Block : r \in BlockClobbers(prog, c)

Holds(b, m) ==
  /\ Sound(rin[b], m)
  /\ \A r \in Reg : ~Clobbers(r) => True(EntryFact(r), r, m)
  /\ \A h \in Block : b \in LoopBlocks(prog, h) \cup {h} /\ EntrySources(h) # {} =>
       LoopHolds(h, b, m)

LEMMA IntFactTrue ==
  ASSUME NEW f, NEW q \in Reg, NEW m \in Machine, IsIntFact(f), True(f, q, m)
  PROVE  /\ TypeOf[m.regs[q]] = IntType
         /\ \A v \in Val : TypeOf[v] = IntType => Satisfies(v, f.type, f.typeinfo)
<1>1. Satisfies(m.regs[q], f.type, f.typeinfo)
  BY DEF True
<1>2. TypeOf[m.regs[q]] = IntType
  <2>1. IntType # NoType
    BY TypeAssumption, NumberAssumption
  <2>2. CASE f.typeinfo = EXACT /\ f.type = IntType
    BY <1>1, <2>1, <2>2 DEF Satisfies, EXACT, SUBTYPE
  <2>3. CASE f.contents = "constant" /\ TypeOf[f.indx] = IntType
    BY <2>3 DEF True
  <2> QED BY <2>2, <2>3 DEF IsIntFact
<1> QED BY <1>1, <1>2 DEF Satisfies

LEMMA LoopEntered ==
  ASSUME Fixed, NEW h \in Block, NEW s \in EntrySources(h), NEW n \in Machine, Sound(rout[s], n)
  PROVE  LoopHolds(h, h, n)
<1>1. \A r \in Reg : \A f \in Above(h, r) : True(f, r, n)
  <2>1. \A r \in Reg : True(rout[s][r], r, n)
    BY SoundIsTrue
  <2>2. ASSUME NEW r \in Reg, NEW f \in Above(h, r)
        PROVE  True(f, r, n)
    <3>1. Weaker(f, rout[s][r]) /\ f.alias = NoReg
      BY DEF Above
    <3> QED BY <2>1, <3>1, WeakerTrue
  <2> QED BY <2>2
<1>2. ASSUME NEW r \in Reg, Held(h, r)
      PROVE  /\ TypeOf[n.regs[r]] = IntType
             /\ \A f \in Above(h, r) : IsIntFact(f) =>
                  \A v \in Val : TypeOf[v] = IntType => Satisfies(v, f.type, f.typeinfo)
  BY <1>1, <1>2, IntFactTrue DEF Held
<1> QED BY <1>1, <1>2 DEF LoopHolds, IntIf

LEMMA LoopStays ==
  ASSUME Fixed, SourcesOK, Regular(prog), NEW h \in Block, EntrySources(h) # {},
         NEW b \in LoopBlocks(prog, h), NEW m \in Machine, GlobalsOK(m.glob), LoopHolds(h, b, m),
         NEW n \in Runs(b, m), Sound(rout[b], n),
         NEW d, d = h => b \in LoopSources(prog, h)
  PROVE  LoopHolds(h, d, n)
<1>1. IsFunction(prog) /\ b \in Block
  BY LoopFacts DEF Fixed, Kinds
<1>2. n \in Machine
  BY <1>1, BlockKeeps
<1>3. \A r \in Reg : ~LoopWrites(h, r) => \A f \in Above(h, r) : True(f, r, n)
  BY LoopKeeps DEF LoopHolds
<1>4. ASSUME NEW r \in Reg, Held(h, r)
      PROVE  /\ d = h => TypeOf[n.regs[r]] = IntType
             /\ \A s \in LoopSources(prog, h) : IntIf(Added(s, r), r, n)
  <2>1. \A s \in LoopSources(prog, h) : IntIf(Added(s, r), r, n)
    <3> SUFFICES ASSUME NEW s \in LoopSources(prog, h)
                 PROVE  IntIf(Added(s, r), r, n)
      OBVIOUS
    <3> PICK q : q = Added(s, r)
      OBVIOUS
    <3>1. q \in Reg /\ \A k \in 1 .. Len(prog.code[b]) : AddsOnly(prog.code[b][k], q, r)
      BY <1>4, OnlyAdds
    <3>2. IntIf(q, r, m)
      BY <1>4 DEF LoopHolds
    <3> QED BY <1>1, <3>1, <3>2, BlockGrows
  <2>2. ASSUME d = h
        PROVE  TypeOf[n.regs[r]] = IntType
    <3> PICK q : q = Added(b, r)
      OBVIOUS
    <3>1. b \in LoopSources(prog, h)
      BY <2>2
    <3>2. q \in Reg /\ IsIntFact(rout[b][q])
      BY <1>4, <3>1, OnlyAdds
    <3>3. True(rout[b][q], q, n)
      BY <3>2, SoundIsTrue
    <3>4. TypeOf[n.regs[q]] = IntType
      BY <1>2, <3>2, <3>3, IntFactTrue
    <3> QED BY <2>1, <3>1, <3>4 DEF IntIf
  <2> QED BY <2>1, <2>2
<1>5. \A r \in Reg : Held(h, r) =>
        \A f \in Above(h, r) : IsIntFact(f) =>
          \A v \in Val : TypeOf[v] = IntType => Satisfies(v, f.type, f.typeinfo)
  BY DEF LoopHolds
<1> QED BY <1>3, <1>4, <1>5 DEF LoopHolds

\* What block d starts from is true of a machine that comes to it from block b.
LEMMA InputTrue ==
  ASSUME Fixed, Regular(prog), NEW d \in Block, NEW b \in Preds(prog, d), NEW n \in Machine,
         Sound(rout[b], n), \A r \in Reg : ~Clobbers(r) => True(EntryFact(r), r, n),
         EntrySources(d) # {} => LoopHolds(d, d, n), NEW r \in Reg
  PROVE  True(rin[d][r], r, n)
<1>1. /\ IsFunction(prog) /\ OutputsOK /\ rin[d] = JoinInput(d) /\ b \in Block
      /\ ParametersKept(prog)
  BY ProgramFacts DEF Fixed, Kinds, Regular
<1>2. /\ prog.src[d] \in Seq(Block) /\ prog.src[d] # <<>> /\ b \in ToSet(prog.src[d])
  BY <1>1, ProgramFacts, Members DEF Preds
<1>3. True(rout[b][r], r, n)
  BY SoundIsTrue
<1>4. \A f : Weaker(f, rout[b][r]) /\ f.alias = NoReg => True(f, r, n)
  BY <1>3, WeakerTrue
<1>5. CASE d = Entry \/ IsPreservedEntryRegister(r)
  <2>1. rin[d][r] = EntryFact(r)
    BY <1>1, <1>5 DEF JoinInput
  <2>2. CASE ~Clobbers(r)
    BY <2>1, <2>2
  <2>3. CASE Clobbers(r)
    <3>1. /\ ~IsPreservedEntryRegister(r)
          /\ prog.src[Entry] # <<>> /\ r <= NArgs + NOpt => ParamFact[r].type = NoType
      BY <1>1, <2>3 DEF ParametersKept, Clobbers
    <3>2. d = Entry
      BY <1>5, <3>1
    <3> QED BY <1>2, <2>1, <3>1, <3>2, UntypedTrue
  <2> QED BY <2>2, <2>3
<1>6. CASE ~(d = Entry \/ IsPreservedEntryRegister(r))
  <2>1. rin[d][r] = IF IsLoopHeader(prog, d) THEN HeaderFact(d, r) ELSE Resolve(prog.src[d], r)
    BY <1>1, <1>2, <1>6 DEF JoinInput
  <2>2. True(Resolve(prog.src[d], r), r, n)
    BY <1>1, <1>2, <1>4, ResolveFacts
  <2>3. ASSUME IsLoopHeader(prog, d)
        PROVE  True(HeaderFact(d, r), r, n)
    <3> PICK f, e : f = HeaderFact(d, r) /\ e = Base(d, r)
      OBVIOUS
    <3>1. f \in Ranged /\ f.alias = NoReg
      BY <1>1, <2>3, HeaderFacts
    <3>2. EntrySources(d) # {} => e \in Above(d, r) /\ e \in Ranged
      BY <1>1, BaseFacts DEF Above
    <3>3. CASE \A s \in Preds(prog, d) : Weaker(f, rout[s][r])
      BY <1>4, <3>1, <3>3
    <3>4. CASE EntrySources(d) # {} /\ ~LoopWrites(d, r) /\ f = e
      BY <3>2, <3>4 DEF LoopHolds
    <3>5. CASE EntrySources(d) # {} /\ Grows(d, r) /\ f = ExactIntFact(e)
      <4>1. /\ f.contents = "typedvalue" /\ f.iindx = NoPc
            /\ f.type = e.type /\ f.typeinfo = e.typeinfo
        BY <3>2, <3>5, ExactIntFacts DEF Ranged
      <4>2. IsIntFact(e) /\ \A s \in LoopSources(prog, d) : IsIntPreservingLoopUpdate(s, r)
        BY <3>5 DEF Grows
      <4>3. Held(d, r)
        BY <2>1, <2>3, <3>2, <3>5, <4>1, <4>2 DEF Held
      <4>4. TypeOf[n.regs[r]] = IntType /\ n.regs[r] \in Val
        BY <3>5, <4>3 DEF LoopHolds, Machine
      <4>5. Satisfies(n.regs[r], e.type, e.typeinfo)
        BY <3>2, <3>5, <4>2, <4>3, <4>4 DEF LoopHolds
      <4> QED BY <3>1, <4>1, <4>5 DEF True, InRange
    <3> QED BY <1>1, <2>3, <3>3, <3>4, <3>5, HeaderFacts
  <2> QED BY <2>1, <2>2, <2>3
<1> QED BY <1>5, <1>6

LEMMA StepHolds ==
  ASSUME Fixed, SourcesOK, Regular(prog), NEW b \in Block, NEW m \in Machine, GlobalsOK(m.glob),
         Holds(b, m), NEW n \in Runs(b, m), NEW d \in ToSet(prog.dest[b])
  PROVE  Holds(d, n)
<1>1. IsFunction(prog) /\ OutputsOK
  BY DEF Fixed, Kinds
<1>2. d \in Block /\ b \in Preds(prog, d)
  BY <1>1, ProgramFacts
<1>3. /\ n \in Machine
      /\ \A r \in Reg \ BlockClobbers(prog, b) : n.regs[r] = m.regs[r]
  BY <1>1, BlockKeeps
<1>4. Sound(rout[b], n)
  <2>1. Tracked(prog, b, rin[b], Len(prog.code[b]), rout[b]) /\ Sound(rin[b], m)
    BY DEF Fixed, Holds
  <2> QED BY <1>1, <2>1, BlockSound
<1>5. ASSUME NEW r \in Reg, ~Clobbers(r)
      PROVE  True(EntryFact(r), r, n)
  <2>1. True(EntryFact(r), r, m)
    BY <1>5 DEF Holds
  <2>2. n.regs[r] = m.regs[r]
    BY <1>3, <1>5 DEF Clobbers
  <2> QED BY <2>1, <2>2, EntryFacts DEF True, Mirrored
<1>6. ASSUME NEW h \in Block, d \in LoopBlocks(prog, h) \cup {h}, EntrySources(h) # {}
      PROVE  LoopHolds(h, d, n)
  <2>1. CASE d = h /\ b \in EntrySources(h)
    BY <1>3, <1>4, <2>1, LoopEntered
  <2>2. CASE ~(d = h /\ b \in EntrySources(h))
    <3>1. d = h => b \in LoopSources(prog, h)
      BY <1>2, <2>2 DEF EntrySources
    <3>2. b \in LoopBlocks(prog, h)
      BY <1>1, <1>2, <1>6, <3>1, LoopFacts
    <3>3. LoopHolds(h, b, m)
      BY <1>6, <3>2 DEF Holds
    <3> QED BY <1>4, <1>6, <3>1, <3>2, <3>3, LoopStays
  <2> QED BY <2>1, <2>2
<1>7. \A r \in Reg : True(rin[d][r], r, n)
  <2>1. EntrySources(d) # {} => LoopHolds(d, d, n)
    BY <1>2, <1>6
  <2> QED BY <1>2, <1>3, <1>4, <1>5, <2>1, InputTrue
<1>8. Sound(rin[d], n)
  BY <1>7, SoundIsTrue
<1> QED BY <1>5, <1>6, <1>8 DEF Holds

\* The function is entered with what is known of its calls.
LEMMA EntryHolds ==
  ASSUME Fixed, Structured(prog), NEW n \in Entering
  PROVE  Holds(Entry, n)
<1>1. IsFunction(prog) /\ Entry \in Block
  BY BlockAssumption DEF Fixed, Kinds, Entry, Block
<1> PICK args : args = [r \in Reg |-> EntryFact(r)]
  OBVIOUS
<1>2. n \in Machine /\ Mirrors(args, n) /\ Types(args, n)
  BY DEF Entering
<1>3. \A r \in Reg : args[r] = EntryFact(r) /\ InRange(args[r]) /\ args[r].alias = NoReg
  BY EntryFacts DEF Ranged
<1>4. Sound(args, n)
  BY <1>2, <1>3 DEF Sound, Aliases
<1>5. \A r \in Reg : True(EntryFact(r), r, n)
  BY <1>3, <1>4, SoundIsTrue
<1>6. rin[Entry] = args
  BY <1>1 DEF Fixed, JoinInput
<1>7. ASSUME NEW h \in Block, Entry \in LoopBlocks(prog, h) \cup {h}
      PROVE  EntrySources(h) = {}
  <2>1. h = Entry
    <3>1. h <= Entry /\ h \in Nat
      BY <1>7 DEF Structured, Block, Entry
    <3> QED BY <3>1 DEF Entry
  <2>2. \A s \in Block : ~(s < Entry)
    BY DEF Block, Entry
  <2> QED BY <1>1, <2>1, <2>2, EntrySourcesFacts, ProgramFacts
<1> QED BY <1>4, <1>5, <1>6, <1>7 DEF Holds

-----------------------------------------------------------------------------
Running == at \in Block => Holds(at, machine)

LEMMA RunningSame ==
  ASSUME UNCHANGED <<prog, loopblocks, rin, rout>>, NEW d, NEW n, d = at', n = machine', Holds(d, n)
  PROVE  Running'
<1>1. \A h \in Block : (EntrySources(h))' = EntrySources(h)
  BY DEF EntrySources
<1>2. \A h \in Block : \A r \in Reg : (Above(h, r))' = Above(h, r)
  BY <1>1 DEF Above
<1>3. \A s, r : (LastWrite(s, r))' = LastWrite(s, r)
  BY DEF LastWrite, InstrAt
<1>4. \A s, r : (Added(s, r))' = Added(s, r)
  BY <1>3 DEF Added
<1>5. \A h \in Block : \A r \in Reg : (Held(h, r))' <=> Held(h, r)
  <2>1. \A s, r : (IsIntPreservingLoopUpdate(s, r))' <=> IsIntPreservingLoopUpdate(s, r)
    BY DEF IsIntPreservingLoopUpdate, InstrAt
  <2> QED BY <1>2, <2>1 DEF Held
<1>6. \A h \in Block : \A r \in Reg : (LoopWrites(h, r))' <=> LoopWrites(h, r)
  BY DEF LoopWrites
<1>7. \A r \in Reg : (Clobbers(r))' <=> Clobbers(r)
  BY DEF Clobbers
<1>8. \A h \in Block : LoopHolds(h, d, n) => (LoopHolds(h, d, n))'
  <2> SUFFICES ASSUME NEW h \in Block, LoopHolds(h, d, n)
               PROVE  (LoopHolds(h, d, n))'
    OBVIOUS
  <2>1. \A r \in Reg : (~LoopWrites(h, r))' => \A f \in (Above(h, r))' : True(f, r, n)
    BY <1>2, <1>6 DEF LoopHolds
  <2>2. \A r \in Reg : (Held(h, r))' =>
          /\ d = h => TypeOf[n.regs[r]] = IntType
          /\ \A s \in LoopSources(prog, h) : IntIf((Added(s, r))', r, n)
          /\ \A f \in (Above(h, r))' : IsIntFact(f) =>
               \A v \in Val : TypeOf[v] = IntType => Satisfies(v, f.type, f.typeinfo)
    BY <1>2, <1>4, <1>5 DEF LoopHolds
  <2> QED BY <2>1, <2>2 DEF LoopHolds
<1>9. (Holds(d, n))'
  BY <1>1, <1>7, <1>8 DEF Holds
<1> QED BY <1>9 DEF Running, Holds, LoopHolds

LEMMA RunningHolds ==
  ASSUME Regular(prog), AInv, Transferred, Running, [Next]_vars
  PROVE  Running'
<1> PICK d, n : d = at' /\ n = machine'
  OBVIOUS
<1>1. Kinds /\ Progress
  BY DEF AInv
<1>2. Regular(prog) /\ SourcesOK
  BY <1>1 DEF Progress
<1>3. at # NotCalled => Fixed
  BY <1>1, Stopped DEF Progress
<1>4. NotCalled \notin Block /\ Returned \notin Block
  BY DEF NotCalled, Returned, Block
<1>5. CASE TakeBlock \/ Simulate \/ LeaveBlock
  <2>1. at = NotCalled /\ at' = at
    BY <1>1, <1>5 DEF Progress, TakeBlock, Simulate, LeaveBlock
  <2> QED BY <1>4, <2>1 DEF Running
<1>6. CASE Called
  <2>1. /\ n \in Entering /\ d = Entry /\ current = NoBlock /\ worklist = <<>>
        /\ UNCHANGED <<prog, loopblocks, rin, rout>>
    BY <1>6 DEF Called, analysis
  <2>2. Fixed
    BY <2>1, Stopped
  <2>3. Holds(d, n)
    BY <1>2, <2>1, <2>2, EntryHolds DEF Regular
  <2> QED BY <2>1, <2>3, RunningSame
<1>7. CASE Run
  <2>1. /\ at \in Block /\ n \in Runs(at, machine)
        /\ d \in IF prog.dest[at] = <<>> THEN {Returned} ELSE ToSet(prog.dest[at])
        /\ UNCHANGED <<prog, loopblocks, rin, rout>>
    BY <1>7 DEF Run, analysis
  <2>2. CASE d = Returned
    BY <1>4, <2>2 DEF Running
  <2>3. CASE d # Returned
    <3> PICK b, m : b = at /\ m = machine
      OBVIOUS
    <3>1. b \in Block /\ m \in Machine /\ GlobalsOK(m.glob) /\ Holds(b, m)
      BY <1>1, <2>1 DEF Kinds, Running
    <3>2. Fixed
      BY <1>3, <1>4, <2>1
    <3>3. n \in Runs(b, m) /\ d \in ToSet(prog.dest[b])
      BY <2>1, <2>3
    <3>4. Holds(d, n)
      BY <1>2, <3>1, <3>2, <3>3, StepHolds
    <3> QED BY <2>1, <3>4, RunningSame
  <2> QED BY <2>2, <2>3
<1>8. CASE UNCHANGED vars
  <2>1. UNCHANGED <<prog, loopblocks, rin, rout, machine, at>>
    BY <1>8 DEF vars, analysis
  <2>2. CASE at \in Block
    <3>1. Holds(d, n)
      BY <2>1, <2>2 DEF Running
    <3> QED BY <2>1, <3>1, RunningSame
  <2>3. CASE at \notin Block
    BY <2>1, <2>3 DEF Running
  <2> QED BY <2>2, <2>3
<1> QED BY <1>5, <1>6, <1>7, <1>8 DEF Next

\* What the dataflow analysis says a block starts from is true of each machine that
\* enters the block, whatever the function, its loops and the path taken (block.rin,
\* cfgraph.h; optimize_joinblockinput and _resolveloopheader), if the functions keep to
\* what the joins take for granted (Regular).
THEOREM InputsRight ==
  ASSUME \A p \in Programs : Regular(p)
  PROVE  Spec => []InputsSound
<1>1. Init => AInv /\ Transferred /\ Running /\ Regular(prog)
  <2> SUFFICES ASSUME Init PROVE AInv /\ Transferred /\ Running /\ Regular(prog)
    OBVIOUS
  <2>1. /\ visited = {} /\ current = NoBlock /\ at = NotCalled /\ NotCalled \notin Block
        /\ prog \in Programs
    BY DEF Init, NotCalled, Block
  <2> QED BY <2>1, InitHolds DEF Transferred, Running
<1>2. AInv /\ AInv' /\ Transferred /\ Running /\ Regular(prog) /\ [Next]_vars
        => Transferred' /\ Running'
  BY TransferredHolds, RunningHolds
<1>3. Running => InputsSound
  BY DEF Running, InputsSound, Holds, Sound
<1>4. Regular(prog) /\ [Next]_vars => Regular(prog)'
  <2> SUFFICES ASSUME Regular(prog), [Next]_vars PROVE Regular(prog)'
    OBVIOUS
  <2>1. prog' = prog
    BY DEF Next, vars, TakeBlock, Simulate, LeaveBlock, Called, Run
  <2> QED BY <2>1
<1> QED BY <1>1, <1>2, <1>3, <1>4, AnalysisInvariant, PTL DEF Spec

-----------------------------------------------------------------------------
(***************************************************************************)
(* Where facts come from as the walk over a block goes on.                 *)
(***************************************************************************)
\* Fact f about register r becomes g when instruction i at pc is tracked: one of the
\* instruction, or one without a source, or what it was, if i does not overwrite r.
Moved(f, g, i, r, pc) ==
  \/ /\ g.iindx = pc /\ r \in Clobbered(i)
     /\ g.alias # NoReg => i[1] = "mov" /\ i[2] = r /\ i[3] = g.alias
  \/ g.iindx = NoPc /\ g.alias = NoReg
  \/ /\ r \notin Overwritten(i)
     /\ g.iindx = f.iindx /\ g.contents = f.contents /\ g.usage = f.usage /\ g.alias \in {NoReg, f.alias}

LEMMA KeptFacts ==
  ASSUME NEW f \in RegInfo, NEW i, NEW r, NEW pc
  PROVE  /\ r \notin Overwritten(i) => Moved(f, f, i, r, pc) /\ Moved(f, ClearAlias(f), i, r, pc)
         /\ Moved(f, Generalize(f), i, r, pc) /\ Generalize(f).iindx = NoPc
         /\ \A type, info : /\ TypedFact(f, type, info).iindx = f.iindx
                            /\ TypedFact(f, type, info).alias = f.alias
<1>1. ClearAlias(f) = [f EXCEPT !.alias = NoReg]
  BY DEF ClearAlias
<1>2. Generalize(f).iindx = NoPc /\ Generalize(f).alias = NoReg
  BY DEF Generalize, ClearAlias, ClearSource, RegInfo
<1>3. \A type, info : /\ TypedFact(f, type, info).iindx = f.iindx
                      /\ TypedFact(f, type, info).alias = f.alias
  BY DEF TypedFact, RegInfo
<1> QED BY <1>1, <1>2, <1>3 DEF Moved, RegInfo

LEMMA WrittenMoves ==
  ASSUME NEW pc \in Pc, NEW rl \in RegInfoList, NEW W \in SUBSET Reg, NEW i,
         Overwritten(i) \subseteq W, W \subseteq Clobbered(i), NEW w,
         w = [r \in Reg |-> w[r]],
         \A r \in W : w[r] \in RegInfo /\ w[r].iindx = pc /\ w[r].alias = NoReg,
         \A r \in Reg \ W : w[r] \in {rl[r], ClearAlias(rl[r]), Generalize(rl[r]), ClearAlias(Generalize(rl[r]))}
  PROVE  /\ \A r \in Reg : Moved(rl[r], w[r], i, r, pc)
         /\ \A a \in W : \A type, info : \A r \in Reg :
              Moved(rl[r], SetTypeInfo(w, a, type, info)[r], i, r, pc)
<1>1. ASSUME NEW r \in Reg
      PROVE  Moved(rl[r], w[r], i, r, pc)
  <2>1. CASE r \in W
    BY <2>1 DEF Moved
  <2>2. CASE r \notin W
    <3>0. rl[r] \in RegInfo
      BY DEF RegInfoList
    <3>1. Generalize(rl[r]) \in RegInfo /\ Generalize(rl[r]).iindx = NoPc
      BY <3>0, GeneralizeFact, KeptFacts
    <3>n. r \notin Overwritten(i)
      BY <2>2
    <3>2. \/ w[r] = rl[r] \/ w[r] = ClearAlias(rl[r]) \/ w[r] = Generalize(rl[r])
          \/ w[r] = ClearAlias(Generalize(rl[r]))
      BY <2>2
    <3>3. ClearAlias(Generalize(rl[r])).iindx = NoPc /\ ClearAlias(Generalize(rl[r])).alias = NoReg
      BY <3>1, ClearAliasFact DEF ClearAlias, RegInfo
    <3>4. CASE w[r] = ClearAlias(Generalize(rl[r]))
      BY <3>3, <3>4 DEF Moved
    <3> QED BY <3>0, <3>n, <3>2, <3>4, KeptFacts
  <2> QED BY <2>1, <2>2
<1>2. ASSUME NEW a \in W, NEW type, NEW info, NEW r \in Reg
      PROVE  Moved(rl[r], SetTypeInfo(w, a, type, info)[r], i, r, pc)
  <2>1. SetTypeInfo(w, a, type, info)[r] = IF r = a THEN TypedFact(w[a], type, info) ELSE w[r]
    BY DEF SetTypeInfo
  <2>2. CASE r = a
    <3>1. w[a] \in RegInfo /\ w[a].iindx = pc /\ w[a].alias = NoReg
      OBVIOUS
    <3>2. TypedFact(w[a], type, info).iindx = pc /\ TypedFact(w[a], type, info).alias = NoReg
      BY <3>1, KeptFacts
    <3> QED BY <2>1, <2>2, <3>2 DEF Moved
  <2>3. CASE r # a
    BY <1>1, <2>1, <2>3
  <2> QED BY <2>2, <2>3
<1> QED BY <1>1, <1>2

LEMMA TrackMoves ==
  ASSUME NEW rl \in RegInfoList, NEW pc \in Pc, NEW i, IsInstruction(i)
  PROVE  \A r \in Reg : Moved(rl[r], TrackAny(rl, pc, i)[r], i, r, pc)
<1>0. \A r \in Reg : rl[r] \in RegInfo
  BY DEF RegInfoList
<1>k. i[1] # "call" => TrackAny(rl, pc, i) = Track(rl, pc, i)
  BY DEF TrackAny
<1>w. \A contents \in Contents : \A indx \in Index \cup {NoIndex} :
        /\ WrittenFact(pc, contents, indx) \in RegInfo
        /\ WrittenFact(pc, contents, indx).iindx = pc /\ WrittenFact(pc, contents, indx).alias = NoReg
  BY WrittenFactFact DEF WrittenFact, InitFact
<1>1. ASSUME NEW contents \in Contents, NEW indx \in Index \cup {NoIndex}, NEW a \in Reg,
             a \in Clobbered(i), Overwritten(i) \subseteq {a}
      PROVE  /\ \A r \in Reg : Moved(rl[r], Write(rl, pc, a, contents, indx)[r], i, r, pc)
             /\ \A type, info : \A r \in Reg :
                  Moved(rl[r], SetTypeInfo(Write(rl, pc, a, contents, indx), a, type, info)[r], i, r, pc)
  <2> DEFINE w == Write(rl, pc, a, contents, indx)
  <2>1. /\ w = [r \in Reg |-> w[r]]
        /\ w[a] = WrittenFact(pc, contents, indx)
        /\ \A r \in Reg \ {a} : w[r] \in {rl[r], ClearAlias(rl[r])}
    BY DEF Write, InvalidateAliases
  <2> HIDE DEF w
  <2>2. /\ \A r \in Reg : Moved(rl[r], w[r], i, r, pc)
        /\ \A c \in {a} : \A type, info : \A r \in Reg :
             Moved(rl[r], SetTypeInfo(w, c, type, info)[r], i, r, pc)
    <3>1. /\ {a} \in SUBSET Reg /\ {a} \subseteq Clobbered(i) /\ Overwritten(i) \subseteq {a}
          /\ \A r \in {a} : w[r] \in RegInfo /\ w[r].iindx = pc /\ w[r].alias = NoReg
          /\ \A r \in Reg \ {a} : w[r] \in {rl[r], ClearAlias(rl[r]), Generalize(rl[r]), ClearAlias(Generalize(rl[r]))}
      BY <1>w, <1>1, <2>1
    <3> QED BY <2>1, <3>1, WrittenMoves
  <2> QED BY <2>2 DEF w
<1>2. ASSUME NEW W \in SUBSET Reg, Overwritten(i) \subseteq W, W \subseteq Clobbered(i), NEW kl, kl = [r \in Reg |-> kl[r]],
             \A r \in Reg : kl[r] = rl[r] \/ kl[r] = Generalize(rl[r])
      PROVE  /\ \A r \in Reg : Moved(rl[r], WriteValues(kl, pc, W)[r], i, r, pc)
             /\ \A a \in W : \A type, info : \A r \in Reg :
                  Moved(rl[r], SetTypeInfo(WriteValues(kl, pc, W), a, type, info)[r], i, r, pc)
  <2> DEFINE w == WriteValues(kl, pc, W)
  <2>1. /\ w = [r \in Reg |-> w[r]]
        /\ \A r \in W : w[r] = WrittenFact(pc, "value", NoIndex)
        /\ \A r \in Reg \ W : w[r] \in {kl[r], ClearAlias(kl[r])}
    BY DEF WriteValues
  <2> HIDE DEF w
  <2>2. /\ \A r \in Reg : Moved(rl[r], w[r], i, r, pc)
        /\ \A c \in W : \A type, info : \A r \in Reg :
             Moved(rl[r], SetTypeInfo(w, c, type, info)[r], i, r, pc)
    <3>1. \A r \in W : w[r] \in RegInfo /\ w[r].iindx = pc /\ w[r].alias = NoReg
      BY <1>w, <2>1 DEF Contents
    <3>2. \A r \in Reg \ W : w[r] \in {rl[r], ClearAlias(rl[r]), Generalize(rl[r]), ClearAlias(Generalize(rl[r]))}
      BY <1>2, <2>1
    <3> QED BY <1>2, <2>1, <3>1, <3>2, WrittenMoves
  <2> QED BY <2>2 DEF w
<1>3. \A r \in Reg : /\ r \notin Overwritten(i) => /\ Moved(rl[r], rl[r], i, r, pc)
                                                  /\ Moved(rl[r], ClearAlias(rl[r]), i, r, pc)
                     /\ Moved(rl[r], Generalize(rl[r]), i, r, pc)
  BY <1>0, KeptFacts
<1>4. rl = [r \in Reg |-> rl[r]]
  BY DEF RegInfoList
<1>5. CASE i[1] = "mov" /\ i[2] \in Reg /\ i[3] \in Reg
  <2> DEFINE cl == InvalidateAliases(rl, i[2])
             wl == CopyRegister(rl, pc, i[2], i[3])
             cf == [cl[i[3]] EXCEPT !.usage = "written", !.iindx = pc, !.alias = i[3]]
  <2>1. \A r \in Reg : wl[r] = IF r = i[2] THEN cf ELSE cl[r]
    BY DEF CopyRegister, InvalidateAliases
  <2>2. \A r \in Reg : cl[r] \in RegInfo /\ cl[r] \in {rl[r], ClearAlias(rl[r])}
    BY <1>0, ClearAliasFact DEF InvalidateAliases
  <2> HIDE DEF cl
  <2>3. cf.iindx = pc /\ cf.alias = i[3]
    BY <1>5, <2>2 DEF RegInfo
  <2>4. i[2] \in Clobbered(i) /\ Overwritten(i) = {i[2]}
    BY <1>5 DEF Clobbered, Overwritten
  <2>5. TrackAny(rl, pc, i) = wl
    BY <1>5, <1>k DEF Track
  <2> HIDE DEF wl, cf
  <2>6. Moved(rl[i[2]], cf, i, i[2], pc)
    BY <1>5, <2>3, <2>4 DEF Moved
  <2>7. \A r \in Reg \ {i[2]} : Moved(rl[r], wl[r], i, r, pc)
    <3> SUFFICES ASSUME NEW r \in Reg \ {i[2]} PROVE Moved(rl[r], wl[r], i, r, pc)
      OBVIOUS
    <3>1. r \notin Overwritten(i) /\ wl[r] \in {rl[r], ClearAlias(rl[r])}
      BY <2>1, <2>2, <2>4
    <3> QED BY <1>3, <3>1
  <2> QED BY <1>5, <2>1, <2>5, <2>6, <2>7
<1>6. CASE i[1] = "lct" /\ i[2] \in Reg /\ i[3] \in Val
  <2>1. i[2] \in Clobbered(i) /\ Overwritten(i) \subseteq {i[2]} /\ "constant" \in Contents /\ i[3] \in Index
    BY <1>6, IndexKinds DEF Clobbered, Overwritten, Contents
  <2>2. TrackAny(rl, pc, i) = SetTypeInfo(Write(rl, pc, i[2], "constant", i[3]), i[2], TypeOf[i[3]], EXACT)
    BY <1>6, <1>k DEF Track, TrackLct
  <2> QED BY <1>1, <1>6, <2>1, <2>2
<1>7. CASE i[1] = "lgl" /\ i[2] \in Reg /\ i[3] \in Glob
  <2>1. i[2] \in Clobbered(i) /\ Overwritten(i) \subseteq {i[2]} /\ "global" \in Contents /\ i[3] \in Index
    BY <1>7, IndexKinds DEF Clobbered, Overwritten, Contents
  <2>2. TrackAny(rl, pc, i) = SetTypeInfo(Write(rl, pc, i[2], "global", i[3]), i[2],
                                          GlobalType[i[3]].type, GlobalType[i[3]].typeinfo)
    BY <1>7, <1>k DEF Track, TrackLgl
  <2> QED BY <1>1, <1>7, <2>1, <2>2
<1>8. CASE i[1] = "lup" /\ i[2] \in Reg /\ i[3] \in Upv
  <2>1. i[2] \in Clobbered(i) /\ Overwritten(i) \subseteq {i[2]} /\ "upvalue" \in Contents /\ i[3] \in Index
    BY <1>8, IndexKinds DEF Clobbered, Overwritten, Contents
  <2>2. TrackAny(rl, pc, i) = Write(rl, pc, i[2], "upvalue", i[3])
    BY <1>8, <1>k DEF Track
  <2> QED BY <1>1, <1>8, <2>1, <2>2
<1>9. CASE i[1] \in {"sup", "sgl"}
  <2>1. \A kind, x : \A r \in Reg : Invalidate(rl, kind, x)[r] \in {rl[r], Generalize(rl[r])}
    BY DEF Invalidate
  <2>3. Overwritten(i) = {}
    BY <1>9 DEF Overwritten
  <2>2. \E kind, x : TrackAny(rl, pc, i) = Invalidate(rl, kind, x)
    BY <1>9, <1>k DEF Track
  <2> QED BY <1>3, <2>1, <2>2, <2>3
<1>10. CASE i[1] \in {"arith", "compare"} /\ i[2] \in Reg
  <2> DEFINE w == WriteValues(rl, pc, {i[2]})
  <2>1. {i[2]} \in SUBSET Reg /\ {i[2]} \subseteq Clobbered(i) /\ Overwritten(i) \subseteq {i[2]}
    BY <1>10 DEF Clobbered, Overwritten
  <2>2. \/ TrackAny(rl, pc, i) = w
        \/ TrackAny(rl, pc, i) = SetTypeInfo(w, i[2], IntType, EXACT)
        \/ TrackAny(rl, pc, i) = SetTypeInfo(w, i[2], FloatType, EXACT)
        \/ TrackAny(rl, pc, i) = SetTypeInfo(w, i[2], BoolType, EXACT)
    BY <1>10, <1>k DEF Track, TrackArith, WriteTyped
  <2>3. /\ \A r \in Reg : Moved(rl[r], w[r], i, r, pc)
        /\ \A type, info : \A r \in Reg : Moved(rl[r], SetTypeInfo(w, i[2], type, info)[r], i, r, pc)
    BY <1>2, <1>4, <2>1
  <2> HIDE DEF w
  <2> QED BY <2>2, <2>3
<1>11. CASE i[1] \in {"print", "nop"}
  <2>1. TrackAny(rl, pc, i) = rl /\ Overwritten(i) = {}
    BY <1>11, <1>k DEF Track, Overwritten
  <2> QED BY <1>3, <2>1
<1>12. CASE i[1] = "call" /\ i[2] \in Reg /\ i[3] \in Nat /\ i[2] + i[3] < NReg
  <2> DEFINE kl == GeneralizeContent(GeneralizeContent(rl, "global"), "upvalue")
             W  == i[2] .. i[2] + i[3]
             w  == WriteValues(kl, pc, W)
             c  == kl[i[2]].indx
  <2>1. kl = [r \in Reg |-> kl[r]] /\ \A r \in Reg : kl[r] = rl[r] \/ kl[r] = Generalize(rl[r])
    <3>1. \A r \in Reg : Generalize(rl[r]).contents # "upvalue"
      BY <1>0, GeneralizeFact
    <3> QED BY <3>1 DEF GeneralizeContent
  <2>2. W \in SUBSET Reg /\ i[2] \in W /\ W \subseteq Clobbered(i) /\ Overwritten(i) \subseteq W
    BY <1>12, RegAssumption DEF Reg, Clobbered, Overwritten
  <2>3. \/ TrackAny(rl, pc, i) = w
        \/ TrackAny(rl, pc, i) = SetTypeInfo(w, i[2], Returns[c].type, Returns[c].typeinfo)
    BY <1>12 DEF TrackAny, TrackCall
  <2> HIDE DEF kl, W
  <2>4. /\ \A r \in Reg : Moved(rl[r], w[r], i, r, pc)
        /\ \A type, info : \A r \in Reg : Moved(rl[r], SetTypeInfo(w, i[2], type, info)[r], i, r, pc)
    BY <1>2, <2>1, <2>2
  <2> HIDE DEF w, c
  <2> QED BY <2>3, <2>4
<1> QED
  BY <1>5, <1>6, <1>7, <1>8, <1>9, <1>10, <1>11, <1>12 DEF IsInstruction, WellFormed

(***************************************************************************)
(* What the facts say of the part of a block that the walk has left behind.*)
(***************************************************************************)
\* The walk over block b has left the first n instructions behind, and f is what it
\* knows of register r: the source of f is one of them, or of the first m if f says
\* nothing; the source changes r, which has not been read since if f says so; and
\* what f is an alias of was copied there.
Placed(code, b, n, m, f, r) ==
  /\ \A k \in 1 .. Len(code) : f.iindx = PcOf(b, k) =>
       /\ k <= m
       /\ f.contents # "nofact" =>
            /\ k <= n /\ r \in Clobbered(code[k])
            /\ f.usage \in {"read", "readwritten"} \/ \A j \in k + 1 .. n : r \notin Used(code[j])
  /\ f.alias # NoReg => \E k \in 1 .. n : /\ f.iindx = PcOf(b, k) /\ code[k][1] = "mov"
                                          /\ code[k][2] = r /\ code[k][3] = f.alias

Walked(code, b, n, m, rl) ==
  /\ rl \in [Reg -> Ranged] /\ Acyclic(rl)
  /\ \A r \in Reg : Placed(code, b, n, m, rl[r], r)

\* Positions of a block have indices of their own, that lead back to them.
LEMMA PcFacts ==
  ASSUME NEW b \in Block, NEW k \in 1 .. Width
  PROVE  /\ PcOf(b, k) \in Pc /\ PcOf(b, k) \in Nat /\ PcOf(b, k) # NoPc
         /\ (PcOf(b, k) % Width) + 1 = k
         /\ \A j \in 1 .. Width : PcOf(b, j) = PcOf(b, k) => j = k
         /\ b * Width <= PcOf(b, k) /\ PcOf(b, k) < (b + 1) * Width
<1>2. /\ b \in Nat /\ b <= NBlock - 1 /\ NBlock \in Nat /\ Width \in Nat
      /\ Pc = 0 .. NBlock * Width - 1
  BY BlockAssumption DEF Block
<1> DEFINE i == k - 1
<1>3. i \in 0 .. Width - 1 /\ Width \in Nat \ {0} /\ i + 1 = k
  BY <1>2
<1>w. b * Width \in Nat
  BY ONLY <1>2
<1>4. PcOf(b, k) = b * Width + i
  BY ONLY <1>w, k \in 1 .. Width DEF PcOf
<1>6. \A j \in 1 .. Width : PcOf(b, j) = PcOf(b, k) => j = k
  <2> SUFFICES ASSUME NEW j \in 1 .. Width, PcOf(b, j) = PcOf(b, k) PROVE j = k
    OBVIOUS
  <2>1. b * Width + j - 1 = b * Width + k - 1
    BY ONLY PcOf(b, j) = PcOf(b, k) DEF PcOf
  <2>2. j \in Int /\ k \in Int
    BY <1>2
  <2> QED BY ONLY <1>w, <2>1, <2>2
<1> HIDE DEF i
<1>5. (b * Width + i) % Width = i
  BY ONLY <1>2, <1>3
<1>7. b * Width + Width <= NBlock * Width /\ NBlock * Width \in Nat /\ (b + 1) * Width = b * Width + Width
  BY ONLY <1>2
<1>8. b * Width + i \in Pc /\ b * Width + i < (b + 1) * Width
  BY ONLY <1>2, <1>3, <1>7, <1>w
<1>9. PcOf(b, k) \in Nat /\ PcOf(b, k) # NoPc /\ b * Width <= PcOf(b, k)
  BY ONLY <1>4, <1>w, <1>3, <1>2 DEF NoPc
<1> QED BY <1>3, <1>4, <1>5, <1>6, <1>8, <1>9

LEMMA RangedFacts ==
  ASSUME NEW rl
  PROVE  /\ rl \in [Reg -> Ranged] <=> Facts(rl)
         /\ rl \in [Reg -> Ranged] => rl \in RegInfoList /\ \A r \in Reg : rl[r] \in RegInfo
<1> QED BY DEF Facts, RegInfoList, Ranged

\* Counting the uses of an instruction keeps all of this.
LEMMA MarkedFact ==
  ASSUME NEW rl \in [Reg -> Ranged], NEW i, NEW r \in Reg
  PROVE  LET f == MarkUsed(rl, i)[r]
         IN  /\ f.iindx = rl[r].iindx /\ f.contents = rl[r].contents /\ f.alias = rl[r].alias
             /\ rl[r].usage \in {"read", "readwritten"} \/ r \in Used(i) =>
                  f.usage \in {"read", "readwritten"}
             /\ f.usage \in {"read", "readwritten"} \/ f.usage = rl[r].usage
<1>1. rl[r] \in RegInfo
  BY RangedFacts
<1>2. MarkUsed(rl, i)[r] = IF r \in Used(i) THEN [rl[r] EXCEPT !.usage = MergeUsage(@, "read")] ELSE rl[r]
  BY DEF MarkUsed
<1>3. \A u : u \in Usage => MergeUsage(u, "read") \in {"read", "readwritten"}
  BY DEF MergeUsage, Usage
<1>4. rl[r].usage \in Usage
  BY <1>1 DEF RegInfo
<1> QED BY <1>1, <1>2, <1>3, <1>4 DEF RegInfo

LEMMA MarkedSound ==
  ASSUME NEW rl \in [Reg -> Ranged], NEW i, NEW m, Sound(rl, m)
  PROVE  Sound(MarkUsed(rl, i), m)
<1> PICK ml : ml = MarkUsed(rl, i)
  OBVIOUS
<1>0. Facts(rl)
  BY RangedFacts
<1>1. \A r \in Reg : Alike(ml[r], rl[r]) /\ ml[r].alias = rl[r].alias
  <2> SUFFICES ASSUME NEW r \in Reg PROVE Alike(ml[r], rl[r]) /\ ml[r].alias = rl[r].alias
    OBVIOUS
  <2>1. rl[r] \in RegInfo
    BY RangedFacts
  <2> QED BY <2>1 DEF MarkUsed, Alike, RegInfo
<1>2. \A r \in Reg : True(rl[r], r, m)
  BY SoundIsTrue
<1>3. \A r \in Reg : True(ml[r], r, m)
  BY <1>1, <1>2 DEF Alike, True, InRange
<1> QED BY <1>3, SoundIsTrue

LEMMA MarkedRanged ==
  ASSUME NEW rl \in [Reg -> Ranged], NEW i
  PROVE  MarkUsed(rl, i) \in [Reg -> Ranged]
<1>1. \A u : u \in Usage => MergeUsage(u, "read") \in Usage
  BY DEF MergeUsage, Usage
<1>2. ASSUME NEW r \in Reg PROVE MarkUsed(rl, i)[r] \in Ranged
  <2>1. rl[r] \in RegInfo /\ InRange(rl[r])
    BY DEF Ranged
  <2>2. MergeUsage(rl[r].usage, "read") \in Usage
    BY <1>1, <2>1 DEF RegInfo
  <2>3. MarkUsed(rl, i)[r] = IF r \in Used(i) THEN [rl[r] EXCEPT !.usage = MergeUsage(@, "read")] ELSE rl[r]
    BY DEF MarkUsed
  <2> QED BY <2>1, <2>2, <2>3 DEF Ranged, RegInfo, InRange
<1>3. MarkUsed(rl, i) = [r \in Reg |-> MarkUsed(rl, i)[r]]
  BY DEF MarkUsed
<1> QED BY <1>2, <1>3

LEMMA MarkedWalked ==
  ASSUME NEW code, NEW b, NEW n, NEW m, NEW rl, Walked(code, b, n, m, rl), NEW i
  PROVE  Walked(code, b, n, m, MarkUsed(rl, i))
<1> PICK ml : ml = MarkUsed(rl, i)
  OBVIOUS
<1>0. rl \in [Reg -> Ranged] /\ Acyclic(rl)
  BY DEF Walked
<1>1. \A r \in Reg : /\ ml[r].iindx = rl[r].iindx /\ ml[r].contents = rl[r].contents /\ ml[r].alias = rl[r].alias
                     /\ rl[r].usage \in {"read", "readwritten"} => ml[r].usage \in {"read", "readwritten"}
  BY <1>0, MarkedFact
<1>2. Acyclic(ml)
  BY <1>0, <1>1, FewerAliases
<1>3. ml \in [Reg -> Ranged]
  BY <1>0, MarkedRanged
<1>4. ASSUME NEW r \in Reg PROVE Placed(code, b, n, m, ml[r], r)
  <2>1. Placed(code, b, n, m, rl[r], r)
    BY DEF Walked
  <2> QED BY <1>1, <2>1 DEF Placed
<1> QED BY <1>2, <1>3, <1>4 DEF Walked

\* An instruction is tracked, and left behind.
LEMMA TrackedWalked ==
  ASSUME NEW b \in Block, NEW code, Len(code) \in 0 .. Width, NEW n \in 0 .. Len(code) - 1,
         NEW m \in 0 .. n + 1, NEW rl, Walked(code, b, n, m, rl),
         IsInstruction(code[n + 1]), ~SelfCopy(code[n + 1]),
         \A r \in Used(code[n + 1]) : rl[r].usage \in {"read", "readwritten"}
  PROVE  /\ Walked(code, b, n + 1, n + 1, TrackAny(rl, PcOf(b, n + 1), code[n + 1]))
         /\ \A r \in Reg : Moved(rl[r], TrackAny(rl, PcOf(b, n + 1), code[n + 1])[r],
                                 code[n + 1], r, PcOf(b, n + 1))
<1> PICK i : i = code[n + 1]
  OBVIOUS
<1> PICK pc : pc = PcOf(b, n + 1)
  OBVIOUS
<1> PICK tl : tl = TrackAny(rl, pc, i)
  OBVIOUS
<1>0. /\ rl \in [Reg -> Ranged] /\ Acyclic(rl) /\ Facts(rl) /\ rl \in RegInfoList
      /\ \A r \in Reg : rl[r] \in RegInfo
  BY RangedFacts DEF Walked
<1>a. Width \in Nat /\ Len(code) \in Nat /\ Len(code) <= Width /\ n + 1 \in 1 .. Width /\ n + 1 \in 1 .. Len(code)
      /\ n \in Nat
  <2>1. Width \in Nat
    BY BlockAssumption
  <2> QED BY <2>1
<1>b. /\ pc \in Pc /\ pc # NoPc
      /\ \A k \in 1 .. Len(code) : PcOf(b, k) = pc => k = n + 1
      /\ \A k \in 1 .. Len(code) : PcOf(b, k) # NoPc
  <2>1. \A k \in 1 .. Len(code) : k \in 1 .. Width
    BY <1>a
  <2> QED BY <1>a, <2>1, PcFacts
<1>c. IsInstruction(i) /\ ~SelfCopy(i) /\ \A r \in Used(i) : rl[r].usage \in {"read", "readwritten"}
  OBVIOUS
<1>1. \A r \in Reg : Moved(rl[r], tl[r], i, r, pc)
  BY ONLY <1>0, <1>b, <1>c, tl = TrackAny(rl, pc, i), TrackMoves
<1>2. tl \in [Reg -> Ranged]
  <2>1. Follows(rl, tl, pc, IsLoad(i))
    BY ONLY <1>0, <1>b, <1>c, tl = TrackAny(rl, pc, i), TrackFollows
  <2> QED BY <2>1, RangedFacts DEF Follows
<1>3. Acyclic(tl)
  <2>1. CASE i[1] = "call"
    <3>1. i[2] \in Reg
      BY <1>c, <2>1 DEF IsInstruction, WellFormed
    <3>2. Acyclic(TrackCall(rl, pc, i[2], i[2], i[3], TRUE))
      BY ONLY <1>0, <1>b, <3>1, TrackCallAcyclic
    <3> QED BY <2>1, <3>2 DEF TrackAny
  <2>2. CASE i[1] = "sgl"
    <3>1. tl = Invalidate(rl, "global", i[3])
      BY <2>2 DEF TrackAny, Track
    <3>2. \A r \in Reg : tl[r].alias = rl[r].alias \/ tl[r].alias = NoReg
      BY <1>0, <3>1, GivenUpAliases
    <3> QED BY <1>0, <3>2, FewerAliases
  <2>3. CASE i[1] \notin {"call", "sgl"}
    <3>1. WellFormed(i)
      BY <1>c, <2>3 DEF IsInstruction
    <3>2. Acyclic(Track(rl, pc, i))
      BY ONLY <1>0, <1>b, <1>c, <3>1, TrackAcyclic
    <3> QED BY <2>3, <3>2 DEF TrackAny
  <2> QED BY <2>1, <2>2, <2>3
<1>4. ASSUME NEW r \in Reg PROVE Placed(code, b, n + 1, n + 1, tl[r], r)
  <2> PICK f, g : f = rl[r] /\ g = tl[r]
    OBVIOUS
  <2>0. Moved(f, g, i, r, pc) /\ Placed(code, b, n, m, f, r) /\ g \in RegInfo
    BY <1>1, <1>2 DEF Walked, Ranged
  <2>1. CASE /\ g.iindx = pc /\ r \in Clobbered(i)
             /\ g.alias # NoReg => i[1] = "mov" /\ i[2] = r /\ i[3] = g.alias
    <3>1. ASSUME NEW k \in 1 .. Len(code), g.iindx = PcOf(b, k)
          PROVE  k = n + 1
      BY <1>b, <2>1, <3>1
    <3>2. r \in Clobbered(code[n + 1]) /\ \A j \in n + 1 + 1 .. n + 1 : r \notin Used(code[j])
      BY <1>a, <2>1
    <3>3. n + 1 \in 1 .. n + 1 /\ n + 1 <= n + 1
      BY <1>a
    <3>4. g.alias # NoReg => code[n + 1][1] = "mov" /\ code[n + 1][2] = r /\ code[n + 1][3] = g.alias
      BY <2>1
    <3>5. g.iindx = PcOf(b, n + 1)
      BY <2>1
    <3> QED BY <3>1, <3>2, <3>3, <3>4, <3>5 DEF Placed
  <2>2. CASE g.iindx = NoPc /\ g.alias = NoReg
    BY <1>b, <2>2 DEF Placed
  <2>3. CASE /\ r \notin Overwritten(i)
             /\ g.iindx = f.iindx /\ g.contents = f.contents /\ g.usage = f.usage /\ g.alias \in {NoReg, f.alias}
    <3>1. ASSUME NEW k \in 1 .. Len(code), g.iindx = PcOf(b, k)
          PROVE  /\ k <= n + 1
                 /\ g.contents # "nofact" =>
                      /\ k <= n + 1 /\ r \in Clobbered(code[k])
                      /\ g.usage \in {"read", "readwritten"} \/ \A j \in k + 1 .. n + 1 : r \notin Used(code[j])
      <4>1. /\ k <= m
            /\ f.contents # "nofact" =>
                 /\ k <= n /\ r \in Clobbered(code[k])
                 /\ f.usage \in {"read", "readwritten"} \/ \A j \in k + 1 .. n : r \notin Used(code[j])
        BY <2>0, <2>3, <3>1 DEF Placed
      <4>2. f.usage \in {"read", "readwritten"} \/ r \notin Used(code[n + 1])
        OBVIOUS
      <4>3. k <= n + 1 /\ \A j \in k + 1 .. n + 1 : j \in k + 1 .. n \/ j = n + 1
        BY <1>a, <4>1
      <4> QED BY <2>3, <4>1, <4>2, <4>3
    <3>2. ASSUME g.alias # NoReg
          PROVE  \E k \in 1 .. n + 1 : /\ g.iindx = PcOf(b, k) /\ code[k][1] = "mov"
                                       /\ code[k][2] = r /\ code[k][3] = g.alias
      <4>1. PICK k \in 1 .. n : /\ f.iindx = PcOf(b, k) /\ code[k][1] = "mov"
                                /\ code[k][2] = r /\ code[k][3] = f.alias
        BY <2>0, <2>3, <3>2 DEF Placed
      <4>2. k \in 1 .. n + 1
        BY <1>a
      <4> QED BY <2>3, <3>2, <4>1, <4>2
    <3> QED BY <3>1, <3>2 DEF Placed
  <2> QED BY <2>0, <2>1, <2>2, <2>3 DEF Moved
<1>5. Walked(code, b, n + 1, n + 1, tl)
  BY <1>2, <1>3, <1>4 DEF Walked
<1> QED BY <1>1, <1>5

=============================================================================
