------------------------------- MODULE Inputs -------------------------------
(***************************************************************************)
(* What the optimizer learns of a whole program (src/src/optimize.c and    *)
(* the tracking functions of src/src/opcodes.c): the arguments its         *)
(* functions are called with, the functions that escape or call            *)
(* themselves, and the contents and types of its globals. In each pass a   *)
(* dataflow analysis goes over all functions at once, and then loads and   *)
(* stores of globals are rewritten on the strength of it.                  *)
(*                                                                         *)
(* Control flow inside a function is acyclic here (loops are module        *)
(* Dataflow's), and of the strategies only those for globals are applied;  *)
(* what instructions read, which those do not ask for, is not recorded.    *)
(* metafunction_reduce, a function of the Morpho library, reduces nothing. *)
(***************************************************************************)
EXTENDS Program

CONSTANT Passes

ASSUME PassesAssumption == Passes \in Nat \ {0}

VARIABLES
  phase,        \* what the optimizer is doing
  kept,         \* functions whose entry block is one (block.isentry)
  known,        \* what is known of the program: see Known
  pass,
  worklist, visited, rin, rout,         \* as in module Dataflow
  current, pos, rlist,                  \* opt->currentblk, pc and rlist
  changes,                              \* opt->nchanged
  claims        \* the facts each pass rewrote blocks by: for the properties only

flow == <<worklist, visited, rin, rout, current, pos, rlist, changes, claims>>

Flag == {"recursive", "escapes", "initconstructed", "initmethod"}

\* functioninfo.flags, functioninputs, processedlabels, glist and ipachanged.
NoInput == [r \in Reg |-> InitFact]
NewGlobal ==
  [contents |-> "empty", val |-> Nil, nread |-> 0, nstore |-> 0,
   assigned |-> <<>>, assignedinfo |-> UNKNOWN, type |-> NoType, typeinfo |-> UNKNOWN]
Known0 ==
  [flags |-> [f \in Funcs |-> {}], inputs |-> [f \in Funcs |-> NoInput],
   labels |-> {}, glist |-> [g \in Glob |-> NewGlobal], changed |-> FALSE]

NoBlock == 0
IsMethod(f) == prog.klass[f] # None
IsLeaf(c) == Children(c) = {}

-----------------------------------------------------------------------------
(***************************************************************************)
(* Globals (src/src/info.c).                                               *)
(***************************************************************************)
SetValue(gl, g) == [gl EXCEPT ![g].contents = "value"]

SetConstant(gl, g, v) ==
  IF \/ gl[g].contents = "empty"
     \/ gl[g].contents = "constant" /\ gl[g].val = v
  THEN [gl EXCEPT ![g].contents = "constant", ![g].val = v]
  ELSE SetValue(gl, g)

MergeTypeInfo(old, new) ==
  IF UNKNOWN \in {old, new} THEN UNKNOWN
  ELSE IF {old, new} = {EXACT} THEN EXACT ELSE SUBTYPE

\* Two distinct types assigned leave none.
AssignType(gl, g, type, info) ==
  LET a == gl[g].assigned
  IN  IF type \in ToSet(a)
      THEN [gl EXCEPT ![g].assignedinfo = MergeTypeInfo(@, info)]
      ELSE [gl EXCEPT ![g].assigned = Append(@, type),
                      ![g].assignedinfo = IF a = <<>> THEN info ELSE UNKNOWN]

\* globalinfolist_computetype and globalinfolist_startpass.
StartPass(gl) ==
  [g \in Glob |->
     IF Len(gl[g].assigned) = 1
     THEN [NewGlobal EXCEPT !.type = gl[g].assigned[1], !.typeinfo = gl[g].assignedinfo]
     ELSE NewGlobal]

-----------------------------------------------------------------------------
(***************************************************************************)
(* Flags and inputs of functions. s is what is known (Known0).             *)
(***************************************************************************)
IsInitializer(f) == IsMethod(f) /\ \E c \in Class : f \in FunctionsOf(Lookup(c, "init"))

MarkRecursive(s, f) ==
  IF "recursive" \in s.flags[f] THEN s
  ELSE [s EXCEPT !.flags[f] = @ \cup {"recursive"}, !.changed = TRUE]

\* Mutant: what the calls seen so far passed is kept.
MarkEscapedKeepsInputs(s, F) ==
  LET new == {f \in F : "escapes" \notin s.flags[f]}
  IN  [s EXCEPT !.flags   = [f \in Funcs |-> IF f \in new THEN @[f] \cup {"escapes"} ELSE @[f]],
                !.changed = @ \/ new # {}]

\* Of functions that escape not all calls are seen: nothing is known of their
\* arguments any more.
MarkEscaped(s, F) ==
  LET new == {f \in F : "escapes" \notin s.flags[f]}
  IN  [s EXCEPT !.flags   = [f \in Funcs |-> IF f \in new THEN @[f] \cup {"escapes"} ELSE @[f]],
                !.inputs  = [f \in Funcs |-> IF f \in new THEN NoInput ELSE @[f]],
                !.changed = @ \/ new # {}]

\* An initializer that is also called as a method escapes.
MarkInit(s, f, use, other) ==
  CASE ~IsInitializer(f) \/ use \in s.flags[f] -> s
    [] IsInitializer(f) /\ use \notin s.flags[f] /\ other \in s.flags[f] ->
         MarkEscaped([s EXCEPT !.flags[f] = @ \cup {use}], {f})
    [] OTHER -> [s EXCEPT !.flags[f] = @ \cup {use}, !.changed = TRUE]

MarkConstructor(s, v) ==
  IF Kind(v) # "class" THEN s
  ELSE FoldSet(LAMBDA f, t : MarkInit(t, f, "initconstructed", "initmethod"), s,
               FunctionsOf(Lookup(v[2], "init")))

\* A property of that name may be a method that is taken as a value.
MarkMethodsForLabel(s, v) ==
  LET l   == v[2]
      all == IF l = "invoke" THEN UNION {Methods(c) : c \in Class} ELSE {Lookup(c, l) : c \in Class}
  IN  IF Kind(v) # "name" \/ l \in s.labels THEN s
      ELSE MarkEscaped([s EXCEPT !.labels = @ \cup {l}],
                       {m[2] : m \in {v2 \in all : Kind(v2) = "fn"}})

IsConstant(rl, r) == rl[r].contents = "constant"

\* What a call says of the argument it passes in register r.
Passed(rl, r) ==
  LET seen == [InitFact EXCEPT !.contents = "value", !.usage = "written"]
  IN  IF IsConstant(rl, r)
      THEN [TypedFact(seen, TypeOf(rl[r].indx), EXACT) EXCEPT !.contents = "constant",
                                                              !.indx = rl[r].indx]
      ELSE TypedFact(seen, rl[r].type, rl[r].typeinfo)

HasUniqueType(rl, r) ==
  \/ rl[r].typeinfo = EXACT /\ rl[r].type # NoType
  \/ rl[r].typeinfo = SUBTYPE /\ rl[r].type \in Class /\ IsLeaf(rl[r].type)

CanSpecializeSelf(rl, f, self) ==
  /\ self # NoReg /\ IsMethod(f) /\ HasUniqueType(rl, self)
  /\ rl[self].type \in Class /\ prog.klass[f] \in Ancestors(rl[self].type)

AddInput(old, new) == IF old.contents = "nofact" THEN new ELSE Join(old, new)

SetInputs(s, f, new) ==
  [s EXCEPT !.inputs[f] = new,
            !.changed   = @ \/ \E r \in Reg : ~Equal(s.inputs[f][r], new[r])]

\* optimize_recordcallsite: f is called with the n registers from start on, on
\* the object in register self.
RecordCallSite(s, rl, f, start, n, self) ==
  LET from == [r \in Reg |-> IF r = 0 /\ CanSpecializeSelf(rl, f, self) THEN self
                             ELSE IF r \in 1 .. n /\ r <= prog.nargs[f] THEN start + r - 1
                             ELSE NoReg]
  IN  IF "escapes" \in s.flags[f] THEN s
      ELSE SetInputs(s, f, [r \in Reg |-> IF from[r] = NoReg THEN s.inputs[f][r]
                                          ELSE AddInput(s.inputs[f][r], Passed(rl, from[r]))])

-----------------------------------------------------------------------------
(***************************************************************************)
(* The tracking functions: rl, s and the current function f give rl and s. *)
(***************************************************************************)
Facts(rl, s) == [rl |-> rl, s |-> s]

WriteValue(rl, r) == Write(rl, NoPc, r, "value", NoIndex)
WriteValues(rl, W) ==
  [r \in Reg |-> IF r \in W THEN WrittenFact(NoPc, "value", NoIndex)
                 ELSE IF rl[r].alias \in W THEN ClearAlias(rl[r]) ELSE rl[r]]
WriteExact(rl, r, type) == SetTypeInfo(WriteValue(rl, r), r, type, EXACT)

\* optimize_findoriginalregister.
Original(rl, r) ==
  LET walk[x \in Reg, n \in 0 .. NReg] ==
        IF n = 0 \/ rl[x].alias \in {NoReg, r} THEN x ELSE walk[rl[x].alias, n - 1]
  IN  walk[r, NReg]

\* _trackescapedcallables: functions passed as arguments escape.
TrackEscaped(s, rl, f, R) ==
  LET consts == {r \in R : IsConstant(rl, r)}
      selfs  == {r \in R \ consts : ~IsMethod(f) /\ Original(rl, r) = 0}
  IN  MarkEscaped(s, {rl[r].indx[2] : r \in {x \in consts : Kind(rl[x].indx) = "fn"}}
                     \cup (IF selfs = {} THEN {} ELSE {f}))

Forget(rl) == GeneralizeContent(GeneralizeContent(rl, "global"), "upvalue")

ReturnType(rl, r, callable) ==
  IF Kind(callable) = "class" THEN SetTypeInfo(rl, r, callable[2], EXACT) ELSE rl

Callee(rl, r) == IF IsConstant(rl, r) THEN rl[r].indx ELSE Nil

\* A function that calls register 0, or a copy of it, calls itself.
CallsItself(rl, f, a, callee) ==
  \/ callee = Fn(f)
  \/ ~IsMethod(f) /\ rl[a].alias = 0
  \/ ~IsMethod(f) /\ a = 0 /\ f # "main"

MarkIfRecursive(s, rl, f, a) ==
  IF CallsItself(rl, f, a, Callee(rl, a)) THEN MarkRecursive(s, f) ELSE s

\* The call of a function that is known, or the construction of an object.
RecordCall(s, rl, a, n) ==
  IF Kind(Callee(rl, a)) = "fn" THEN RecordCallSite(s, rl, Callee(rl, a)[2], a + 1, n, NoReg)
                                ELSE MarkConstructor(s, Callee(rl, a))

RecordMethod(s, rl, a, n) ==
  IF Kind(Callee(rl, a)) # "fn" THEN s
  ELSE RecordCallSite(MarkInit(s, Callee(rl, a)[2], "initmethod", "initconstructed"),
                      rl, Callee(rl, a)[2], a + 2, n, a + 1)

AfterCall(rl, s, f, a, n) ==
  Facts(ReturnType(WriteValues(rl, a .. a + n), a, Callee(rl, a)),
        RecordCall(MarkIfRecursive(TrackEscaped(s, rl, f, a + 1 .. a + n), rl, f, a), rl, a, n))

TrackCall(rl, s, f, a, n) == AfterCall(Forget(rl), s, f, a, n)

\* direct: the callee is what register a holds, not a method of that name.
TrackInvoke(rl, s, f, a, n, direct) ==
  Facts(ReturnType(WriteValues(Forget(rl), a + 1 .. a + n + 1), a + 1,
                   IF direct THEN Callee(rl, a) ELSE Nil),
        TrackEscaped(IF direct THEN RecordMethod(s, rl, a, n) ELSE s,
                     Forget(rl), f, a + 2 .. a + n + 1))

TrackSgl(rl, s, a, g) ==
  LET gl == IF IsConstant(rl, a) THEN SetConstant(s.glist, g, rl[a].indx)
                                 ELSE SetValue(s.glist, g)
      kept1 == Invalidate(rl, "global", g)
  IN  Facts(kept1, [s EXCEPT !.glist = AssignType(gl, g, kept1[a].type, kept1[a].typeinfo)])

TrackAdd(rl, a, b, c) ==
  LET w     == WriteValue(rl, a)
      types == {w[b].type, w[c].type}
  IN  CASE types = {IntType} -> SetTypeInfo(w, a, IntType, EXACT)
        [] types \in {{FloatType}, {IntType, FloatType}} -> SetTypeInfo(w, a, FloatType, EXACT)
        [] OTHER -> w

Track(rl, s, f, i) ==
  LET a == i[2]
      Only(l) == Facts(l, s)
  IN  CASE i[1] = "lct" -> Only(SetTypeInfo(Write(rl, NoPc, a, "constant", i[3]), a,
                                            TypeOf(i[3]), EXACT))
        [] i[1] = "mov" -> Only(CopyRegister(rl, NoPc, a, i[3]))
        [] i[1] = "lgl" -> Only(SetTypeInfo(Write(rl, NoPc, a, "global", i[3]), a,
                                            s.glist[i[3]].type, s.glist[i[3]].typeinfo))
        [] i[1] = "sgl" -> TrackSgl(rl, s, a, i[3])
        [] i[1] = "lup" -> Only(Write(rl, NoPc, a, "upvalue", i[3]))
        [] i[1] = "sup" -> Only(Invalidate(rl, "upvalue", a))
        [] i[1] = "add" -> Only(TrackAdd(rl, a, i[3], i[4]))
        [] i[1] = "cat" -> Only(WriteExact(rl, a, StringType))
        [] i[1] = "lix" -> Only(WriteValue(rl, i[3]))
        [] i[1] = "closure" -> Only(WriteExact(rl, a, ClosureType))
        [] i[1] = "lpr" -> Facts(WriteValue(rl, a),
                                 IF IsConstant(rl, i[4]) THEN MarkMethodsForLabel(s, rl[i[4]].indx)
                                                         ELSE s)
        [] i[1] = "call"   -> TrackCall(rl, s, f, a, i[3])
        [] i[1] = "method" -> TrackInvoke(rl, s, f, a, i[3], TRUE)
        [] i[1] = "invoke" -> TrackInvoke(rl, s, f, a, i[3], FALSE)
        [] OTHER -> Only(rl)

-----------------------------------------------------------------------------
(***************************************************************************)
(* The facts a block starts from.                                          *)
(***************************************************************************)
\* optimize_signature: no parameter has a declared type.
Signature(f) ==
  LET arg  == [InitFact EXCEPT !.contents = "value", !.usage = "written"]
      self == IF IsMethod(f)
              THEN TypedFact(arg, prog.klass[f], IF IsLeaf(prog.klass[f]) THEN EXACT ELSE SUBTYPE)
              ELSE TypedFact(arg, CallableType, SUBTYPE)
  IN  [r \in Reg |-> IF r = 0 THEN self ELSE IF r <= prog.nargs[f] THEN arg ELSE InitFact]

\* optimize_applyfunctioninput: the calls a function makes to itself through
\* register 0 are not seen, so only the types of its arguments are kept.
ApplyInput(f) ==
  LET in(r) == IF r > 0 /\ "recursive" \in known.flags[f] THEN Weaken(known.inputs[f][r])
                                                          ELSE known.inputs[f][r]
  IN  [r \in Reg |->
         CASE in(r).contents = "nofact" -> Signature(f)[r]
           [] in(r).contents # "nofact" /\ IsMethod(f) /\ r = 0 -> Join(Signature(f)[r], in(r))
           [] OTHER -> in(r)]

\* _prepareboundaryfact.
Boundary(f) ==
  LET g == [ClearAlias(f) EXCEPT !.usage = "none",
                                 !.typeinfo = IF f.type = NoType THEN UNKNOWN ELSE @]
  IN  IF HasIndexedContents(f) THEN g ELSE ClearSource(g)

JoinPreds(b, r) ==
  ClearAlias(FoldLeft(LAMBDA g, s : Join(g, rout[s][r]), Boundary(rout[Head(Preds(b))][r]),
                      Tail(Preds(b))))

Preserved(f) == (IF IsMethod(f) THEN 0 ELSE 1) .. prog.nargs[f]

JoinInput(b) ==
  [r \in Reg |-> IF b = Entry(FuncOf(b)) \/ Preds(b) = <<>> \/ r \in Preserved(FuncOf(b))
                 THEN ApplyInput(FuncOf(b))[r] ELSE JoinPreds(b, r)]

-----------------------------------------------------------------------------
(***************************************************************************)
(* A pass.                                                                 *)
(***************************************************************************)
Live(b) == FuncOf(b) \in kept                 \* optimize_blockisreachable

EntryBlocks == SelectSeq([b \in Blocks |-> b], LAMBDA b : b = Entry(FuncOf(b)) /\ Live(b))

Occurrences(op, g) ==
  Cardinality({<<b, j>> \in Blocks \X (1 .. 20) :
                 Live(b) /\ j <= Len(code[b]) /\ code[b][j][1] = op /\ code[b][j][3] = g})

\* The prepasses, and the seeding of the analysis.
BeginPass ==
  /\ phase = "pass"
  /\ known' = [known EXCEPT !.inputs = [f \in Funcs |-> NoInput], !.labels = {},
                 !.glist = LET gl == StartPass(@)
                           IN  [g \in Glob |-> [gl[g] EXCEPT !.nread  = Occurrences("lgl", g),
                                                             !.nstore = Occurrences("sgl", g)]]]
  /\ worklist' = EntryBlocks
  /\ visited' = {}
  /\ phase' = "flow"
  /\ UNCHANGED <<prog, code, kept, pass, rin, rout, current, pos, rlist, changes, claims>>

TakeBlock ==
  /\ phase = "flow" /\ current = NoBlock /\ worklist # <<>>
  /\ worklist' = Front(worklist)
  /\ current' = Last(worklist)
  /\ rlist' = JoinInput(Last(worklist))
  /\ rin' = [rin EXCEPT ![Last(worklist)] = rlist']
  /\ pos' = 1
  /\ known' = [known EXCEPT !.changed = FALSE]
  /\ UNCHANGED <<prog, code, phase, kept, pass, visited, rout, changes, claims>>

Simulate ==
  /\ phase = "flow" /\ current # NoBlock /\ pos <= Len(code[current])
  /\ \E t \in {Track(rlist, known, FuncOf(current), code[current][pos])} :
       rlist' = t.rl /\ known' = t.s
  /\ pos' = pos + 1
  /\ UNCHANGED <<prog, code, phase, kept, pass, worklist, visited, rin, rout, current, changes, claims>>

\* optimize_queueentryblocks, if this visit taught something about functions.
Waken == IF known.changed THEN EntryBlocks ELSE <<>>

LeaveBlock ==
  /\ phase = "flow" /\ current # NoBlock /\ pos > Len(code[current])
  /\ rout' = [rout EXCEPT ![current] = rlist]
  /\ worklist' = worklist \o Waken \o
       (IF current \notin visited \/ \E r \in Reg : ~Equal(rout[current][r], rlist[r])
        THEN prog.blocks[current].to ELSE <<>>)
  /\ visited' = visited \cup {current}
  /\ current' = NoBlock
  /\ UNCHANGED <<prog, code, phase, kept, known, pass, rin, pos, rlist, changes, claims>>

\* The analysis is over: the blocks are rewritten, one after the other.
FirstFrom(b) == SelectSeq([x \in Blocks |-> x], LAMBDA x : x >= b /\ Live(x))

EnterBlock(b) ==
  IF FirstFrom(b) = <<>>
  THEN /\ current' = NoBlock /\ pass' = pass + 1
       /\ phase' = IF pass + 1 = Passes THEN "functions" ELSE "pass"
       /\ UNCHANGED <<rlist, pos>>
  ELSE /\ current' = Head(FirstFrom(b)) /\ rlist' = rin[Head(FirstFrom(b))]
       /\ pos' = 1 /\ phase' = "rewrite" /\ UNCHANGED pass

BeginRewrites ==
  /\ phase = "flow" /\ current = NoBlock /\ worklist = <<>>
  /\ EnterBlock(1)
  /\ changes' = 0
  /\ claims' = claims \cup {rin}
  /\ UNCHANGED <<prog, code, kept, known, worklist, visited, rin, rout>>

\* Mutant: a store of a constant is deleted though the global is still read.
RewrittenReadStore(i) ==
  LET g == known.glist[i[3]]
  IN  CASE i[1] = "lgl" /\ pass >= 1 /\ g.nstore = 1 /\ g.contents = "constant" ->
             <<"lct", i[2], g.val, 0>>
        [] i[1] = "sgl" /\ pass >= 1 /\ g.contents = "constant" -> <<"nop", 0, 0, 0>>
        [] OTHER -> i

\* strategy_constant_global and strategy_unused_global, which the first pass
\* does not apply.
Rewritten(i) ==
  LET g == known.glist[i[3]]
  IN  CASE i[1] = "lgl" /\ pass >= 1 /\ g.nstore = 1 /\ g.contents = "constant" ->
             <<"lct", i[2], g.val, 0>>
        [] i[1] = "sgl" /\ pass >= 1 /\ g.nread = 0 -> <<"nop", 0, 0, 0>>
        [] OTHER -> i

Rewrite ==
  /\ phase = "rewrite" /\ pos <= Len(code[current])
  /\ LET i == code[current][pos]
     IN  /\ code' = [code EXCEPT ![current][pos] = Rewritten(i)]
         /\ changes' = changes + (IF i = Rewritten(i) THEN 0 ELSE 1)
         /\ \E t \in {Track(rlist, known, FuncOf(current), Rewritten(i))} :
              rlist' = t.rl /\ known' = t.s
  /\ pos' = pos + 1
  /\ UNCHANGED <<prog, phase, kept, pass, worklist, visited, rin, rout, current, claims>>

\* The end of a block, which is gone over again if anything changed in it.
FinishBlock ==
  /\ phase = "rewrite" /\ pos > Len(code[current])
  /\ changes' = 0
  /\ IF changes > 0 THEN EnterBlock(current) ELSE EnterBlock(current + 1)
  /\ UNCHANGED <<prog, code, kept, known, worklist, visited, rin, rout, claims>>

PassNext == BeginPass \/ TakeBlock \/ Simulate \/ LeaveBlock \/ BeginRewrites
            \/ Rewrite \/ FinishBlock
=============================================================================
