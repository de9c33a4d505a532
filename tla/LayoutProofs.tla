---------------------------- MODULE LayoutProofs ----------------------------
(***************************************************************************)
(* The control flow graph from its construction to the layout.  First: the *)
(* blocks that are built share no instruction, belong to their functions,  *)
(* are linked as control goes, and cover the code that can be reached,     *)
(* whatever the program.  Then: the graph stays right while the code is    *)
(* rewritten - its edges are the ways the code goes, the cached set of     *)
(* reachable blocks is right, and no edge leads back from a block that was *)
(* cut off, whichever branches are decided and whichever functions are     *)
(* pruned.  Last: the layout of every graph these rewrites can leave.      *)
(***************************************************************************)
EXTENDS Layout, ReachedProofs, SequenceTheorems

-----------------------------------------------------------------------------
(***************************************************************************)
(* The construction of the graph.                                          *)
(***************************************************************************)
\* The program stays one of those given, a block is scanned from its start on, and
\* there are no blocks to build before there is a function they belong to.
IInv ==
  /\ prog \in Programs
  /\ TypeOK
  /\ open # NoBlock => open <= at
  /\ targets # <<>> => open # NoBlock
  /\ worklist # <<>> \/ open # NoBlock => currentfn \in Function

-----------------------------------------------------------------------------
\* What an instruction branches to lies in the program, and so does what it falls
\* through to.
LEMMA InProgram ==
  ASSUME NEW p \in Programs, NEW k \in Ix
  PROVE  /\ p.code[k].to \in Seq(Ix)
         /\ FallsThrough(p.code[k]) => k + 1 \in Ix
<1>1. p.code \in [Ix -> Instruction] /\ (FallsThrough(p.code[k]) => k + 1 \in Ix)
  BY ProgramAssumption
<1>2. p.code[k] \in Instruction
  BY <1>1
<1>3. ASSUME NEW i \in Instruction
      PROVE  i.to \in Seq(Ix)
  <2>1. CASE i \in [op : {"plain", "return"}, to : {<<>>}]
    <3>1. i.to = <<>>
      BY <2>1
    <3> QED BY <3>1
  <2>2. CASE i \in [op : {"b", "bif"}, to : {<<t>> : t \in Ix}]
    <3>1. PICK t \in Ix : i.to = <<t>>
      BY <2>2
    <3> QED BY <3>1
  <2>3. CASE i \in [op : {"pusherr"}, to : Seq(Ix)]
    BY <2>3
  <2> QED BY <2>1, <2>2, <2>3 DEF Instruction
<1> QED BY <1>1, <1>2, <1>3

\* The targets of a scan lie in the program.
LEMMA TargetsInProgram ==
  ASSUME NEW p \in Programs, NEW k \in Ix
  PROVE  Targets(p, k) \in Seq(Ix)
<1>1. p.code[k].to \in Seq(Ix)
  BY InProgram
<1>2. (IF NewBlockAfter(p.code[k]) THEN <<k + 1>> ELSE <<>>) \in Seq(Ix)
  <2>1. NewBlockAfter(p.code[k]) => k + 1 \in Ix
    BY InProgram DEF NewBlockAfter, FallsThrough
  <2> QED BY <2>1
<1> QED BY <1>1, <1>2 DEF Targets

\* Taking an item from a worklist, and planning a block.
LEMMA PopType ==
  ASSUME NEW S, NEW w \in Seq(S), w # <<>>
  PROVE  Pop(w)[1] \in S /\ Pop(w)[2] \in Seq(S)
<1>1. Len(w) \in Nat \ {0}
  OBVIOUS
<1> QED BY <1>1 DEF Pop, Last, Front

LEMMA PushType ==
  ASSUME TypeOK, NEW t \in Ix, Push(t)
  PROVE  /\ starts' \subseteq Ix /\ starts \subseteq starts'
         /\ worklist' \in Seq(starts')
<1>1. worklist \in Seq(starts') /\ t \in starts'
  BY DEF TypeOK, Push
<1> QED BY <1>1 DEF TypeOK, Push

-----------------------------------------------------------------------------
\* Once an item has been taken, and its block begun.
LEMMA ScanStart ==
  ASSUME IInv, NEW k \in Ix
  PROVE  Targets(prog, k) \in Seq(Ix)
BY TargetsInProgram DEF IInv

LEMMA BranchType ==
  ASSUME IInv, BranchToStart \/ BranchIntoBlock \/ BranchToNew
  PROVE  IInv'
<1>1. Head(targets) \in Ix /\ Tail(targets) \in Seq(Ix)
  <2>1. targets \in Seq(Ix) /\ targets # <<>>
    BY DEF IInv, TypeOK, BranchToStart, BranchIntoBlock, BranchToNew
  <2> QED BY <2>1
<1>2. CASE BranchToStart
  BY <1>1, <1>2 DEF IInv, TypeOK, BranchToStart
<1>3. CASE BranchIntoBlock
  <2> DEFINE t == Head(targets)
             s == CHOOSE s \in Holding(Head(targets)) : TRUE
  <2>1. s \in DOMAIN block /\ s <= t /\ t <= block[s].end /\ s # t
    BY <1>3 DEF BranchIntoBlock, Holding
  <2>2. block' = [block EXCEPT ![s].end = t - 1] /\ Push(t)
    BY <1>3 DEF BranchIntoBlock, Split
  <2>3. starts' \subseteq Ix /\ starts \subseteq starts' /\ worklist' \in Seq(starts')
    BY <1>1, <2>2, PushType DEF IInv
  <2>4. DOMAIN block' = DOMAIN block
    BY <2>2
  <2>5. ASSUME NEW r \in DOMAIN block
        PROVE  block'[r].end \in r .. Size - 1 /\ block'[r].func \in Function
    <3>1. block[r].end \in r .. Size - 1 /\ block[r].func \in Function
      BY DEF IInv, TypeOK
    <3>2. CASE r = s
      <4>1. block'[r].end = t - 1 /\ block'[r].func = block[r].func
        BY <2>1, <2>2, <3>2
      <4>2. t - 1 \in s .. Size - 1
        <5>1. s \in Ix /\ t \in Ix
          BY <1>1, <2>1 DEF IInv, TypeOK
        <5> HIDE DEF s, t
        <5> QED BY <2>1, <5>1, SizeAssumption DEF Ix
      <4> QED BY <3>1, <3>2, <4>1, <4>2
    <3>3. CASE r # s
      BY <2>2, <3>1, <3>3
    <3> QED BY <3>2, <3>3
  <2> QED BY <1>1, <1>3, <2>3, <2>4, <2>5 DEF IInv, TypeOK, BranchIntoBlock
<1>4. CASE BranchToNew
  <2>1. starts' \subseteq Ix /\ starts \subseteq starts' /\ worklist' \in Seq(starts')
    BY <1>1, <1>4, PushType DEF IInv, BranchToNew
  <2> QED BY <1>1, <1>4, <2>1 DEF IInv, TypeOK, BranchToNew
<1> QED BY <1>2, <1>3, <1>4

LEMMA BeginType ==
  ASSUME IInv, BeginBlock
  PROVE  IInv'
<1>1. worklist \in Seq(starts) /\ worklist # <<>> /\ starts \subseteq Ix
  BY DEF IInv, TypeOK, BeginBlock
<1>2. open' \in starts /\ worklist' \in Seq(starts)
  BY <1>1, PopType DEF BeginBlock
<1>3. open' \in Ix /\ targets' \in Seq(Ix)
  BY <1>1, <1>2, ScanStart DEF BeginBlock
<1>4. at' = open' /\ open' # NoBlock /\ open' <= at'
  BY <1>3, SizeAssumption DEF BeginBlock, Ix, NoBlock
<1> QED BY <1>2, <1>3, <1>4 DEF IInv, TypeOK, BeginBlock

LEMMA NextInstructionType ==
  ASSUME IInv, NextInstruction
  PROVE  IInv'
<1>1. at \in Ix /\ prog \in Programs
  BY DEF IInv, TypeOK
<1>2. at + 1 \in Ix
  BY <1>1, InProgram DEF NextInstruction, Stops, EndsBlock, FallsThrough
<1>3. targets' \in Seq(Ix)
  BY <1>2, ScanStart DEF NextInstruction
<1>4. open' # NoBlock => open' <= at'
  BY <1>1, SizeAssumption DEF IInv, TypeOK, NextInstruction, Ix, NoBlock
<1> QED BY <1>2, <1>3, <1>4 DEF IInv, TypeOK, NextInstruction

LEMMA EndType ==
  ASSUME IInv, EndBlock
  PROVE  IInv'
<1>1. DOMAIN block' = DOMAIN block \cup {open} /\ open \in starts /\ starts \subseteq Ix
  BY DEF IInv, TypeOK, EndBlock
<1>2. ASSUME NEW s \in DOMAIN block'
      PROVE  block'[s].end \in s .. Size - 1 /\ block'[s].func \in Function
  <2>1. CASE s = open
    <3>1. block'[s] = [end |-> at, func |-> currentfn]
      BY <1>1, <2>1 DEF EndBlock
    <3>2. at \in s .. Size - 1
      BY <1>1, <2>1, SizeAssumption DEF IInv, TypeOK, EndBlock, Ix
    <3> QED BY <3>1, <3>2 DEF IInv, EndBlock
  <2>2. CASE s # open
    <3>1. s \in DOMAIN block /\ block'[s] = block[s]
      BY <1>1, <2>2 DEF EndBlock
    <3> QED BY <3>1 DEF IInv, TypeOK
  <2> QED BY <2>1, <2>2
<1> QED BY <1>1, <1>2 DEF IInv, TypeOK, EndBlock, NoBlock

LEMMA ComponentType ==
  ASSUME IInv, ProcessComponent \/ PushComponent \/ IdentifySources
  PROVE  IInv'
<1>1. CASE ProcessComponent
  <2> DEFINE c == Pop(cworklist)[1]
  <2>1. c \in Component /\ cworklist' \in Seq(Component)
    BY <1>1, PopType DEF IInv, TypeOK, ProcessComponent
  <2>2. /\ prog.holds \in [Component -> Seq(Component)]
        /\ prog.entry \in [Function -> Ix]
    BY ProgramAssumption DEF IInv
  <2>3. components' = components \cup {c} /\ found' = prog.holds[c]
    BY <1>1 DEF ProcessComponent
  <2>4. found' \in Seq(Component) /\ components' \subseteq Component
    BY <2>1, <2>2, <2>3 DEF IInv, TypeOK
  <2>5. /\ starts' \subseteq Ix /\ starts \subseteq starts' /\ worklist' \in Seq(starts')
        /\ currentfn' \in Function \cup {NoFunction}
        /\ worklist' # <<>> => currentfn' \in Function
    <3>1. CASE c \in Function
      <4>1. currentfn' = c /\ Push(prog.entry[c]) /\ prog.entry[c] \in Ix
        BY <1>1, <2>2, <3>1 DEF ProcessComponent
      <4> QED BY <3>1, <4>1, PushType DEF IInv
    <3>2. CASE c \notin Function
      BY <1>1, <3>2 DEF ProcessComponent, IInv, TypeOK
    <3> QED BY <3>1, <3>2
  <2> QED BY <1>1, <2>1, <2>4, <2>5 DEF IInv, TypeOK, ProcessComponent, Idle, scan
<1>2. CASE PushComponent
  <2>1. Head(found) \in Component /\ Tail(found) \in Seq(Component)
    BY <1>2 DEF IInv, TypeOK, PushComponent
  <2>2. cworklist' \in Seq(Component)
    BY <1>2, <2>1 DEF IInv, TypeOK, PushComponent
  <2> QED BY <1>2, <2>1, <2>2 DEF IInv, TypeOK, PushComponent, scan
<1>3. CASE IdentifySources
  <2>1. \A s \in DOMAIN dest' : dest'[s] \subseteq DOMAIN block
    BY <1>3 DEF IdentifySources, Destinations
  <2> QED BY <1>3, <2>1 DEF IInv, TypeOK, IdentifySources, scan
<1> QED BY <1>1, <1>2, <1>3

\* The type invariant of the construction, for every program in which control
\* stays within the code (cfgraph_build): in particular a block never ends before
\* it starts, however often it is split, every block that is built was planned,
\* and every link leads to a block.
THEOREM TypeCorrect == Spec => []TypeOK
<1>1. ASSUME Init PROVE IInv
  <2>1. prog \in Programs /\ prog.code \in [Ix -> Instruction]
    BY <1>1, ProgramAssumption DEF Init
  <2>2. DOMAIN block = {} /\ DOMAIN dest = {} /\ 0 \in Ix /\ Global \in Component
    BY <1>1, SizeAssumption DEF Init, Ix, Component
  <2>3. /\ worklist = <<>> /\ targets = <<>> /\ found = <<>> /\ open = NoBlock
        /\ cworklist \in Seq(Component)
    BY <1>1, <2>2 DEF Init
  <2> QED BY <1>1, <2>1, <2>2, <2>3 DEF Init, IInv, TypeOK
<1>2. IInv /\ [Next]_vars => IInv'
  <2> SUFFICES ASSUME IInv, [Next]_vars PROVE IInv'
    OBVIOUS
  <2>1. CASE UNCHANGED vars
    BY <2>1 DEF IInv, TypeOK, vars, scan
  <2>2. CASE BranchToStart \/ BranchIntoBlock \/ BranchToNew
    BY <2>2, BranchType
  <2>3. CASE BeginBlock \/ NextInstruction \/ EndBlock
    BY <2>3, BeginType, NextInstructionType, EndType
  <2>4. CASE ProcessComponent \/ PushComponent \/ IdentifySources
    BY <2>4, ComponentType
  <2> QED BY <2>1, <2>2, <2>3, <2>4 DEF Next
<1>3. IInv => TypeOK
  BY DEF IInv
<1> QED BY <1>1, <1>2, <1>3, PTL DEF Spec

-----------------------------------------------------------------------------
\* Sequences of no, one and two items.
LEMMA Joined ==
  ASSUME NEW x, NEW y
  PROVE  <<>> \o <<y>> = <<y>> /\ <<x>> \o <<y>> = <<x, y>>
<1>1. <<y>> \in Seq({x, y}) /\ <<x>> \in Seq({x, y})
  OBVIOUS
<1>2. <<>> \o <<y>> = <<y>>
  BY <1>1
<1>3. /\ <<x>> \o <<y>> \in Seq({x, y}) /\ Len(<<x>> \o <<y>>) = 2
      /\ (<<x>> \o <<y>>)[1] = x /\ (<<x>> \o <<y>>)[2] = y
  BY <1>1
<1>4. <<x>> \o <<y>> = <<x, y>>
  <2>1. <<x, y>> \in Seq({x, y}) /\ Len(<<x, y>>) = 2 /\ <<x, y>>[1] = x /\ <<x, y>>[2] = y
    OBVIOUS
  <2>2. \A i \in 1 .. 2 : i = 1 \/ i = 2
    OBVIOUS
  <2> QED BY <1>3, <2>1, <2>2, SeqEqual
<1> QED BY <1>2, <1>4

-----------------------------------------------------------------------------
(***************************************************************************)
(* What is reached.                                                        *)
(***************************************************************************)
\* Control stays within the program.
LEMMA SuccessorsInProgram ==
  ASSUME NEW p \in Programs, NEW k \in Ix
  PROVE  Successors(p.code, k) \subseteq Ix
BY InProgram, Members DEF Successors

\* The body of a function holds its entry, control does not leave it, and it is in
\* every set of instructions of which that is true.
LEMMA BodyFacts ==
  ASSUME NEW p \in Programs, NEW f \in Function
  PROVE  /\ Body(p, f) \subseteq Ix /\ p.entry[f] \in Body(p, f)
         /\ \A k \in Body(p, f) : Successors(p.code, k) \subseteq Body(p, f)
         /\ \A C \in SUBSET Ix :
              p.entry[f] \in C /\ (\A k \in C : Successors(p.code, k) \subseteq C)
                => Body(p, f) \subseteq C
<1> DEFINE succ == [k \in Ix |-> Successors(p.code, k)]
<1>1. succ \in Graph(Ix) /\ \A k \in Ix : succ[k] = Successors(p.code, k)
  BY SuccessorsInProgram DEF Graph
<1>2. IsFiniteSet(Ix)
  BY SizeAssumption, FS_Interval DEF Ix
<1>3. {p.entry[f]} \in SUBSET Ix
  BY ProgramAssumption
<1> HIDE DEF succ
<1>4. /\ ReachedFrom({p.entry[f]}, succ) \in SUBSET Ix
      /\ {p.entry[f]} \subseteq ReachedFrom({p.entry[f]}, succ)
      /\ Closed(ReachedFrom({p.entry[f]}, succ), succ)
      /\ \A C \in SUBSET Ix : {p.entry[f]} \subseteq C /\ Closed(C, succ)
                                => ReachedFrom({p.entry[f]}, succ) \subseteq C
  BY <1>1, <1>2, <1>3, ReachedFacts
<1>5. Body(p, f) = ReachedFrom({p.entry[f]}, succ)
  BY DEF Body, succ
<1> QED BY <1>1, <1>4, <1>5 DEF Closed

\* The live components hold the global function and what they refer to, and are in
\* every set of which that is true.
LEMMA LiveFacts ==
  ASSUME NEW p \in Programs
  PROVE  /\ Live(p) \subseteq Component /\ Global \in Live(p)
         /\ \A x \in Live(p) : ToSet(p.holds[x]) \subseteq Live(p)
         /\ \A C \in SUBSET Component :
              Global \in C /\ (\A x \in C : ToSet(p.holds[x]) \subseteq C) => Live(p) \subseteq C
<1> DEFINE succ == [x \in Component |-> ToSet(p.holds[x])]
<1>1. succ \in Graph(Component) /\ \A x \in Component : succ[x] = ToSet(p.holds[x])
  <2>1. \A x \in Component : ToSet(p.holds[x]) \subseteq Component
    BY ProgramAssumption, Members
  <2> QED BY <2>1 DEF Graph
<1>2. {Global} \in SUBSET Component
  BY SizeAssumption DEF Component
<1> HIDE DEF succ
<1>3. /\ ReachedFrom({Global}, succ) \in SUBSET Component
      /\ {Global} \subseteq ReachedFrom({Global}, succ)
      /\ Closed(ReachedFrom({Global}, succ), succ)
      /\ \A C \in SUBSET Component : {Global} \subseteq C /\ Closed(C, succ)
                                       => ReachedFrom({Global}, succ) \subseteq C
  BY <1>1, <1>2, ComponentAssumption, ReachedFacts
<1>4. Live(p) = ReachedFrom({Global}, succ)
  BY DEF Live, succ
<1> QED BY <1>1, <1>3, <1>4 DEF Closed

-----------------------------------------------------------------------------
(***************************************************************************)
(* The instructions of a program.                                          *)
(***************************************************************************)
\* An instruction branches to k at most once.
BranchesTo(k, t) == prog.code[k].op \in {"b", "bif"} /\ prog.code[k].to = <<t>>

\* The kinds of instructions, and what a scan has to see to at each.
LEMMA Kinds ==
  ASSUME IInv, NEW k \in Ix
  PROVE  LET i == prog.code[k]
         IN  /\ \/ i.op \in {"plain", "return"} /\ i.to = <<>>
                \/ i.op \in {"b", "bif"} /\ \E t \in Ix : i.to = <<t>>
                \/ i.op = "pusherr" /\ \A t \in ToSet(i.to) : t > k
             /\ ToSet(Targets(prog, k)) =
                  ToSet(i.to) \cup (IF NewBlockAfter(i) THEN {k + 1} ELSE {})
<1>1. prog \in Programs /\ prog.code[k] \in Instruction /\ prog.code[k].to \in Seq(Ix)
  BY InProgram, ProgramAssumption DEF IInv
<1> DEFINE i == prog.code[k]
<1>2. \/ i.op \in {"plain", "return"} /\ i.to = <<>>
      \/ i.op \in {"b", "bif"} /\ \E t \in Ix : i.to = <<t>>
      \/ i.op = "pusherr"
  BY <1>1 DEF Instruction
<1>3. i.op = "pusherr" => \A t \in ToSet(i.to) : t > k
  BY <1>1, ProgramAssumption
<1>4. ToSet(Targets(prog, k)) =
        ToSet(i.to) \cup (IF NewBlockAfter(i) THEN {k + 1} ELSE {})
  <2>1. CASE ~NewBlockAfter(i)
    <3>1. Targets(prog, k) = i.to
      BY <1>1, <2>1 DEF Targets
    <3> QED BY <2>1, <3>1
  <2>2. CASE NewBlockAfter(i)
    <3>1. Targets(prog, k) = <<k + 1>> \o i.to /\ k + 1 \in Ix
      BY <1>1, <2>2, InProgram DEF Targets, NewBlockAfter, FallsThrough
    <3>2. /\ Targets(prog, k) \in Seq(Ix) /\ Targets(prog, k) # <<>>
          /\ Head(Targets(prog, k)) = k + 1 /\ Tail(Targets(prog, k)) = i.to
      BY <1>1, <3>1
    <3> QED BY <2>2, <3>2, HeadTail
  <2> QED BY <2>1, <2>2
<1> QED BY <1>2, <1>3, <1>4

-----------------------------------------------------------------------------
(***************************************************************************)
(* The inductive invariant. That no two blocks share an instruction is not *)
(* inductive: a branch back into the block that is being built leaves the  *)
(* start of a second block inside the first. What saves it is that this    *)
(* start is on top of the worklist, that its scan runs through             *)
(* instructions that do not branch until it comes to that same branch      *)
(* again, and that the branch then splits the first block, before the      *)
(* second is entered into the graph.                                       *)
(***************************************************************************)
OnTop(t) == worklist # <<>> /\ t = Last(worklist)

\* Each start is of one block that is built, waits to be built, or is being built.
Partition ==
  /\ starts = DOMAIN block \cup ToSet(worklist) \cup ({open} \ {NoBlock})
  /\ DOMAIN block \cap ToSet(worklist) = {}
  /\ open \notin DOMAIN block /\ open \notin ToSet(worklist)
  /\ IsInjective(worklist)

\* A start within a block that is built is where the block's own branch goes back
\* to; it is the next to be built, or is being built and the block not yet split.
SplitComing ==
  \A s \in DOMAIN block, t \in starts :
    s < t /\ t <= block[s].end =>
      /\ BranchesTo(block[s].end, t)
      /\ \/ open = NoBlock /\ OnTop(t)
         \/ open = t /\ at <= block[s].end /\ (at = block[s].end => t \in ToSet(targets))

\* A start within the block that is being built is where its last branch goes.
OwnSplitComing ==
  open # NoBlock =>
    \A t \in starts : open < t /\ t <= at => targets = <<>> /\ BranchesTo(at, t) /\ OnTop(t)

\* The block that is being built meets no other, unless it is to split it.
Apart ==
  open # NoBlock =>
    \A s \in DOMAIN block : open \notin Extent(s) => (open .. at) \cap Extent(s) = {}

\* Control runs through a block.
Straight ==
  /\ \A s \in DOMAIN block : \A k \in s .. block[s].end - 1 : prog.code[k].op = "plain"
  /\ open # NoBlock => \A k \in open .. at - 1 : prog.code[k].op = "plain"

\* Every target of the instruction that is scanned is planned, or still to do.
TargetsLeft ==
  open # NoBlock =>
    /\ ToSet(targets) \subseteq ToSet(Targets(prog, at))
    /\ ToSet(Targets(prog, at)) \subseteq starts \cup ToSet(targets)
    /\ \A t \in Ix : BranchesTo(at, t) => targets \in {<<>>, <<t>>, <<at + 1, t>>}

\* Every way out of a block leads to a start.
SuccessorsPlanned ==
  \A s \in DOMAIN block : Successors(prog.code, block[s].end) \subseteq starts

\* Blocks, built or planned, are code of the functions they are noted with.
Owned ==
  /\ BlocksBelong /\ \A s \in DOMAIN block : block[s].func \in components
  /\ open # NoBlock => open .. at \subseteq Body(prog, currentfn)
  /\ open # NoBlock \/ worklist # <<>> => currentfn \in components
  /\ worklist # <<>> => ToSet(worklist) \subseteq Body(prog, currentfn)

\* The components searched, waiting and found are live, and what a searched one
\* holds is among them; the entry of a searched function is a start.
ComponentsRight ==
  /\ components \cup ToSet(cworklist) \cup ToSet(found) \subseteq Live(prog)
  /\ Global \in components \cup ToSet(cworklist)
  /\ \A x \in components :
       ToSet(prog.holds[x]) \subseteq components \cup ToSet(cworklist) \cup ToSet(found)
  /\ \A f \in components \cap Function : prog.entry[f] \in starts

\* Blocks are linked when all is done.
LinkedAtEnd ==
  Built => /\ open = NoBlock /\ worklist = <<>> /\ found = <<>> /\ cworklist = <<>>
           /\ dest = [s \in DOMAIN block |-> Destinations(prog, block[s].end, DOMAIN block)]

GInv ==
  /\ IInv /\ Partition /\ SplitComing /\ OwnSplitComing /\ Disjoint /\ Apart
  /\ Straight /\ TargetsLeft /\ SuccessorsPlanned /\ Owned /\ ComponentsRight /\ LinkedAtEnd

-----------------------------------------------------------------------------
(***************************************************************************)
(* Targets of a scan.                                                      *)
(***************************************************************************)
\* A block is planned: its start is new and on top of the worklist, or it was
\* planned before.
LEMMA Pushed ==
  ASSUME IInv, Partition, NEW t \in Ix, Push(t)
  PROVE  /\ starts' = starts \cup {t}
         /\ ToSet(worklist') = ToSet(worklist) \cup ({t} \ starts)
         /\ t \in starts => starts' = starts /\ worklist' = worklist
         /\ t \notin starts => OnTop(t)'
         /\ IsInjective(worklist')
<1>1. worklist \in Seq(Ix) /\ ToSet(worklist) \subseteq starts
  BY DEF IInv, TypeOK, Partition
<1>2. CASE t \in starts
  BY <1>2 DEF Push, Partition
<1>3. CASE t \notin starts
  <2>1. worklist' = Append(worklist, t) /\ starts' = starts \cup {t} /\ t \notin ToSet(worklist)
    BY <1>1, <1>3 DEF Push
  <2> QED BY <1>1, <1>3, <2>1, Appended DEF Partition, OnTop
<1> QED BY <1>2, <1>3

\* Blocks lie in the program.
LEMMA Bounds ==
  ASSUME IInv
  PROVE  /\ prog \in Programs /\ starts \subseteq Ix /\ DOMAIN block \subseteq starts
         /\ Ix \subseteq Nat /\ NoBlock \notin Ix
         /\ \A s \in DOMAIN block :
              block[s].end \in Ix /\ s \in Ix /\ s <= block[s].end /\ block[s].func \in Function
         /\ at \in Ix /\ open \in Ix \cup {NoBlock}
         /\ open # NoBlock => open \in Ix /\ open \in starts /\ open <= at /\ currentfn \in Function
<1>1. Ix \subseteq Nat /\ NoBlock \notin Ix
  BY SizeAssumption DEF Ix, NoBlock
<1>2. starts \subseteq Ix /\ DOMAIN block \subseteq starts /\ prog \in Programs
  BY DEF IInv, TypeOK
<1>3. ASSUME NEW s \in DOMAIN block
      PROVE  block[s].end \in Ix /\ s \in Ix /\ s <= block[s].end /\ block[s].func \in Function
  <2>1. s \in Ix /\ block[s].end \in s .. Size - 1 /\ block[s].func \in Function
    BY <1>2 DEF IInv, TypeOK
  <2> QED BY <2>1, SizeAssumption DEF Ix
<1> QED BY <1>1, <1>2, <1>3 DEF IInv, TypeOK

\* The next target of a scan is code of the function, and where it lies within a
\* block other than at its start, it is the block's own, which is found, and it is no
\* start, unless it is the block being built; and no other block is to be split.
LEMMA NextTarget ==
  ASSUME GInv, targets # <<>>, Head(targets) \notin DOMAIN block
  PROVE  LET t == Head(targets)
         IN  /\ open # NoBlock /\ t \in Ix /\ Tail(targets) \in Seq(Ix)
             /\ ToSet(targets) = {t} \cup ToSet(Tail(targets))
             /\ t \in Successors(prog.code, at) /\ prog.code[at].op # "plain"
             /\ t \in Body(prog, currentfn)
             /\ \A s \in DOMAIN block : t \in Extent(s) => s \in Holding(t) /\ s < t
             /\ \A s \in DOMAIN block : t \in Extent(s) /\ t \in starts => t = open
             /\ \A r, s \in DOMAIN block : open \in Extent(r) /\ t \in Extent(s) => t = open /\ r = s
<1> DEFINE t == Head(targets)
           i == prog.code[at]
<1>1. /\ open # NoBlock /\ open \in Ix /\ open <= at /\ at \in Ix /\ prog \in Programs
      /\ starts \subseteq Ix /\ targets \in Seq(Ix) /\ currentfn \in Function
      /\ DOMAIN block \subseteq Ix
      /\ \A s \in DOMAIN block : block[s].end \in Ix /\ s <= block[s].end /\ block[s].func \in Function
  BY Bounds DEF GInv, IInv, TypeOK
<1>2. /\ t \in Ix /\ Tail(targets) \in Seq(Ix)
      /\ ToSet(targets) = {t} \cup ToSet(Tail(targets))
  BY <1>1, HeadTail
<1>3. t \in ToSet(Targets(prog, at))
  BY <1>1, <1>2 DEF GInv, TargetsLeft
<1>4. t \in Successors(prog.code, at) /\ i.op # "plain"
  <2>1. i.op # "plain"
    BY <1>1, <1>3, Kinds, Members DEF GInv, NewBlockAfter
  <2> QED BY <1>1, <1>3, <2>1, Kinds DEF GInv, NewBlockAfter, FallsThrough, Successors
<1>5. at \in Body(prog, currentfn)
  BY <1>1 DEF GInv, Owned, Ix
<1>6. t \in Body(prog, currentfn)
  BY <1>1, <1>4, <1>5, BodyFacts
<1>7. ASSUME NEW s \in DOMAIN block, t \in Extent(s)
      PROVE  s \in Holding(t) /\ s < t
  <2>1. t \in Body(prog, block[s].func)
    BY <1>7 DEF GInv, Owned, BlocksBelong
  <2>2. block[s].func = currentfn
    BY <1>1, <1>6, <2>1, ProgramAssumption
  <2>3. s <= t /\ t <= block[s].end
    BY <1>7 DEF Extent
  <2>4. s # t /\ s \in Int /\ t \in Int
    BY <1>1, <1>2 DEF Ix
  <2> QED BY <2>2, <2>3, <2>4 DEF Holding
<1>8. ASSUME NEW s \in DOMAIN block, t \in Extent(s), t \in starts
      PROVE  t = open
  BY <1>1, <1>7, <1>8 DEF GInv, SplitComing, Extent
<1>9. ASSUME NEW r \in DOMAIN block, NEW s \in DOMAIN block, open \in Extent(r), t \in Extent(s)
      PROVE  t = open /\ r = s
  <2>1. r < open /\ open <= block[r].end /\ open \in starts
    <3>1. r # open /\ open \in starts /\ r \in Int /\ open \in Int
      BY <1>1 DEF GInv, Partition, Ix
    <3> QED BY <1>9, <3>1 DEF Extent
  <2>2. at <= block[r].end
    BY <1>1, <2>1 DEF GInv, SplitComing
  <2>3. at = block[r].end
    <3>1. at \in r .. block[r].end
      BY <1>1, <2>1, <2>2 DEF Ix
    <3>2. at \notin r .. block[r].end - 1
      BY <1>4 DEF GInv, Straight
    <3> QED BY <1>1, <3>1, <3>2 DEF Ix
  <2>4. t = open
    <3>1. t \in starts
      BY <1>4, <2>3 DEF GInv, SuccessorsPlanned
    <3> QED BY <1>8, <1>9, <3>1
  <2>5. r = s
    BY <1>9, <2>4 DEF GInv, Disjoint
  <2> QED BY <2>4, <2>5
<1> QED BY <1>1, <1>2, <1>4, <1>6, <1>7, <1>8, <1>9

\* What is left to do when a target has been seen to.
LEMMA TargetsTail ==
  ASSUME GInv, targets # <<>>, NEW T \in SUBSET Ix, starts \subseteq T, Head(targets) \in T
  PROVE  /\ ToSet(Tail(targets)) \subseteq ToSet(Targets(prog, at))
         /\ ToSet(Targets(prog, at)) \subseteq T \cup ToSet(Tail(targets))
         /\ \A t \in Ix : BranchesTo(at, t) => Tail(targets) \in {<<>>, <<t>>, <<at + 1, t>>}
<1>1. open # NoBlock /\ ToSet(targets) = {Head(targets)} \cup ToSet(Tail(targets))
  BY HeadTail DEF GInv, IInv, TypeOK
<1>2. ASSUME NEW t \in Ix, BranchesTo(at, t)
      PROVE  Tail(targets) \in {<<>>, <<t>>, <<at + 1, t>>}
  <2>1. targets = <<t>> \/ targets = <<at + 1, t>>
    BY <1>1, <1>2 DEF GInv, TargetsLeft
  <2>2. Tail(<<t>>) = <<>>
    OBVIOUS
  <2>3. Tail(<<at + 1, t>>) = <<t>>
    BY DEF GInv, IInv, TypeOK, Ix
  <2> QED BY <2>1, <2>2, <2>3
<1> QED BY <1>1, <1>2 DEF GInv, TargetsLeft

\* A branch to the start of a planned block adds a link and no block.
LEMMA ToStartStep ==
  ASSUME GInv, BranchToStart
  PROVE  GInv'
<1>1. /\ open # NoBlock /\ targets \in Seq(Ix) /\ starts \subseteq Ix
      /\ ToSet(targets) = {Head(targets)} \cup ToSet(Tail(targets))
      /\ Head(targets) \in starts /\ Head(targets) # open
  BY HeadTail DEF BranchToStart, GInv, IInv, TypeOK, Partition
<1>2. IInv'
  BY BranchType DEF GInv
<1>3. Partition' /\ Disjoint' /\ Apart' /\ Straight' /\ SuccessorsPlanned' /\ ComponentsRight'
  BY DEF BranchToStart, GInv, Partition, Disjoint, Extent, Apart, Straight,
         SuccessorsPlanned, ComponentsRight
<1>4. Owned' /\ LinkedAtEnd'
  BY DEF BranchToStart, GInv, Owned, BlocksBelong, Extent, LinkedAtEnd, Built
<1>5. SplitComing'
  BY <1>1 DEF BranchToStart, GInv, SplitComing, OnTop, BranchesTo
<1>6. OwnSplitComing'
  BY <1>1 DEF BranchToStart, GInv, OwnSplitComing, OnTop, BranchesTo
<1>7. TargetsLeft'
  BY <1>1, TargetsTail DEF BranchToStart, TargetsLeft, BranchesTo
<1> QED BY <1>2, <1>3, <1>4, <1>5, <1>6, <1>7 DEF GInv

\* A branch into the middle of a block splits it: the parts are a partition again.
LEMMA ToNewStep ==
  ASSUME GInv, BranchToNew
  PROVE  GInv'
<1>0. PICK t \in Ix : t = Head(targets)
  BY NextTarget DEF BranchToNew
<1>1. /\ open # NoBlock /\ ToSet(targets) = {t} \cup ToSet(Tail(targets))
      /\ t \in Body(prog, currentfn) /\ at \in Ix /\ starts \subseteq Ix
      /\ \A s \in DOMAIN block : t \notin Extent(s)
  BY <1>0, NextTarget DEF BranchToNew, GInv, IInv, TypeOK
<1>2. IInv'
  BY BranchType DEF GInv
<1>3. /\ Push(t) /\ targets' = Tail(targets) /\ t \notin DOMAIN block /\ targets # <<>>
      /\ UNCHANGED <<prog, block, components, cworklist, found, currentfn, open, at, dest>>
  BY <1>0 DEF BranchToNew
<1>4. /\ starts' = starts \cup {t}
      /\ ToSet(worklist') = ToSet(worklist) \cup ({t} \ starts)
      /\ t \in starts => starts' = starts /\ worklist' = worklist
      /\ t \notin starts => OnTop(t)'
      /\ IsInjective(worklist')
  BY <1>3, Pushed DEF GInv
<1>5. Partition'
  BY <1>1, <1>3, <1>4 DEF GInv, Partition
<1>6. Disjoint' /\ Apart' /\ Straight' /\ SuccessorsPlanned' /\ ComponentsRight'
  BY <1>3, <1>4 DEF GInv, Disjoint, Extent, Apart, Straight, SuccessorsPlanned, ComponentsRight
<1>7. Owned' /\ LinkedAtEnd'
  <2>1. ToSet(worklist) \subseteq Body(prog, currentfn)
    BY Members DEF GInv, Owned
  <2>2. Owned'
    BY <1>1, <1>3, <1>4, <2>1 DEF GInv, Owned, BlocksBelong, Extent
  <2>3. LinkedAtEnd'
    BY <1>1, <1>3 DEF GInv, LinkedAtEnd, Built
  <2> QED BY <2>2, <2>3
<1>8. SplitComing'
  <2>1. SUFFICES ASSUME NEW s \in DOMAIN block, NEW x \in starts', s < x, x <= block[s].end
        PROVE  /\ BranchesTo(block[s].end, x)
               /\ x = open /\ at <= block[s].end /\ (at = block[s].end => x \in ToSet(Tail(targets)))
    BY <1>1, <1>3 DEF SplitComing, BranchesTo
  <2>2. x \in Extent(s)
    BY <1>1, <1>4, <2>1 DEF Extent, GInv, IInv, TypeOK, Ix
  <2>3. x # t
    BY <1>1, <2>2
  <2>4. x \in starts
    BY <1>4, <2>3
  <2> QED BY <1>1, <2>1, <2>3, <2>4 DEF GInv, SplitComing
<1>9. OwnSplitComing'
  <2>1. SUFFICES ASSUME NEW x \in starts', open < x, x <= at
        PROVE  Tail(targets) = <<>> /\ BranchesTo(at, x) /\ OnTop(x)'
    BY <1>1, <1>3 DEF OwnSplitComing, BranchesTo
  <2>2. x = t /\ t \notin starts
    BY <1>1, <1>3, <1>4, <2>1 DEF GInv, OwnSplitComing
  <2>3. t \in ToSet(Targets(prog, at)) /\ t # at + 1
    BY <1>1, <2>1, <2>2 DEF GInv, TargetsLeft, Ix
  <2>4. BranchesTo(at, t)
    <3>1. t \in ToSet(prog.code[at].to)
      BY <1>1, <2>3, Kinds DEF GInv
    <3>2. prog.code[at].op # "pusherr"
      BY <1>1, <2>1, <2>2, <3>1, Kinds DEF GInv, Ix
    <3>3. PICK y \in Ix : prog.code[at].op \in {"b", "bif"} /\ prog.code[at].to = <<y>>
      BY <1>1, <3>1, <3>2, Kinds, Members DEF GInv
    <3> QED BY <3>1, <3>3, Members DEF BranchesTo
  <2>5. targets = <<t>>
    <3>1. targets \in {<<t>>, <<at + 1, t>>}
      BY <1>1, <1>3, <2>4 DEF GInv, TargetsLeft
    <3>2. Head(<<at + 1, t>>) = at + 1
      BY <1>1 DEF Ix
    <3> QED BY <2>3, <1>0, <3>1, <3>2
  <2>6. Tail(targets) = <<>>
    BY <2>5
  <2>7. OnTop(x)'
    BY <1>4, <2>2
  <2> QED BY <2>2, <2>4, <2>6, <2>7
<1>10. TargetsLeft'
  <2>1. starts' \in SUBSET Ix /\ starts \subseteq starts' /\ Head(targets) \in starts'
    BY <1>0, <1>1, <1>4
  <2> QED BY <1>1, <1>3, <2>1, TargetsTail DEF TargetsLeft, BranchesTo
<1> QED BY <1>2, <1>5, <1>6, <1>7, <1>8, <1>9, <1>10 DEF GInv

\* A block is split, before the instruction that the branch goes to. The start of
\* the block that is built is the only one that can lie within it.
LEMMA IntoBlockStep ==
  ASSUME GInv, BranchIntoBlock
  PROVE  GInv'
<1>0. PICK t \in Ix : t = Head(targets)
  BY NextTarget DEF BranchIntoBlock
<1>1. /\ open # NoBlock /\ ToSet(targets) = {t} \cup ToSet(Tail(targets)) /\ t \notin DOMAIN block
      /\ t \in Body(prog, currentfn)
      /\ \A r \in DOMAIN block : t \in Extent(r) => r \in Holding(t) /\ r < t
      /\ \A r \in DOMAIN block : t \in Extent(r) /\ t \in starts => t = open
      /\ \A q, r \in DOMAIN block : open \in Extent(q) /\ t \in Extent(r) => t = open /\ q = r
  BY <1>0, NextTarget DEF BranchIntoBlock
<1>2. PICK s \in DOMAIN block : s \in Holding(t) /\ Split(s, t)
  BY <1>0 DEF BranchIntoBlock, Holding
<1>3. /\ targets' = Tail(targets) /\ targets # <<>> /\ Push(t)
      /\ UNCHANGED <<prog, components, cworklist, found, currentfn, open, at, dest>>
  BY <1>0, <1>2 DEF BranchIntoBlock, Split
<1>4. /\ starts' = starts \cup {t}
      /\ ToSet(worklist') = ToSet(worklist) \cup ({t} \ starts)
      /\ t \in starts => starts' = starts /\ worklist' = worklist
      /\ t \notin starts => OnTop(t)'
      /\ IsInjective(worklist')
  BY <1>3, Pushed DEF GInv
<1>5. /\ prog \in Programs /\ starts \subseteq Ix /\ DOMAIN block \subseteq starts
      /\ Ix \subseteq Nat /\ at \in Ix /\ open \in Ix /\ open \in starts
      /\ \A r \in DOMAIN block : block[r].end \in Ix /\ r \in Ix /\ r <= block[r].end
      /\ t \in Nat /\ at \in Nat
      /\ \A r \in DOMAIN block : block[r].end \in Nat /\ r \in Nat
  BY <1>1, Bounds DEF GInv
<1>6. s <= t /\ t <= block[s].end /\ t \in Extent(s) /\ s < t
  BY <1>1, <1>2, <1>5 DEF Holding, Extent
<1>7. /\ DOMAIN block' = DOMAIN block
      /\ block'[s].end = t - 1 /\ block'[s].func = block[s].func
      /\ \A r \in DOMAIN block : r # s => block'[r] = block[r]
  <2>1. block' = [block EXCEPT ![s].end = t - 1]
    BY <1>2 DEF Split
  <2>2. DOMAIN block' = DOMAIN block
    BY <2>1
  <2>3. block'[s] = [block[s] EXCEPT !.end = t - 1]
    BY <2>1
  <2>5. block'[s].end = t - 1
    BY <2>3
  <2>6. block'[s].func = block[s].func
    BY <2>3
  <2>4. \A r \in DOMAIN block : r # s => block'[r] = block[r]
    BY <2>1
  <2> QED BY <2>2, <2>4, <2>5, <2>6
<1>8. /\ \A r \in DOMAIN block : Extent(r)' \subseteq Extent(r) /\ t \notin Extent(r)'
      /\ \A r \in DOMAIN block : r # s => Extent(r)' = Extent(r)
  <2>1. Extent(s)' \subseteq Extent(s) /\ t \notin Extent(s)'
    BY <1>5, <1>6, <1>7 DEF Extent
  <2>2. ASSUME NEW r \in DOMAIN block, r # s
        PROVE  Extent(r)' = Extent(r) /\ t \notin Extent(r)
    <3>1. Extent(r)' = Extent(r)
      BY <1>7, <2>2 DEF Extent
    <3>2. t \notin Extent(r)
      BY <1>6, <2>2 DEF GInv, Disjoint
    <3> QED BY <3>1, <3>2
  <2> QED BY <2>1, <2>2
<1>9. IInv'
  BY BranchType DEF GInv
<1>10. Partition'
  BY <1>1, <1>3, <1>4, <1>7 DEF GInv, Partition
<1>11. Disjoint'
  BY <1>7, <1>8 DEF GInv, Disjoint
<1>12. Apart'
  <2>1. SUFFICES ASSUME NEW r \in DOMAIN block, open \notin Extent(r)'
        PROVE  (open .. at) \cap Extent(r)' = {}
    BY <1>3, <1>7 DEF Apart
  <2>2. CASE open \notin Extent(r)
    BY <1>1, <1>8, <2>2 DEF GInv, Apart
  <2>3. CASE open \in Extent(r)
    <3>1. r = s /\ t = open
      BY <1>1, <1>6, <1>8, <2>1, <2>3
    <3> QED BY <1>5, <1>7, <3>1 DEF Extent
  <2> QED BY <2>2, <2>3
<1>13. Straight'
  <2>1. \A k \in s .. t - 2 : k \in s .. block[s].end - 1
    BY <1>5, <1>6
  <2>2. (t - 1) - 1 = t - 2
    BY <1>5
  <2> QED BY <1>3, <1>7, <2>1, <2>2 DEF GInv, Straight
<1>14. SuccessorsPlanned'
  <2>1. t - 1 \in s .. block[s].end - 1 /\ (t - 1) + 1 = t
    BY <1>5, <1>6
  <2>5. t - 1 \in Ix
    BY <1>5, <1>6, SizeAssumption DEF Ix
  <2>2. prog.code[t - 1].op = "plain"
    BY <2>1 DEF GInv, Straight
  <2>3. prog.code[t - 1].to = <<>>
    BY <2>2, <2>5, Kinds DEF GInv
  <2>4. Successors(prog.code, t - 1) = {t}
    BY <2>1, <2>2, <2>3, Members DEF Successors, FallsThrough
  <2> QED BY <1>3, <1>4, <1>7, <2>4 DEF GInv, SuccessorsPlanned
<1>15. Owned'
  <2>1. ToSet(worklist) \subseteq Body(prog, currentfn)
    BY Members DEF GInv, Owned
  <2>2. ASSUME NEW r \in DOMAIN block
        PROVE  Extent(r)' \subseteq Body(prog, block'[r].func) /\ block'[r].func \in components
    BY <1>7, <1>8 DEF GInv, Owned, BlocksBelong
  <2> QED BY <1>1, <1>3, <1>4, <1>7, <2>1, <2>2 DEF GInv, Owned, BlocksBelong
<1>16. ComponentsRight' /\ LinkedAtEnd'
  BY <1>1, <1>3, <1>4 DEF GInv, ComponentsRight, LinkedAtEnd, Built
<1>17. SplitComing'
  <2>1. SUFFICES ASSUME NEW r \in DOMAIN block, NEW x \in starts', r < x, x <= block'[r].end
        PROVE  /\ BranchesTo(block'[r].end, x)
               /\ x = open /\ at <= block'[r].end
               /\ (at = block'[r].end => x \in ToSet(Tail(targets)))
    BY <1>1, <1>3, <1>7 DEF SplitComing, BranchesTo
  <2>2. x \in Extent(r)'
    <3>1. x \in Nat
      BY <1>4, <1>5
    <3>2. block'[r].end \in Int
      BY <1>5, <1>7
    <3> QED BY <1>5, <2>1, <3>1, <3>2 DEF Extent
  <2>3. x # t /\ x \in Extent(r)
    BY <1>8, <2>2
  <2>4. x \in starts /\ x <= block[r].end
    BY <1>4, <1>5, <2>3 DEF Extent
  <2>5. x = open
    BY <1>1, <2>1, <2>4 DEF GInv, SplitComing
  <2>6. FALSE
    BY <1>1, <1>6, <2>3, <2>5
  <2> QED BY <2>6
<1>18. OwnSplitComing'
  <2>1. SUFFICES ASSUME NEW x \in starts', open < x, x <= at
        PROVE  FALSE
    BY <1>3 DEF OwnSplitComing
  <2>2. x = t
    BY <1>1, <1>3, <1>4, <2>1 DEF GInv, OwnSplitComing
  <2>3. t \in open .. at /\ open # t
    BY <1>5, <2>1, <2>2
  <2>4. open \in Extent(s)
    BY <1>1, <1>6, <2>3 DEF GInv, Apart
  <2> QED BY <1>1, <1>6, <2>3, <2>4
<1>19. TargetsLeft'
  <2>1. starts' \in SUBSET Ix /\ starts \subseteq starts' /\ Head(targets) \in starts'
    BY <1>0, <1>4, <1>5
  <2> QED BY <1>1, <1>3, <2>1, TargetsTail DEF TargetsLeft, BranchesTo
<1> QED BY <1>9, <1>10, <1>11, <1>12, <1>13, <1>14, <1>15, <1>16, <1>17, <1>18, <1>19 DEF GInv

-----------------------------------------------------------------------------
(***************************************************************************)
(* Blocks.                                                                 *)
(***************************************************************************)
\* A block is begun. If it lies within another, it is the one that was to come next.
LEMMA BeginStep ==
  ASSUME GInv, BeginBlock
  PROVE  GInv'
<1>1. /\ worklist \in Seq(Ix) /\ worklist # <<>> /\ open = NoBlock
      /\ worklist' = Front(worklist) /\ targets' = Targets(prog, open') /\ open' = Last(worklist)
      /\ at' = open'
      /\ UNCHANGED <<prog, block, starts, components, cworklist, found, currentfn, dest>>
  BY DEF BeginBlock, Pop, GInv, IInv, TypeOK
<1>2. /\ open' \in Ix /\ ToSet(worklist) = ToSet(worklist') \cup {open'}
      /\ IsInjective(worklist') /\ open' \notin ToSet(worklist')
  BY <1>1, Popped DEF GInv, Partition
<1>3. /\ starts \subseteq Ix /\ DOMAIN block \subseteq starts /\ Ix \subseteq Nat
      /\ NoBlock \notin Ix /\ prog \in Programs
      /\ \A s \in DOMAIN block : block[s].end \in Nat /\ s \in Nat
  BY Bounds DEF GInv
<1>4. IInv'
  BY BeginType DEF GInv
<1>5. Partition'
  BY <1>1, <1>2, <1>3 DEF GInv, Partition
<1>6. Disjoint' /\ SuccessorsPlanned' /\ ComponentsRight'
  BY <1>1 DEF GInv, Disjoint, Extent, SuccessorsPlanned, ComponentsRight
<1>7. Apart'
  BY <1>1, <1>2, <1>3 DEF Apart, Extent
<1>8. Straight'
  BY <1>1, <1>2, <1>3 DEF GInv, Straight
<1>9. Owned' /\ LinkedAtEnd'
  <2>1. open' .. at' \subseteq Body(prog, currentfn)
    BY <1>1, <1>2, <1>3 DEF GInv, Owned
  <2> QED BY <1>1, <1>2, <2>1 DEF GInv, Owned, BlocksBelong, Extent, LinkedAtEnd, Built
<1>10. ASSUME NEW x \in Ix, BranchesTo(open', x)
       PROVE  /\ targets' \in {<<x>>, <<open' + 1, x>>} /\ x \in ToSet(targets')
  <2>1. prog.code[open'].to = <<x>> /\ targets' = Targets(prog, open') /\ open' \in Ix
    BY <1>1, <1>2, <1>10 DEF BranchesTo
  <2>2. x \in ToSet(targets')
    BY <2>1, Kinds, Members DEF GInv
  <2>3. <<>> \o <<x>> = <<x>> /\ <<open' + 1>> \o <<x>> = <<open' + 1, x>>
    BY <1>2, <1>3, Joined
  <2>4. targets' = <<x>> \/ targets' = <<open' + 1, x>>
    BY <2>1, <2>3 DEF Targets
  <2> QED BY <2>2, <2>4
<1>11. SplitComing'
  <2>1. SUFFICES ASSUME NEW s \in DOMAIN block, NEW t \in starts, s < t, t <= block[s].end
        PROVE  /\ BranchesTo(block[s].end, t) /\ open' = t
               /\ open' <= block[s].end /\ (open' = block[s].end => t \in ToSet(targets'))
    BY <1>1 DEF SplitComing, BranchesTo
  <2>2. BranchesTo(block[s].end, t) /\ open' = t
    BY <1>1, <1>3, <2>1 DEF GInv, SplitComing, OnTop
  <2> QED BY <1>2, <1>10, <2>1, <2>2
<1>12. OwnSplitComing'
  BY <1>1, <1>2, <1>3 DEF OwnSplitComing
<1>13. TargetsLeft'
  BY <1>1, <1>10 DEF TargetsLeft, BranchesTo
<1> QED BY <1>4, <1>5, <1>6, <1>7, <1>8, <1>9, <1>11, <1>12, <1>13 DEF GInv

\* The scan goes on to an instruction at which no block starts.
LEMMA NextInstructionStep ==
  ASSUME GInv, NextInstruction
  PROVE  GInv'
<1>1. /\ open # NoBlock /\ targets = <<>> /\ prog.code[at].op = "plain" /\ at + 1 \notin starts
      /\ at' = at + 1 /\ targets' = Targets(prog, at + 1)
      /\ UNCHANGED <<prog, block, starts, worklist, components, cworklist, found, currentfn, open, dest>>
  BY DEF NextInstruction, Stops, EndsBlock
<1>2. /\ starts \subseteq Ix /\ DOMAIN block \subseteq starts /\ Ix \subseteq Nat
      /\ prog \in Programs /\ at \in Ix /\ at \in Nat /\ open \in Nat /\ open \in Ix /\ open <= at
      /\ \A s \in DOMAIN block : block[s].end \in Nat /\ s \in Nat
      /\ currentfn \in Function /\ at + 1 \in Ix
  <2>1. FallsThrough(prog.code[at])
    BY <1>1 DEF FallsThrough
  <2> QED BY <1>1, <2>1, Bounds, InProgram DEF GInv
<1>3. IInv'
  BY NextInstructionType DEF GInv
<1>4. Partition' /\ Disjoint' /\ SuccessorsPlanned' /\ ComponentsRight' /\ LinkedAtEnd'
  BY <1>1 DEF GInv, Partition, Disjoint, Extent, SuccessorsPlanned, ComponentsRight,
              LinkedAtEnd, Built
<1>5. Apart'
  <2>1. SUFFICES ASSUME NEW s \in DOMAIN block, open \notin Extent(s), at + 1 \in Extent(s)
        PROVE  FALSE
    <3>1. ASSUME NEW s \in DOMAIN block, open \notin Extent(s)
          PROVE  (open .. at) \cap Extent(s) = {}
      BY <1>1, <3>1 DEF GInv, Apart
    <3>2. open .. (at + 1) = (open .. at) \cup {at + 1}
      BY <1>2
    <3> QED BY <1>1, <2>1, <3>1, <3>2 DEF Apart, Extent
  <2>2. at \notin Extent(s)
    <3>1. at \in open .. at
      BY <1>2
    <3> QED BY <1>1, <2>1, <3>1 DEF GInv, Apart
  <2>3. s = at + 1
    BY <1>2, <2>1, <2>2 DEF Extent
  <2> QED BY <1>1, <1>2, <2>3
<1>6. Straight'
  <2>1. \A k \in open .. (at + 1) - 1 : k \in open .. at - 1 \/ k = at
    BY <1>2
  <2> QED BY <1>1, <2>1 DEF GInv, Straight
<1>7. Owned'
  <2>1. at + 1 \in Successors(prog.code, at) /\ at \in Body(prog, currentfn)
    BY <1>1, <1>2 DEF GInv, Owned, Successors, FallsThrough
  <2>2. at + 1 \in Body(prog, currentfn)
    BY <1>2, <2>1, BodyFacts
  <2>3. open .. (at + 1) \subseteq (open .. at) \cup {at + 1}
    BY <1>2
  <2> QED BY <1>1, <2>2, <2>3 DEF GInv, Owned, BlocksBelong, Extent
<1>8. ASSUME NEW x \in Ix, BranchesTo(at + 1, x)
      PROVE  /\ targets' \in {<<x>>, <<(at + 1) + 1, x>>} /\ x \in ToSet(targets')
  <2>1. prog.code[at + 1].to = <<x>> /\ targets' = Targets(prog, at + 1)
    BY <1>1, <1>8 DEF BranchesTo
  <2>2. x \in ToSet(targets')
    <3>1. ToSet(prog.code[at + 1].to) \subseteq ToSet(Targets(prog, at + 1))
      BY <1>2, Kinds DEF GInv
    <3> QED BY <2>1, <3>1, Members
  <2>3. <<>> \o <<x>> = <<x>> /\ <<(at + 1) + 1>> \o <<x>> = <<(at + 1) + 1, x>>
    BY Joined
  <2>4. targets' = <<x>> \/ targets' = <<(at + 1) + 1, x>>
    BY <2>1, <2>3 DEF Targets
  <2> QED BY <2>2, <2>4
<1>9. SplitComing'
  <2>1. SUFFICES ASSUME NEW s \in DOMAIN block, NEW t \in starts, s < t, t <= block[s].end
        PROVE  /\ BranchesTo(block[s].end, t) /\ open = t
               /\ at + 1 <= block[s].end /\ (at + 1 = block[s].end => t \in ToSet(targets'))
    BY <1>1 DEF SplitComing, BranchesTo
  <2>2. /\ BranchesTo(block[s].end, t) /\ open = t
        /\ at <= block[s].end /\ (at = block[s].end => t \in ToSet(targets))
    BY <1>1, <2>1 DEF GInv, SplitComing
  <2>3. at # block[s].end
    BY <1>1, <2>2, Members
  <2> QED BY <1>2, <1>8, <2>2, <2>3
<1>10. OwnSplitComing'
  <2>1. \A t \in starts : open < t /\ t <= at => FALSE
    BY <1>1 DEF GInv, OwnSplitComing, BranchesTo
  <2>2. \A t \in starts : t <= at + 1 => t <= at
    <3>1. \A t \in starts : t \in Nat
      BY <1>2
    <3> QED BY <1>1, <1>2, <3>1
  <2> QED BY <1>1, <2>1, <2>2 DEF OwnSplitComing
<1>11. TargetsLeft'
  BY <1>1, <1>8 DEF TargetsLeft, BranchesTo
<1> QED BY <1>3, <1>4, <1>5, <1>6, <1>7, <1>9, <1>10, <1>11 DEF GInv

\* A block is entered into the graph. It lies within no other: that would have been
\* split at its last branch.
LEMMA EndStep ==
  ASSUME GInv, EndBlock
  PROVE  GInv'
<1>0. PICK o : o = open
  OBVIOUS
<1>1. /\ o # NoBlock /\ targets = <<>>
      /\ prog.code[at].op # "plain" \/ at + 1 \in starts
      /\ open' = NoBlock
      /\ block' = [s \in DOMAIN block \cup {o} |->
                     IF s = o THEN [end |-> at, func |-> currentfn] ELSE block[s]]
      /\ UNCHANGED <<prog, starts, worklist, components, cworklist, found, currentfn, at, targets, dest>>
  BY <1>0 DEF EndBlock, Stops, EndsBlock
<1>2. /\ starts \subseteq Ix /\ DOMAIN block \subseteq starts /\ Ix \subseteq Nat
      /\ prog \in Programs /\ at \in Ix /\ at \in Nat /\ o \in Nat /\ o \in Ix /\ o <= at
      /\ \A s \in DOMAIN block : block[s].end \in Nat /\ s \in Nat
      /\ currentfn \in Function /\ o \in starts /\ NoBlock \notin Ix
      /\ o \notin DOMAIN block /\ o \notin ToSet(worklist)
  BY <1>0, <1>1, Bounds DEF GInv, Partition
<1>3. /\ DOMAIN block' = DOMAIN block \cup {o}
      /\ block'[o].end = at /\ block'[o].func = currentfn
      /\ \A s \in DOMAIN block : block'[s] = block[s]
  BY <1>1, <1>2
<1>4. /\ Extent(o)' = o .. at
      /\ \A s \in DOMAIN block : Extent(s)' = Extent(s)
  BY <1>3 DEF Extent
<1>5. ASSUME NEW s \in DOMAIN block, NEW t \in starts, s < t, t <= block[s].end
      PROVE  FALSE
  <2>1. t = o /\ at <= block[s].end /\ at # block[s].end
    BY <1>0, <1>1, <1>5, Members DEF GInv, SplitComing
  <2>2. at \in s .. block[s].end - 1
    BY <1>2, <1>5, <2>1
  <2>3. at + 1 \in starts
    BY <1>1, <2>2 DEF GInv, Straight
  <2>4. s < at + 1 /\ at + 1 <= block[s].end
    BY <1>2, <2>2
  <2>5. at + 1 = o
    BY <1>0, <1>1, <2>3, <2>4 DEF GInv, SplitComing
  <2> QED BY <1>2, <2>5
<1>6. ASSUME NEW s \in DOMAIN block
      PROVE  (o .. at) \cap Extent(s) = {}
  <2>1. o \notin Extent(s)
    <3>1. SUFFICES ASSUME o \in Extent(s) PROVE FALSE
      OBVIOUS
    <3>2. s < o /\ o <= block[s].end
      BY <1>2, <3>1 DEF Extent
    <3> QED BY <1>2, <1>5, <3>2
  <2> QED BY <1>0, <1>1, <2>1 DEF GInv, Apart
<1>7. IInv'
  BY EndType DEF GInv
<1>8. Partition'
  BY <1>0, <1>1, <1>2, <1>3 DEF GInv, Partition
<1>9. Disjoint'
  <2>1. SUFFICES ASSUME NEW s \in DOMAIN block', NEW t \in DOMAIN block', s # t
        PROVE  Extent(s)' \cap Extent(t)' = {}
    BY DEF Disjoint
  <2>2. CASE s = o
    BY <1>3, <1>4, <1>6, <2>1, <2>2
  <2>3. CASE t = o
    BY <1>3, <1>4, <1>6, <2>1, <2>3
  <2>4. CASE s # o /\ t # o
    BY <1>3, <1>4, <2>1, <2>4 DEF GInv, Disjoint
  <2> QED BY <2>2, <2>3, <2>4
<1>10. Apart' /\ OwnSplitComing' /\ TargetsLeft' /\ ComponentsRight' /\ LinkedAtEnd'
  BY <1>0, <1>1 DEF GInv, Apart, OwnSplitComing, TargetsLeft, ComponentsRight, LinkedAtEnd, Built
<1>11. Straight'
  BY <1>0, <1>1, <1>3 DEF GInv, Straight
<1>12. SuccessorsPlanned'
  <2>1. Successors(prog.code, at) \subseteq starts
    <3>1. ToSet(Targets(prog, at)) \subseteq starts
      BY <1>0, <1>1, Members DEF GInv, TargetsLeft
    <3> QED BY <1>1, <1>2, <3>1, Kinds DEF GInv, Successors, FallsThrough, NewBlockAfter
  <2> QED BY <1>1, <1>3, <2>1 DEF GInv, SuccessorsPlanned
<1>13. Owned'
  <2>1. /\ o .. at \subseteq Body(prog, currentfn) /\ currentfn \in components
        /\ worklist # <<>> => ToSet(worklist) \subseteq Body(prog, currentfn)
    BY <1>0, <1>1 DEF GInv, Owned
  <2>2. ASSUME NEW s \in DOMAIN block'
        PROVE  Extent(s)' \subseteq Body(prog, block'[s].func) /\ block'[s].func \in components
    <3>1. CASE s = o
      BY <1>3, <1>4, <2>1, <3>1
    <3>2. CASE s # o
      BY <1>3, <1>4, <2>2, <3>2 DEF GInv, Owned, BlocksBelong
    <3> QED BY <3>1, <3>2
  <2> QED BY <1>1, <2>1, <2>2 DEF Owned, BlocksBelong
<1>14. SplitComing'
  <2>1. SUFFICES ASSUME NEW t \in starts, o < t, t <= at
        PROVE  BranchesTo(at, t) /\ OnTop(t)
    BY <1>1, <1>3, <1>5 DEF SplitComing, BranchesTo, OnTop
  <2> QED BY <1>0, <1>1, <2>1 DEF GInv, OwnSplitComing
<1> QED BY <1>7, <1>8, <1>9, <1>10, <1>11, <1>12, <1>13, <1>14 DEF GInv

-----------------------------------------------------------------------------
(***************************************************************************)
(* Components, and the whole.                                              *)
(***************************************************************************)
\* A component is searched, and if it is a function its entry is planned. The
\* entry lies in a block only if it is the start of one: a function that is
\* searched for the first time has no blocks yet.
LEMMA ProcessStep ==
  ASSUME GInv, ProcessComponent
  PROVE  GInv'
<1>0. PICK x \in Component : x = Pop(cworklist)[1]
  BY PopType DEF ProcessComponent, GInv, IInv, TypeOK
<1>1. /\ open = NoBlock /\ worklist = <<>> /\ found = <<>> /\ cworklist # <<>> /\ dest = <<>>
      /\ cworklist \in Seq(Component) /\ x = Last(cworklist) /\ cworklist' = Front(cworklist)
      /\ components' = components \cup {x} /\ found' = prog.holds[x]
      /\ x \in Function => currentfn' = x /\ Push(prog.entry[x])
      /\ x \notin Function => UNCHANGED <<currentfn, starts, worklist>>
      /\ UNCHANGED <<prog, block, open, at, targets, dest>>
  BY <1>0 DEF ProcessComponent, Idle, Pop, scan, GInv, IInv, TypeOK
<1>2. /\ starts \subseteq Ix /\ DOMAIN block \subseteq starts /\ Ix \subseteq Nat /\ prog \in Programs
      /\ \A s \in DOMAIN block : s \in Nat /\ block[s].end \in Nat /\ block[s].func \in Function
      /\ \A s \in DOMAIN block : s \in Extent(s)
      /\ starts = DOMAIN block
  <2>1. \A s \in DOMAIN block : s \in Nat /\ block[s].end \in Nat /\ s <= block[s].end
    BY Bounds DEF GInv
  <2>2. starts = DOMAIN block
    BY <1>1, Members DEF GInv, Partition
  <2> QED BY <2>1, <2>2, Bounds DEF GInv, Extent
<1>3. ToSet(cworklist) = ToSet(cworklist') \cup {x}
  BY <1>1, Popped
<1>4. /\ starts \subseteq starts'
      /\ \A t \in starts' \ starts : x \in Function /\ t = prog.entry[x]
      /\ ToSet(worklist') = starts' \ starts /\ IsInjective(worklist')
      /\ x \in Function => prog.entry[x] \in starts' /\ prog.entry[x] \in Ix
  <2>1. CASE x \in Function
    <3>1. prog.entry[x] \in Ix
      BY <1>2, <2>1, ProgramAssumption
    <3>2. PICK t \in Ix : t = prog.entry[x]
      BY <3>1
    <3> QED BY <1>1, <2>1, <3>2, Pushed, Members DEF GInv
  <2>2. CASE x \notin Function
    BY <1>1, <2>2, Members
  <2> QED BY <2>1, <2>2
<1>5. \A s \in DOMAIN block, t \in starts' : s < t => t \notin Extent(s)
  <2>1. ASSUME NEW s \in DOMAIN block, NEW t \in starts, s < t, t \in Extent(s)
        PROVE  FALSE
    BY <1>2, <2>1 DEF GInv, Disjoint
  <2>2. ASSUME NEW s \in DOMAIN block, NEW t \in starts', t \notin starts, t \in Extent(s)
        PROVE  FALSE
    <3>1. x \in Function /\ t = prog.entry[x]
      BY <1>4, <2>2
    <3>2. t \in Body(prog, x) /\ t \in Body(prog, block[s].func)
      BY <1>2, <2>2, <3>1, BodyFacts DEF GInv, Owned, BlocksBelong
    <3>3. block[s].func = x
      BY <1>2, <3>1, <3>2, ProgramAssumption
    <3>4. x \in components
      BY <3>3 DEF GInv, Owned
    <3> QED BY <2>2, <3>1, <3>4 DEF GInv, ComponentsRight
  <2> QED BY <2>1, <2>2
<1>6. IInv'
  BY ComponentType DEF GInv
<1>7. Partition'
  BY <1>1, <1>2, <1>4, Bounds DEF GInv, Partition
<1>8. Disjoint' /\ Apart' /\ Straight' /\ OwnSplitComing' /\ TargetsLeft' /\ LinkedAtEnd'
  BY <1>1 DEF GInv, Disjoint, Extent, Apart, Straight, OwnSplitComing, TargetsLeft,
              LinkedAtEnd, Built
<1>9. SuccessorsPlanned'
  BY <1>1, <1>4 DEF GInv, SuccessorsPlanned
<1>10. SplitComing'
  <2>1. \A s \in DOMAIN block, t \in starts' : s < t /\ t <= block[s].end => t \in Extent(s)
    <3>1. \A t \in starts' : t \in Nat
      BY <1>2, <1>4
    <3> QED BY <1>2, <3>1 DEF Extent
  <2> QED BY <1>1, <1>5, <2>1 DEF SplitComing
<1>11. Owned'
  <2>1. ASSUME worklist' # <<>>
        PROVE  currentfn' \in components' /\ ToSet(worklist') \subseteq Body(prog, currentfn')
    <3>1. x \in Function
      BY <1>1, <2>1
    <3>2. prog.entry[x] \in Body(prog, x)
      BY <1>2, <3>1, BodyFacts
    <3> QED BY <1>1, <1>4, <3>1, <3>2
  <2> QED BY <1>1, <2>1 DEF GInv, Owned, BlocksBelong, Extent
<1>12. ComponentsRight'
  <2>1. x \in Live(prog) /\ ToSet(prog.holds[x]) \subseteq Live(prog)
    BY <1>2, <1>3, LiveFacts DEF GInv, ComponentsRight
  <2>2. ASSUME NEW f \in components' \cap Function
        PROVE  prog.entry[f] \in starts'
    BY <1>1, <1>4 DEF GInv, ComponentsRight
  <2>3. ASSUME NEW y \in components'
        PROVE  ToSet(prog.holds[y]) \subseteq components' \cup ToSet(cworklist') \cup ToSet(found')
    <3>1. CASE y = x
      BY <1>1, <3>1
    <3>2. CASE y # x
      BY <1>1, <1>3, <3>2, Members DEF GInv, ComponentsRight
    <3> QED BY <3>1, <3>2
  <2> QED BY <1>1, <1>3, <2>1, <2>2, <2>3 DEF GInv, ComponentsRight
<1> QED BY <1>6, <1>7, <1>8, <1>9, <1>10, <1>11, <1>12 DEF GInv

\* What a component holds is pushed, unless it has been searched.
LEMMA PushStep ==
  ASSUME GInv, PushComponent
  PROVE  GInv'
<1>0. PICK x \in Component : x = Head(found)
  BY HeadTail DEF PushComponent, GInv, IInv, TypeOK
<1>1. /\ found # <<>> /\ found \in Seq(Component) /\ found' = Tail(found)
      /\ cworklist \in Seq(Component)
      /\ cworklist' = IF x \in components THEN cworklist ELSE Append(cworklist, x)
      /\ UNCHANGED <<prog, block, starts, worklist, components, currentfn, open, at, targets, dest>>
  BY <1>0 DEF PushComponent, Processed, scan, GInv, IInv, TypeOK
<1>2. ToSet(found) = {x} \cup ToSet(found')
  BY <1>0, <1>1, HeadTail
<1>3. ToSet(cworklist') = ToSet(cworklist) \cup ({x} \ components)
  BY <1>1, Appended
<1>4. IInv'
  BY ComponentType DEF GInv
<1>5. /\ Partition' /\ SplitComing' /\ OwnSplitComing' /\ Disjoint' /\ Apart' /\ Straight'
      /\ TargetsLeft' /\ SuccessorsPlanned'
  BY <1>1 DEF GInv, Partition, SplitComing, OwnSplitComing, Disjoint, Extent, Apart,
              Straight, TargetsLeft, SuccessorsPlanned, BranchesTo, OnTop
<1>6. Owned' /\ LinkedAtEnd'
  BY <1>1 DEF GInv, Owned, BlocksBelong, Extent, LinkedAtEnd, Built
<1>7. ComponentsRight'
  BY <1>1, <1>2, <1>3 DEF GInv, ComponentsRight
<1> QED BY <1>4, <1>5, <1>6, <1>7 DEF GInv

\* Blocks are linked.
LEMMA IdentifyStep ==
  ASSUME GInv, IdentifySources
  PROVE  GInv'
<1>1. /\ open = NoBlock /\ worklist = <<>> /\ found = <<>> /\ cworklist = <<>>
      /\ dest' = [s \in DOMAIN block |-> Destinations(prog, block[s].end, DOMAIN block)]
      /\ UNCHANGED <<prog, block, starts, worklist, components, cworklist, found, currentfn,
                     open, at, targets>>
  BY DEF IdentifySources, scan
<1>2. IInv'
  BY ComponentType DEF GInv
<1>3. /\ Partition' /\ SplitComing' /\ OwnSplitComing' /\ Disjoint' /\ Apart' /\ Straight'
      /\ TargetsLeft' /\ SuccessorsPlanned'
  BY <1>1 DEF GInv, Partition, SplitComing, OwnSplitComing, Disjoint, Extent, Apart,
              Straight, TargetsLeft, SuccessorsPlanned, BranchesTo, OnTop
<1>4. Owned' /\ ComponentsRight'
  BY <1>1 DEF GInv, Owned, BlocksBelong, Extent, ComponentsRight
<1>5. LinkedAtEnd'
  BY <1>1 DEF LinkedAtEnd
<1> QED BY <1>2, <1>3, <1>4, <1>5 DEF GInv

\* Nothing is built at first, and the global function is to be searched.
LEMMA InitStep ==
  ASSUME Init
  PROVE  GInv
<1>1. prog \in Programs /\ prog.code \in [Ix -> Instruction]
  BY ProgramAssumption DEF Init
<1>2. /\ DOMAIN block = {} /\ starts = {} /\ worklist = <<>> /\ components = {}
      /\ cworklist = <<Global>> /\ found = <<>> /\ open = NoBlock /\ targets = <<>>
      /\ dest = <<>> /\ DOMAIN dest = {} /\ 0 \in Ix /\ Global \in Component
  BY SizeAssumption DEF Init, Ix, Component
<1>3. IInv
  BY <1>1, <1>2 DEF Init, IInv, TypeOK
<1>4. Partition
  BY <1>2, Members DEF Partition
<1>5. /\ SplitComing /\ OwnSplitComing /\ Disjoint /\ Apart /\ Straight /\ TargetsLeft
      /\ SuccessorsPlanned /\ Owned /\ LinkedAtEnd
  BY <1>2 DEF SplitComing, OwnSplitComing, Disjoint, Apart, Straight, TargetsLeft,
              SuccessorsPlanned, Owned, BlocksBelong, LinkedAtEnd, Built
<1>6. ComponentsRight
  BY <1>1, <1>2, LiveFacts, Members DEF ComponentsRight
<1> QED BY <1>3, <1>4, <1>5, <1>6 DEF GInv

\* The invariant is inductive.
LEMMA NextStep ==
  ASSUME GInv, [Next]_vars
  PROVE  GInv'
<1>1. CASE UNCHANGED vars
  <2>1. IInv'
    BY <1>1 DEF GInv, IInv, TypeOK, vars, scan
  <2>2. /\ Partition' /\ SplitComing' /\ OwnSplitComing' /\ Disjoint' /\ Apart' /\ Straight'
        /\ TargetsLeft' /\ SuccessorsPlanned'
    BY <1>1 DEF GInv, Partition, SplitComing, OwnSplitComing, Disjoint, Extent, Apart,
                Straight, TargetsLeft, SuccessorsPlanned, BranchesTo, OnTop, vars, scan
  <2>3. Owned' /\ ComponentsRight' /\ LinkedAtEnd'
    BY <1>1 DEF GInv, Owned, BlocksBelong, Extent, ComponentsRight, LinkedAtEnd, Built,
                vars, scan
  <2> QED BY <2>1, <2>2, <2>3 DEF GInv
<1>2. CASE ProcessComponent \/ PushComponent \/ IdentifySources
  BY <1>2, ProcessStep, PushStep, IdentifyStep
<1>3. CASE BranchToStart \/ BranchIntoBlock \/ BranchToNew
  BY <1>3, ToStartStep, IntoBlockStep, ToNewStep
<1>4. CASE BeginBlock \/ NextInstruction \/ EndBlock
  BY <1>4, BeginStep, NextInstructionStep, EndStep
<1> QED BY <1>1, <1>2, <1>3, <1>4 DEF Next

\* The invariant holds at every step of the builder.
LEMMA GraphInvariant == Spec => []GInv
BY InitStep, NextStep, PTL DEF Spec

-----------------------------------------------------------------------------
(***************************************************************************)
(* What the invariant says of a finished graph.                            *)
(***************************************************************************)
\* Every way out of a block is a link of it.
LEMMA FinishedLinks ==
  ASSUME GInv
  PROVE  LinksRight
<1>1. SUFFICES ASSUME Built, NEW s \in DOMAIN block
      PROVE  /\ dest[s] = Successors(prog.code, block[s].end)
             /\ \A k \in s .. block[s].end - 1 : Successors(prog.code, k) = {k + 1}
  BY DEF LinksRight
<1>2. /\ starts = DOMAIN block /\ DOMAIN block \subseteq Ix /\ block[s].end \in Ix
      /\ dest[s] = Destinations(prog, block[s].end, DOMAIN block)
  BY <1>1, Members, Bounds DEF GInv, LinkedAtEnd, Partition
<1>3. dest[s] = Successors(prog.code, block[s].end)
  <2> DEFINE i == prog.code[block[s].end]
  <2>1. i.op \in {"plain", "return", "b", "bif", "pusherr"}
    BY <1>2, Kinds DEF GInv
  <2>2. Successors(prog.code, block[s].end) \subseteq DOMAIN block
    BY <1>2 DEF GInv, SuccessorsPlanned
  <2> QED BY <1>2, <2>1, <2>2 DEF Destinations, Successors, FallsThrough
<1>4. ASSUME NEW k \in s .. block[s].end - 1
      PROVE  Successors(prog.code, k) = {k + 1}
  <2>1. k \in Ix
    BY <1>2, SizeAssumption DEF Ix
  <2>2. prog.code[k].op = "plain" /\ prog.code[k].to = <<>>
    BY <2>1, Kinds DEF GInv, Straight
  <2> QED BY <2>2, Members DEF Successors, FallsThrough
<1> QED BY <1>3, <1>4

\* The blocks are closed under control, and so are the components that were
\* searched under what they refer to.
LEMMA FinishedCovers ==
  ASSUME GInv
  PROVE  Covers
<1> DEFINE All == UNION {Extent(s) : s \in DOMAIN block}
           Code == UNION {Body(prog, f) : f \in Live(prog) \cap Function}
<1>1. SUFFICES ASSUME Built PROVE All = Code
  BY DEF Covers
<1>2. /\ starts = DOMAIN block /\ found = <<>> /\ cworklist = <<>> /\ prog \in Programs
      /\ \A s \in DOMAIN block :
           s \in Nat /\ s \in Ix /\ block[s].end \in Nat /\ block[s].end \in Ix /\ s <= block[s].end
      /\ \A s \in DOMAIN block : block[s].func \in Function
  BY <1>1, Members, Bounds DEF GInv, LinkedAtEnd, Partition
<1>3. All \subseteq Code
  BY <1>2 DEF GInv, Owned, BlocksBelong, ComponentsRight
<1>4. Live(prog) \subseteq components
  BY <1>2, LiveFacts, Members DEF GInv, ComponentsRight, IInv, TypeOK
<1>5. All \in SUBSET Ix
  <2>1. \A s \in DOMAIN block : Extent(s) \subseteq Ix
    BY <1>2, SizeAssumption DEF Extent, Ix
  <2> QED BY <2>1
<1>6. ASSUME NEW k \in All
      PROVE  Successors(prog.code, k) \subseteq All
  <2>1. PICK s \in DOMAIN block : k \in Extent(s)
    OBVIOUS
  <2>2. \A t \in DOMAIN block : t \in Extent(t)
    BY <1>2 DEF Extent
  <2>3. CASE k = block[s].end
    BY <1>2, <2>2, <2>3 DEF GInv, SuccessorsPlanned
  <2>4. CASE k # block[s].end
    <3>1. k \in s .. block[s].end - 1 /\ k + 1 \in Extent(s)
      BY <1>2, <2>1, <2>4 DEF Extent
    <3>2. Successors(prog.code, k) = {k + 1}
      BY <1>1, <3>1, FinishedLinks DEF LinksRight
    <3> QED BY <3>1, <3>2
  <2> QED BY <2>3, <2>4
<1>7. ASSUME NEW f \in Live(prog) \cap Function
      PROVE  Body(prog, f) \subseteq All
  <2>1. prog.entry[f] \in DOMAIN block
    BY <1>2, <1>4 DEF GInv, ComponentsRight
  <2>2. prog.entry[f] \in All
    BY <1>2, <2>1 DEF Extent
  <2> HIDE DEF All
  <2> QED BY <1>2, <1>5, <1>6, <2>2, BodyFacts
<1> QED BY <1>3, <1>7

\* No instruction is in two blocks, at any time while the graph is built, of any
\* program in which control stays within functions and errors are handled by code
\* that comes after (cfgraph_build).
THEOREM BlocksApart == Spec => []Disjoint
<1>1. GInv => Disjoint
  BY DEF GInv
<1> QED BY <1>1, GraphInvariant, PTL

\* Every block is code of the function it is noted with.
THEOREM BlocksInFunctions == Spec => []BlocksBelong
<1>1. GInv => BlocksBelong
  BY DEF GInv, Owned
<1> QED BY <1>1, GraphInvariant, PTL

\* Blocks are linked as control goes, and control runs through each from its start
\* to its end.
THEOREM BlocksLinked == Spec => []LinksRight
BY FinishedLinks, GraphInvariant, PTL

\* The blocks are the code that can be reached in functions that can be reached: no
\* more, and no less.
THEOREM BlocksCover == Spec => []Covers
BY FinishedCovers, GraphInvariant, PTL

-----------------------------------------------------------------------------
(***************************************************************************)
(* Pruning.                                                                *)
(***************************************************************************)
\* From graph g the edges to x are cut, some or all, and with them perhaps the root
\* x, which leaves e. Pruning e at x changes nothing of what is still live, and
\* leaves no edge of what was reached before and is not any more.
LEMMA Pruned ==
  ASSUME NEW V, IsFiniteSet(V), NEW g \in Graph(V), NEW e \in Graph(V), NEW x \in V,
         NEW old \in SUBSET V, NEW roots \in SUBSET V,
         roots \subseteq old, old \subseteq roots \cup {x},
         \A y \in V : e[y] \subseteq g[y] /\ g[y] \subseteq e[y] \cup {x},
         NEW live, live = ReachedFrom(roots, e)
  PROVE  /\ live \subseteq ReachedFrom(old, g)
         /\ Prune(e, x, live) \in Graph(V)
         /\ \A y \in live : Prune(e, x, live)[y] = e[y]
         /\ \A y \in V : Prune(e, x, live)[y] \subseteq g[y]
         /\ \A y \in ReachedFrom(old, g) \ live : Prune(e, x, live)[y] = {}
         /\ ReachedFrom(roots, Prune(e, x, live)) = live
<1> DEFINE cut == [s \in V |-> e[s] \ live]
           dead == ReachedFrom({x} \ live, cut)
           before == ReachedFrom(old, g)
           p == Prune(e, x, live)
<1>1. DOMAIN e = V /\ \A y \in V : e[y] \subseteq V /\ g[y] \subseteq V
  BY DEF Graph
<1>2. /\ live \in SUBSET V /\ roots \subseteq live /\ \A y \in live : e[y] \subseteq live
      /\ \A C \in SUBSET V : roots \subseteq C /\ Closed(C, e) => live \subseteq C
  BY ReachedFacts DEF Closed
<1>3. /\ before \in SUBSET V /\ old \subseteq before /\ \A y \in before : g[y] \subseteq before
      /\ \A C \in SUBSET V : old \subseteq C /\ Closed(C, g) => before \subseteq C
  BY ReachedFacts DEF Closed
<1>4. /\ dead \in SUBSET V /\ {x} \ live \subseteq dead /\ \A y \in dead : e[y] \ live \subseteq dead
      /\ dead \subseteq V \ live
  <2>1. cut \in Graph(V) /\ \A y \in V : cut[y] = e[y] \ live
    BY <1>1 DEF Graph
  <2>2. {x} \ live \in SUBSET V
    OBVIOUS
  <2> HIDE DEF cut
  <2>3. /\ dead \in SUBSET V /\ {x} \ live \subseteq dead /\ Closed(dead, cut)
        /\ \A C \in SUBSET V : {x} \ live \subseteq C /\ Closed(C, cut) => dead \subseteq C
    BY <2>1, <2>2, ReachedFacts
  <2>4. Closed(V \ live, cut)
    BY <1>1, <2>1 DEF Closed
  <2> HIDE DEF dead
  <2> QED BY <2>1, <2>3, <2>4 DEF Closed
<1>5. p = [s \in V |-> IF s \in dead THEN {} ELSE e[s]]
  BY <1>1 DEF Prune
<1> HIDE DEF dead, before, p
<1>6. p \in Graph(V)
  BY <1>1, <1>5 DEF Graph
<1>7. \A y \in live : p[y] = e[y]
  BY <1>2, <1>4, <1>5
<1>8. \A y \in V : p[y] \subseteq g[y]
  BY <1>5
<1>9. live \subseteq before
  BY <1>2, <1>3 DEF Closed
<1>10. before \subseteq live \cup dead
  <2>1. old \subseteq live \cup dead /\ live \cup dead \in SUBSET V
    BY <1>2, <1>4
  <2>2. Closed(live \cup dead, g)
    BY <1>2, <1>4 DEF Closed
  <2> QED BY <1>3, <2>1, <2>2
<1>11. \A y \in before \ live : p[y] = {}
  BY <1>3, <1>5, <1>10
<1>12. ReachedFrom(roots, p) = live
  <2> DEFINE after == ReachedFrom(roots, p)
  <2>1. /\ after \in SUBSET V /\ roots \subseteq after /\ Closed(after, p)
        /\ \A C \in SUBSET V : roots \subseteq C /\ Closed(C, p) => after \subseteq C
    BY <1>6, ReachedFacts
  <2> HIDE DEF after
  <2>2. after \subseteq live
    BY <1>2, <1>7, <2>1 DEF Closed
  <2>3. Closed(after, e)
    BY <1>7, <2>1, <2>2 DEF Closed
  <2> QED BY <1>2, <2>1, <2>2, <2>3 DEF after
<1> QED BY <1>6, <1>7, <1>8, <1>9, <1>11, <1>12 DEF before, p

-----------------------------------------------------------------------------
(***************************************************************************)
(* The inductive invariant: nothing is rewritten before the graph is       *)
(* finished, each instruction is as the program had it, deleted, or a      *)
(* conditional branch that is always taken, and the three properties,      *)
(* which need each other.                                                  *)
(***************************************************************************)
Rewritten(k) ==
  \/ code[k] = prog.code[k]
  \/ code[k] = Nop
  \/ prog.code[k].op = "bif" /\ code[k] = B(Head(prog.code[k].to))

EntryBlocks == {s \in DOMAIN block : s = prog.entry[block[s].func]}

RInv ==
  /\ GInv
  /\ ~Rewriting => code = prog.code /\ entries = {} /\ reachable = {}
  /\ Rewriting => Built /\ edges \in Graph(DOMAIN block) /\ entries \subseteq EntryBlocks
  /\ Rewriting => \A s \in DOMAIN block : edges[s] \subseteq dest[s]
  /\ DOMAIN code = Ix /\ \A k \in Ix : Rewritten(k)
  /\ EdgesFollowCode /\ CacheRight /\ DeadCutOff

-----------------------------------------------------------------------------
(***************************************************************************)
(* Starting.                                                               *)
(***************************************************************************)
\* A finished graph: its blocks, and that there is one, of the global function.
LEMMA Finished ==
  ASSUME GInv, Built
  PROVE  /\ starts = DOMAIN block /\ dest \in Graph(DOMAIN block) /\ DOMAIN block # {}
         /\ LinksRight /\ IsFiniteSet(DOMAIN block) /\ prog \in Programs
         /\ \A f \in components \cap Function : prog.entry[f] \in EntryBlocks
         /\ \A s \in DOMAIN block :
              /\ s \in Ix /\ s \in Nat /\ block[s].end \in Ix /\ block[s].end \in Nat
              /\ s <= block[s].end /\ s \in Extent(s) /\ block[s].end \in Extent(s)
              /\ Extent(s) \subseteq Body(prog, block[s].func)
              /\ block[s].func \in components \cap Function
<1>1. /\ starts = DOMAIN block /\ cworklist = <<>> /\ DOMAIN block \subseteq Ix
      /\ dest = [s \in DOMAIN block |-> Destinations(prog, block[s].end, DOMAIN block)]
      /\ prog \in Programs
  BY Members, Bounds DEF GInv, LinkedAtEnd, Partition
<1>2. ASSUME NEW s \in DOMAIN block
      PROVE  /\ s \in Ix /\ s \in Nat /\ block[s].end \in Ix /\ block[s].end \in Nat
             /\ s <= block[s].end /\ s \in Extent(s) /\ block[s].end \in Extent(s)
             /\ Extent(s) \subseteq Body(prog, block[s].func)
             /\ block[s].func \in components \cap Function
  <2>1. /\ s \in Ix /\ s \in Nat /\ block[s].end \in Ix /\ block[s].end \in Nat
        /\ s <= block[s].end /\ block[s].func \in Function
    BY Bounds DEF GInv
  <2> QED BY <2>1 DEF Extent, GInv, Owned, BlocksBelong
<1>3. dest \in Graph(DOMAIN block)
  BY <1>1 DEF Destinations, Graph
<1>4. ASSUME NEW f \in components \cap Function
      PROVE  prog.entry[f] \in EntryBlocks
  <2> DEFINE s == prog.entry[f]
  <2>1. s \in DOMAIN block
    BY <1>1 DEF GInv, ComponentsRight
  <2>2. s \in Body(prog, f) /\ s \in Body(prog, block[s].func) /\ block[s].func \in Function
    BY <1>1, <1>2, <2>1, BodyFacts
  <2>3. block[s].func = f
    BY <1>1, <2>2, ProgramAssumption
  <2> QED BY <2>1, <2>3 DEF EntryBlocks
<1>5. DOMAIN block # {}
  BY <1>1, <1>4, SizeAssumption, Members DEF GInv, ComponentsRight, EntryBlocks
<1>6. IsFiniteSet(DOMAIN block)
  <2>1. IsFiniteSet(Ix)
    BY SizeAssumption, FS_Interval DEF Ix
  <2> QED BY <1>1, <2>1, FS_Subset
<1> QED BY <1>1, <1>2, <1>3, <1>4, <1>5, <1>6, FinishedLinks

\* Every block of a finished graph can be reached from the entry of its function.
LEMMA AllReached ==
  ASSUME GInv, Built
  PROVE  ReachedFrom(EntryBlocks, dest) = DOMAIN block
<1> DEFINE R == ReachedFrom(EntryBlocks, dest)
           All == UNION {Extent(s) : s \in R}
<1>1. /\ R \in SUBSET DOMAIN block /\ EntryBlocks \subseteq R
      /\ \A s \in R : dest[s] \subseteq R
  <2>1. EntryBlocks \in SUBSET DOMAIN block
    BY DEF EntryBlocks
  <2> QED BY <2>1, Finished, ReachedFacts DEF Closed
<1> HIDE DEF R
<1>2. All \in SUBSET Ix
  <2>1. \A s \in DOMAIN block : Extent(s) \subseteq Ix
    BY Finished, BodyFacts
  <2> QED BY <1>1, <2>1
<1>3. ASSUME NEW k \in All
      PROVE  Successors(prog.code, k) \subseteq All
  <2>1. PICK s \in R : k \in Extent(s)
    OBVIOUS
  <2>2. \A t \in R : t \in Extent(t)
    BY <1>1, Finished
  <2>3. s \in DOMAIN block /\ s \in Nat /\ block[s].end \in Nat
    BY <1>1, Finished
  <2>4. CASE k = block[s].end
    <3>1. Successors(prog.code, k) \subseteq R
      BY <1>1, <2>3, <2>4, Finished DEF LinksRight
    <3> QED BY <2>2, <3>1
  <2>5. CASE k # block[s].end
    <3>1. k \in s .. block[s].end - 1 /\ k + 1 \in Extent(s)
      BY <2>1, <2>3, <2>5 DEF Extent
    <3>2. Successors(prog.code, k) = {k + 1}
      BY <2>3, <3>1, Finished DEF LinksRight
    <3> QED BY <3>1, <3>2
  <2> QED BY <2>4, <2>5
<1>4. ASSUME NEW s \in DOMAIN block
      PROVE  s \in R
  <2> DEFINE f == block[s].func
  <2>1. f \in components \cap Function /\ prog.entry[f] \in R /\ prog \in Programs
    BY <1>1, Finished
  <2>2. prog.entry[f] \in All
    BY <1>1, <2>1, Finished
  <2>3. Body(prog, f) \subseteq All
    <3> HIDE DEF All, f
    <3> QED BY <1>2, <1>3, <2>1, <2>2, BodyFacts
  <2>4. s \in All /\ s \in Extent(s)
    BY <2>3, Finished
  <2>5. PICK r \in R : s \in Extent(r)
    BY <2>4
  <2>6. r = s
    BY <1>1, <2>4, <2>5 DEF GInv, Disjoint
  <2> QED BY <2>6
<1> QED BY <1>1, <1>4 DEF R

\* A function on a set that is not empty is not the empty one.
LEMMA NotEmpty ==
  ASSUME NEW V, V # {}, NEW e \in Graph(V)
  PROVE  e # <<>>
BY DEF Graph

\* The graph stays as it is while code is rewritten.
LEMMA SameGraph ==
  ASSUME GInv, UNCHANGED vars
  PROVE  GInv'
BY NextStep

\* What follows an instruction of the program as it was built.
LEMMA Unrewritten ==
  ASSUME GInv, NEW k \in Ix
  PROVE  prog.code[k].op # "nop" /\ prog.code[k] # Nop
<1>1. prog.code[k].op # "nop"
  BY Kinds DEF GInv
<1> QED BY <1>1 DEF Nop

\* The rewriting starts from the links and entries of the finished graph.
LEMMA StartStep ==
  ASSUME RInv, StartRewriting
  PROVE  RInv'
<1>1. /\ Built /\ ~Rewriting /\ edges' = dest /\ entries' = EntryBlocks
      /\ reachable' = ReachedFrom(entries', edges') /\ code' = code /\ code = prog.code
      /\ UNCHANGED <<prog, block, dest>>
  <2>1. DOMAIN dest = DOMAIN block
    BY Finished DEF RInv, Graph, StartRewriting
  <2> QED BY <2>1 DEF StartRewriting, RInv, Reachable, vars, EntryBlocks
<1>2. GInv'
  BY SameGraph DEF RInv, StartRewriting
<1>3. reachable' = DOMAIN block
  BY <1>1, AllReached DEF RInv
<1>4. Rewriting' /\ Built' /\ edges' \in Graph(DOMAIN block') /\ entries' \subseteq EntryBlocks'
  BY <1>1, Finished, NotEmpty DEF RInv, Rewriting, Built, EntryBlocks
<1>5. DOMAIN code' = Ix /\ \A k \in Ix : Rewritten(k)'
  BY <1>1 DEF RInv, Rewritten
<1>6. EdgesFollowCode'
  <2>1. ASSUME NEW s \in DOMAIN block
        PROVE  dest[s] = Follows(code, block[s].end)
    <3>1. dest[s] = Successors(prog.code, block[s].end) /\ block[s].end \in Ix
      BY <1>1, Finished DEF RInv, LinksRight
    <3> QED BY <1>1, <3>1, Unrewritten DEF RInv, Follows
  <2> QED BY <1>1, <1>3, <2>1 DEF EdgesFollowCode, Follows, Successors
<1>7. CacheRight' /\ DeadCutOff'
  BY <1>1, <1>3, Finished DEF RInv, CacheRight, DeadCutOff, Graph
<1>8. \A s \in DOMAIN block' : edges'[s] \subseteq dest'[s]
  BY <1>1
<1> QED BY <1>2, <1>4, <1>5, <1>6, <1>7, <1>8 DEF RInv

-----------------------------------------------------------------------------
(***************************************************************************)
(* Rewriting.                                                              *)
(***************************************************************************)
\* What holds while code is rewritten.
LEMMA While ==
  ASSUME RInv, Rewriting
  PROVE  /\ GInv /\ Built /\ edges \in Graph(DOMAIN block) /\ DOMAIN edges = DOMAIN block
         /\ IsFiniteSet(DOMAIN block) /\ entries \in SUBSET DOMAIN block
         /\ reachable = ReachedFrom(entries, edges) /\ reachable \in SUBSET DOMAIN block
         /\ entries \subseteq reachable /\ \A s \in reachable : edges[s] \subseteq reachable
         /\ \A s \in DOMAIN block : block[s].end \in Ix /\ block[s].end \in Nat
         /\ \A r, s \in DOMAIN block : block[r].end = block[s].end => r = s
<1>1. /\ GInv /\ Built /\ edges \in Graph(DOMAIN block) /\ DOMAIN edges = DOMAIN block
      /\ IsFiniteSet(DOMAIN block) /\ entries \in SUBSET DOMAIN block
      /\ reachable = ReachedFrom(entries, edges)
  BY Finished DEF RInv, Rewriting, CacheRight, Graph, EntryBlocks
<1>2. /\ reachable \in SUBSET DOMAIN block
      /\ entries \subseteq reachable /\ \A s \in reachable : edges[s] \subseteq reachable
  BY <1>1, ReachedFacts DEF Closed
<1>3. \A s \in DOMAIN block : /\ block[s].end \in Ix /\ block[s].end \in Nat
                              /\ block[s].end \in Extent(s)
  BY <1>1, Finished
<1>4. ASSUME NEW r \in DOMAIN block, NEW s \in DOMAIN block, block[r].end = block[s].end
      PROVE  r = s
  BY <1>1, <1>3, <1>4 DEF GInv, Disjoint
<1> QED BY <1>1, <1>2, <1>3, <1>4

\* An instruction is replaced by another that control leaves the same way.
LEMMA SameFollows ==
  ASSUME RInv, Rewriting, UNCHANGED <<vars, edges, entries, reachable>>,
         NEW k \in Ix, NEW i, code' = [code EXCEPT ![k] = i], Rewritten(k)',
         Follows(code, k) = Follows(code', k)
  PROVE  RInv'
<1>1. /\ UNCHANGED <<prog, block, dest>> /\ DOMAIN code = Ix
      /\ \A j \in Ix : j # k => code'[j] = code[j]
  BY DEF vars, RInv
<1>2. \A j \in Ix : Follows(code', j) = Follows(code, j)
  BY <1>1 DEF Follows, Successors
<1>3. GInv'
  BY SameGraph DEF RInv
<1>4. DOMAIN code' = Ix /\ \A j \in Ix : Rewritten(j)'
  BY <1>1 DEF RInv, Rewritten
<1>5. EdgesFollowCode'
  BY <1>1, <1>2, While DEF RInv, EdgesFollowCode
<1>6. /\ CacheRight' /\ DeadCutOff' /\ Built' /\ Rewriting' /\ EntryBlocks' = EntryBlocks
      /\ \A s \in DOMAIN block' : edges'[s] \subseteq dest'[s]
  BY <1>1, While DEF RInv, CacheRight, DeadCutOff, Built, Rewriting, EntryBlocks
<1> QED BY <1>1, <1>3, <1>4, <1>5, <1>6 DEF RInv

\* What is deleted, control runs through.
LEMMA NopFollows ==
  ASSUME NEW k \in Ix, NEW c, c[k] = Nop
  PROVE  Follows(c, k) = {k + 1}
BY DEF Follows, Nop

\* An unconditional branch goes one way.
LEMMA BranchFollows ==
  ASSUME NEW k \in Ix, NEW c, NEW t, c[k] = B(t)
  PROVE  Follows(c, k) = {t}
BY Members DEF Follows, B, Successors, FallsThrough

\* What deletes an instruction that does not branch changes no way of the code.
LEMMA DeleteStep ==
  ASSUME RInv, DeleteInstruction
  PROVE  RInv'
<1>1. PICK s \in reachable, k \in Ix : code[k].op = "plain" /\ code' = [code EXCEPT ![k] = Nop]
  BY DEF DeleteInstruction
<1>2. Rewriting /\ UNCHANGED <<vars, edges, entries, reachable>>
  BY DEF DeleteInstruction
<1>3. code[k] = prog.code[k] /\ GInv
  BY <1>1 DEF RInv, Rewritten, Nop, B
<1>4. code[k].to = <<>>
  BY <1>1, <1>3, Kinds DEF GInv
<1>5. Follows(code, k) = {k + 1}
  BY <1>1, <1>4, Members DEF Follows, Successors, FallsThrough
<1>6. code'[k] = Nop
  BY <1>1 DEF RInv
<1>7. Rewritten(k)'
  BY <1>6 DEF Rewritten
<1>8. Follows(code', k) = {k + 1}
  BY <1>6, NopFollows
<1> QED BY <1>1, <1>2, <1>5, <1>7, <1>8, SameFollows

\* A branch to the next instruction goes where falling through does.
LEMMA RedundantStep ==
  ASSUME RInv, EraseRedundantBranch
  PROVE  RInv'
<1>1. Rewriting /\ UNCHANGED <<vars, edges, entries, reachable>>
  BY DEF EraseRedundantBranch
<1>2. PICK s \in reachable : /\ code[block[s].end] = B(block[s].end + 1)
                             /\ code' = [code EXCEPT ![block[s].end] = Nop]
  BY DEF EraseRedundantBranch
<1>3. PICK k \in Ix : k = block[s].end
  BY <1>1, While
<1>4. code[k] = B(k + 1) /\ code' = [code EXCEPT ![k] = Nop]
  BY <1>2, <1>3
<1>5. code'[k] = Nop
  BY <1>4 DEF RInv
<1>6. Rewritten(k)'
  BY <1>5 DEF Rewritten
<1>7. Follows(code, k) = {k + 1} /\ Follows(code', k) = {k + 1}
  BY <1>4, <1>5, NopFollows, BranchFollows
<1> QED BY <1>1, <1>4, <1>6, <1>7, SameFollows

\* Edges to block x are cut, or the root x, and the graph is pruned from x on, while
\* the code changes with it.
LEMMA CutStep ==
  ASSUME RInv, Rewriting, UNCHANGED vars,
         NEW x \in DOMAIN block, NEW e \in Graph(DOMAIN block),
         entries' \subseteq entries, entries \subseteq entries' \cup {x},
         \A y \in DOMAIN block : e[y] \subseteq edges[y] /\ edges[y] \subseteq e[y] \cup {x},
         reachable' = Reachable(e, entries'), edges' = Prune(e, x, reachable'),
         DOMAIN code' = Ix, \A k \in Ix : Rewritten(k)',
         \A s \in reachable : e[s] = Follows(code', block[s].end)
  PROVE  RInv'
<1>1. /\ UNCHANGED <<prog, block, dest>> /\ GInv' /\ Built' /\ EntryBlocks' = EntryBlocks
      /\ entries' \in SUBSET DOMAIN block /\ DOMAIN block # {}
  BY SameGraph, While, Finished DEF RInv, vars, Built, EntryBlocks
<1>2. /\ GInv /\ edges \in Graph(DOMAIN block) /\ IsFiniteSet(DOMAIN block)
      /\ entries \in SUBSET DOMAIN block /\ reachable = ReachedFrom(entries, edges)
      /\ reachable \in SUBSET DOMAIN block /\ DOMAIN edges = DOMAIN block
  BY While
<1>3. reachable' = ReachedFrom(entries', e)
  BY DEF Reachable
<1>4. /\ reachable' \subseteq reachable /\ edges' \in Graph(DOMAIN block)
      /\ \A y \in reachable' : edges'[y] = e[y]
      /\ \A y \in DOMAIN block : edges'[y] \subseteq edges[y]
      /\ \A y \in reachable \ reachable' : edges'[y] = {}
      /\ ReachedFrom(entries', edges') = reachable'
  BY <1>1, <1>2, <1>3, Pruned
<1>5. Rewriting' /\ DOMAIN edges' = DOMAIN block
  BY <1>1, <1>4, NotEmpty DEF Rewriting, Graph
<1>6. EdgesFollowCode'
  BY <1>1, <1>4 DEF EdgesFollowCode
<1>7. DeadCutOff'
  <2>1. SUFFICES ASSUME NEW y \in DOMAIN block, y \notin reachable'
        PROVE  edges'[y] \cap reachable' = {}
    BY <1>5 DEF DeadCutOff
  <2>2. CASE y \in reachable
    BY <1>4, <2>1, <2>2
  <2>3. CASE y \notin reachable
    BY <1>2, <1>4, <2>3 DEF RInv, DeadCutOff
  <2> QED BY <2>2, <2>3
<1>8. CacheRight'
  BY <1>4 DEF CacheRight
<1>9. \A y \in DOMAIN block' : edges'[y] \subseteq dest'[y]
  BY <1>1, <1>4 DEF RInv
<1> QED BY <1>1, <1>4, <1>5, <1>6, <1>7, <1>8, <1>9 DEF RInv

\* A pair has one element or two.
LEMMA PairSize ==
  ASSUME NEW x, NEW y
  PROVE  /\ IsFiniteSet({x, y})
         /\ Cardinality({x, y}) = 1 <=> x = y
         /\ x = y => Cardinality({x, y}) = 1
         /\ x # y => Cardinality({x, y}) = 2
<1>1. IsFiniteSet({x}) /\ Cardinality({x}) = 1
  BY FS_Singleton
<1>2. {x, y} = {x} \cup {y}
  OBVIOUS
<1>3. IsFiniteSet({x, y}) /\ Cardinality({x, y}) = IF y \in {x} THEN 1 ELSE 1 + 1
  BY <1>1, <1>2, FS_AddElement
<1>4. 1 + 1 = 2
  OBVIOUS
<1> QED BY <1>3, <1>4

\* A conditional branch goes on or to its target, and its block has both edges.
LEMMA ConditionalEnd ==
  ASSUME RInv, Rewriting, NEW s \in reachable, code[block[s].end].op = "bif"
  PROVE  LET k == block[s].end
             t == Head(code[k].to)
         IN  /\ k \in Ix /\ t \in Ix /\ code[k] = prog.code[k] /\ code[k].to = <<t>>
             /\ edges[s] = {t, k + 1} /\ t \in DOMAIN block /\ k + 1 \in DOMAIN block
<1> DEFINE k == block[s].end
           t == Head(code[k].to)
<1>1. k \in Ix /\ GInv /\ s \in DOMAIN block /\ edges[s] \subseteq DOMAIN block
  BY While DEF Graph
<1>2. code[k] = prog.code[k]
  BY <1>1 DEF RInv, Rewritten, Nop, B
<1>3. t \in Ix /\ code[k].to = <<t>>
  <2>1. PICK y \in Ix : code[k].to = <<y>>
    BY <1>1, <1>2, Kinds DEF GInv
  <2> QED BY <2>1
<1> HIDE DEF t
<1>4. edges[s] = {t, k + 1}
  <2>1. edges[s] = Follows(code, k)
    BY DEF RInv, EdgesFollowCode
  <2>2. Follows(code, k) = ToSet(code[k].to) \cup {k + 1}
    BY DEF Follows, Successors, FallsThrough
  <2>3. ToSet(code[k].to) = {t}
    BY <1>3, Members
  <2> QED BY <2>1, <2>2, <2>3
<1> QED BY <1>1, <1>2, <1>3, <1>4 DEF t

\* Block s loses the edge to t and keeps the other one, and its branch is rewritten
\* to go that way only.
LEMMA CutEdgeStep ==
  ASSUME RInv, Rewriting, UNCHANGED <<vars, entries>>,
         NEW s \in reachable, NEW k, k = block[s].end, NEW t, NEW u,
         edges[s] = {t, u}, t \in DOMAIN block, CutEdge(s, t),
         NEW i, code' = [code EXCEPT ![k] = i], Rewritten(k)', Follows(code', k) = {u}
  PROVE  RInv'
<1>1. /\ k \in Ix /\ s \in DOMAIN block /\ edges \in Graph(DOMAIN block)
      /\ DOMAIN edges = DOMAIN block /\ edges[s] = Follows(code, k)
      /\ reachable \in SUBSET DOMAIN block
      /\ \A r \in DOMAIN block : block[r].end \in Ix /\ (block[r].end = k => r = s)
  BY While DEF RInv, EdgesFollowCode
<1>2. /\ UNCHANGED <<prog, block, dest>> /\ DOMAIN code = Ix /\ DOMAIN code' = Ix
      /\ \A j \in Ix : j # k => code'[j] = code[j]
      /\ entries' = entries
  BY DEF vars, RInv
<1>3. \A j \in Ix : j # k => Follows(code', j) = Follows(code, j)
  BY <1>2 DEF Follows, Successors
<1>4. \A j \in Ix : Rewritten(j)'
  BY <1>2 DEF RInv, Rewritten
<1>5. CASE t = u
  <2>1. UNCHANGED <<edges, reachable>>
    BY <1>5, PairSize DEF CutEdge
  <2>2. Follows(code', k) = Follows(code, k)
    BY <1>1, <1>5
  <2> QED BY <1>1, <2>1, <2>2, SameFollows
<1>6. CASE t # u
  <2>1. PICK e : e = Disconnect(edges, s, t)
    OBVIOUS
  <2>2. reachable' = Reachable(e, entries') /\ edges' = Prune(e, t, reachable')
    <3>1. Cardinality({t, u}) # 1
      BY <1>6, PairSize
    <3>2. Cardinality(edges[s]) # 1
      BY <3>1
    <3>3. /\ reachable' = Reachable(Disconnect(edges, s, t), entries)
          /\ edges' = Prune(Disconnect(edges, s, t), t, reachable')
      BY <3>2 DEF CutEdge
    <3> QED BY <1>2, <2>1, <3>3
  <2>3. e = [edges EXCEPT ![s] = edges[s] \ {t}]
    BY <2>1 DEF Disconnect
  <2>4. /\ DOMAIN e = DOMAIN block /\ e[s] = edges[s] \ {t}
        /\ \A y \in DOMAIN block : y # s => e[y] = edges[y]
    BY <1>1, <2>3
  <2>5. e \in Graph(DOMAIN block)
    BY <1>1, <2>3 DEF Graph
  <2>6. e[s] = {u}
    BY <1>6, <2>4
  <2>7. \A r \in reachable : e[r] = Follows(code', block[r].end)
    <3>1. ASSUME NEW r \in reachable, r # s
          PROVE  e[r] = Follows(code', block[r].end)
      BY <1>1, <1>3, <2>4, <3>1 DEF RInv, EdgesFollowCode
    <3> QED BY <2>6, <3>1
  <2>8. \A y \in DOMAIN block : e[y] \subseteq edges[y] /\ edges[y] \subseteq e[y] \cup {t}
    BY <2>4
  <2> QED BY <1>2, <1>4, <2>2, <2>5, <2>7, <2>8, CutStep
<1> QED BY <1>5, <1>6

\* When a conditional branch is decided, the link cut is the way not taken.
LEMMA EraseStep ==
  ASSUME RInv, EraseBranch
  PROVE  RInv'
<1>1. Rewriting /\ UNCHANGED <<vars, entries>>
  BY DEF EraseBranch
<1>2. PICK s \in reachable :
        LET k == block[s].end
        IN  /\ code[k].op = "bif"
            /\ \/ CutUntaken(s, Head(code[k].to)) /\ code' = [code EXCEPT ![k] = Nop]
               \/ CutFallthrough(s) /\ code' = [code EXCEPT ![k] = B(Head(code[k].to))]
  BY DEF EraseBranch
<1>3. PICK k, t : k = block[s].end /\ t = Head(code[k].to)
  OBVIOUS
<1>4. /\ k \in Ix /\ t \in Ix /\ code[k] = prog.code[k] /\ edges[s] = {t, k + 1}
      /\ t \in DOMAIN block /\ k + 1 \in DOMAIN block /\ DOMAIN code = Ix
      /\ prog.code[k].op = "bif" /\ t = Head(prog.code[k].to) /\ prog' = prog
  BY <1>1, <1>2, <1>3, ConditionalEnd DEF RInv, vars
<1>5. CASE CutEdge(s, t) /\ code' = [code EXCEPT ![k] = Nop]
  <2>1. code'[k] = Nop
    BY <1>4, <1>5
  <2>2. Rewritten(k)' /\ Follows(code', k) = {k + 1}
    BY <1>4, <2>1, NopFollows DEF Rewritten
  <2> QED BY <1>1, <1>3, <1>4, <1>5, <2>2, CutEdgeStep
<1>6. CASE CutEdge(s, k + 1) /\ code' = [code EXCEPT ![k] = B(t)]
  <2>1. code'[k] = B(t)
    BY <1>4, <1>6
  <2>2. Rewritten(k)' /\ Follows(code', k) = {t}
    BY <1>4, <2>1, BranchFollows DEF Rewritten
  <2>3. edges[s] = {k + 1, t}
    BY <1>4
  <2> QED BY <1>1, <1>3, <1>4, <1>6, <2>2, <2>3, CutEdgeStep
<1> QED BY <1>2, <1>3, <1>5, <1>6 DEF CutUntaken, CutFallthrough

\* A pruned function loses its entry, and what only it led to.
LEMMA PruneStep ==
  ASSUME RInv, PruneFunction
  PROVE  RInv'
<1>1. Rewriting /\ UNCHANGED <<vars, code>>
  BY DEF PruneFunction
<1>2. PICK s \in entries : /\ entries' = entries \ {s}
                           /\ reachable' = Reachable(edges, entries')
                           /\ edges' = Prune(edges, s, reachable')
  BY DEF PruneFunction
<1>3. PICK e : e = edges
  OBVIOUS
<1>4. s \in DOMAIN block /\ e \in Graph(DOMAIN block)
  BY <1>1, <1>3, While
<1>5. DOMAIN code' = Ix /\ \A k \in Ix : Rewritten(k)'
  BY <1>1 DEF RInv, Rewritten, vars
<1>6. \A r \in reachable : e[r] = Follows(code', block[r].end)
  BY <1>1, <1>3 DEF RInv, EdgesFollowCode
<1> QED BY <1>1, <1>2, <1>3, <1>4, <1>5, <1>6, CutStep

-----------------------------------------------------------------------------
(***************************************************************************)
(* The whole: the graph is built, then rewritten, then laid out.           *)
(***************************************************************************)
\* Nothing has been rewritten at first.
LEMMA RepairInit ==
  ASSUME LInit
  PROVE  RInv
<1>1. GInv /\ code = prog.code /\ edges = <<>> /\ entries = {} /\ reachable = {}
  BY InitStep DEF LInit, RInit
<1>2. DOMAIN code = Ix /\ \A k \in Ix : Rewritten(k)
  BY <1>1 DEF GInv, IInv, TypeOK, Rewritten
<1>3. DOMAIN edges = {} /\ ~Rewriting
  BY <1>1 DEF Rewriting
<1> QED BY <1>1, <1>2, <1>3 DEF RInv, EdgesFollowCode, CacheRight, DeadCutOff

\* The graph is built before anything is rewritten.
LEMMA BuildStep ==
  ASSUME RInv, Build \/ (UNCHANGED <<vars, rvars>>)
  PROVE  RInv'
<1>1. GInv' /\ UNCHANGED rvars
  BY NextStep DEF RInv, Build
<1>2. CASE UNCHANGED vars
  BY <1>1, <1>2 DEF RInv, Rewriting, Built, EntryBlocks, Rewritten, EdgesFollowCode, CacheRight,
                    DeadCutOff, vars, rvars
<1>3. CASE Build
  <2>1. ~Rewriting /\ ~Rewriting' /\ DOMAIN edges' = {}
    BY <1>1, <1>3 DEF Build, Rewriting, rvars
  <2>2. prog' = prog
    BY <1>3 DEF Build, Next, ProcessComponent, PushComponent, BeginBlock, BranchToStart,
                BranchIntoBlock, BranchToNew, NextInstruction, EndBlock, IdentifySources
  <2> QED BY <1>1, <2>1, <2>2 DEF RInv, Rewritten, EdgesFollowCode, CacheRight, DeadCutOff, rvars
<1> QED BY <1>2, <1>3

\* Every step of the builder, of the rewriting and of the layout keeps the invariant.
LEMMA RepairNext ==
  ASSUME RInv, [LNext]_<<vars, rvars, out>>
  PROVE  RInv'
<1>1. CASE Rewrite
  BY <1>1, StartStep, DeleteStep, EraseStep, RedundantStep, PruneStep DEF Rewrite
<1>2. CASE Build \/ UNCHANGED <<vars, rvars>>
  BY <1>2, BuildStep
<1> QED BY <1>1, <1>2 DEF LNext, LayOut

\* The invariant holds at every step.
LEMMA RepairInvariant == LSpec => []RInv
BY RepairInit, RepairNext, PTL DEF LSpec

\* Whatever is decided, deleted and pruned, the links of a block that can be reached
\* are the ways its code goes (strategy.c, optimize_repairerasedconditionalbranch
\* and optimize_repairtakenconditionalbranch).
THEOREM EdgesRight == LSpec => []EdgesFollowCode
<1>1. RInv => EdgesFollowCode
  BY DEF RInv
<1> QED BY <1>1, RepairInvariant, PTL

\* The cache of reachable blocks is right after every repair
\* (_optimize_refreshreachable): pruning, which happens after it is filled, changes
\* nothing of what can be reached.
THEOREM CacheCorrect == LSpec => []CacheRight
<1>1. RInv => CacheRight
  BY DEF RInv
<1> QED BY <1>1, RepairInvariant, PTL

\* No edge leads from what was cut off back to what can be reached
\* (_pruneunreachableblock).
THEOREM CutOffStaysOut == LSpec => []DeadCutOff
<1>1. RInv => DeadCutOff
  BY DEF RInv
<1> QED BY <1>1, RepairInvariant, PTL

\* The graph itself stays what it was when it was finished, also under the whole
\* specification: the four properties of its construction hold throughout.
THEOREM GraphStaysRight == LSpec => [](Disjoint /\ BlocksBelong /\ LinksRight /\ Covers)
<1>1. RInv => Disjoint /\ BlocksBelong /\ LinksRight /\ Covers
  BY FinishedLinks, FinishedCovers DEF RInv, GInv, Owned
<1> QED BY <1>1, RepairInvariant, PTL

-----------------------------------------------------------------------------
(***************************************************************************)
(* What layout has to find.                                                *)
(***************************************************************************)
\* The block that a branch is moved to is the one it goes to in the code.
LEMMA TargetRight ==
  ASSUME RInv, Rewriting, NEW s \in reachable, code[block[s].end].op \in {"b", "bif"}
  PROVE  LET k == block[s].end
             t == Head(code[k].to)
         IN  /\ Target(s) = t /\ t \in edges[s] /\ code[k].to = <<t>> /\ t \in Ix
             /\ code[k].op = "bif" /\ Cardinality(edges[s]) < 2 => t = k + 1
<1> DEFINE k == block[s].end
           t == Head(code[k].to)
<1>1. /\ k \in Ix /\ GInv /\ s \in DOMAIN block /\ edges[s] \subseteq DOMAIN block
      /\ edges[s] = Follows(code, k) /\ DOMAIN block \subseteq Ix
  BY While, Finished DEF Graph, RInv, EdgesFollowCode
<1>2. code[k].to = <<t>>
  <2>1. CASE code[k].op = "bif"
    BY <2>1, ConditionalEnd
  <2>2. CASE code[k].op = "b"
    <3>1. CASE code[k] = prog.code[k]
      <4>1. PICK y \in Ix : code[k].to = <<y>>
        BY <1>1, <2>2, <3>1, Kinds DEF GInv
      <4> QED BY <4>1
    <3>2. CASE code[k] # prog.code[k]
      <4>1. PICK y : code[k] = B(y)
        BY <1>1, <2>2, <3>2 DEF RInv, Rewritten, Nop
      <4> QED BY <4>1 DEF B
    <3> QED BY <3>1, <3>2
  <2> QED BY <2>1, <2>2
<1> HIDE DEF t
<1>3. ToSet(code[k].to) = {t}
  BY <1>2, Members
<1>4. CASE code[k].op = "bif"
  <2>1. edges[s] = {t, k + 1}
    BY <1>1, <1>3, <1>4 DEF Follows, Successors, FallsThrough
  <2>2. Cardinality(edges[s]) = IF t = k + 1 THEN 1 ELSE 2
    <3>1. PICK x, y : x = t /\ y = k + 1
      OBVIOUS
    <3>2. (x = y => Cardinality({x, y}) = 1) /\ (x # y => Cardinality({x, y}) = 2)
      BY PairSize
    <3>3. edges[s] = {x, y}
      BY <2>1, <3>1
    <3> QED BY <3>1, <3>2, <3>3
  <2>3. Target(s) \in edges[s] /\ (Cardinality(edges[s]) > 1 => Target(s) # k + 1)
    BY <2>1, <2>2 DEF Target
  <2>4. Target(s) = t
    BY <2>1, <2>2, <2>3
  <2> QED BY <1>1, <1>2, <2>1, <2>2, <2>4 DEF t
<1>5. CASE code[k].op = "b"
  <2>1. edges[s] = {t}
    BY <1>1, <1>3, <1>5 DEF Follows, Successors, FallsThrough
  <2>2. Cardinality(edges[s]) = 1
    BY <2>1, FS_Singleton
  <2>3. Target(s) \in edges[s]
    BY <2>1, <2>2 DEF Target
  <2> QED BY <1>1, <1>2, <1>5, <2>1, <2>3 DEF t
<1> QED BY <1>4, <1>5

\* What an emitted block needs can be reached.
LEMMA NeededReached ==
  ASSUME RInv, Rewriting, NEW s \in reachable
  PROVE  Needed(s) \subseteq reachable
<1> DEFINE k == block[s].end
<1>1. edges[s] \subseteq reachable
  BY While
<1>2. CASE code[k].op \in {"b", "bif"}
  BY <1>1, <1>2, TargetRight DEF Needed
<1>3. CASE code[k].op = "pusherr"
  BY <1>1, <1>3 DEF Needed, RInv, EdgesFollowCode, Follows, Successors
<1>4. CASE code[k].op \notin {"b", "bif", "pusherr"}
  BY <1>4 DEF Needed
<1> QED BY <1>2, <1>3, <1>4

\* Layout finds every block that a branch or an error table needs, unless it is an
\* entry that became empty, and every conditional branch has the edges it is moved by
\* (layout.c, _mapblockostart and blockcomposer_fixbranch).
THEOREM LayoutFinds == LSpec => []OnlyEntriesMissing
<1>1. RInv => OnlyEntriesMissing
  <2> SUFFICES ASSUME RInv, Rewriting PROVE Missing \subseteq entries /\ ~Incoherent
    BY DEF OnlyEntriesMissing
  <2>1. Missing \subseteq entries
    <3>1. SUFFICES ASSUME NEW s \in Emitted, NEW x \in Needed(s), x \notin Emitted
          PROVE  x \in entries
      BY DEF Missing
    <3>2. x \in reachable
      BY <3>1, NeededReached DEF Emitted
    <3> QED BY <3>1, <3>2 DEF Emitted, Kept
  <2>2. ~Incoherent
    BY TargetRight DEF Incoherent, Emitted
  <2> QED BY <2>1, <2>2
<1> QED BY <1>1, RepairInvariant, PTL

-----------------------------------------------------------------------------
(***************************************************************************)
(* Places.                                                                 *)
(***************************************************************************)
\* The number of elements of S below k.
Below(S, k) == Cardinality({j \in S : j < k})

\* How many members of a set are below a number: what a place in the new code is.
LEMMA BelowFacts ==
  ASSUME NEW S \in SUBSET Nat, IsFiniteSet(S)
  PROVE  /\ \A k \in Nat : Below(S, k) \in Nat /\ Below(S, k) <= Cardinality(S)
         /\ \A k \in Nat : Below(S, k + 1) = IF k \in S THEN Below(S, k) + 1 ELSE Below(S, k)
         /\ \A j, k \in Nat : j <= k => Below(S, j) <= Below(S, k)
         /\ \A j, k \in Nat : j <= k /\ (\A i \in S : ~(j <= i /\ i < k)) => Below(S, j) = Below(S, k)
         /\ \A k \in S : Below(S, k) < Cardinality(S)
         /\ Cardinality(S) \in Nat
<1> DEFINE L(k) == {j \in S : j < k}
<1>0. \A j \in S : j \in Nat
  OBVIOUS
<1>1. ASSUME NEW k \in Nat
      PROVE  /\ IsFiniteSet(L(k)) /\ Cardinality(L(k)) \in Nat
             /\ Cardinality(L(k)) <= Cardinality(S) /\ Cardinality(S) \in Nat
  BY FS_Subset, FS_CardinalityType
<1>2. ASSUME NEW k \in Nat
      PROVE  Cardinality(L(k + 1)) = IF k \in S THEN Cardinality(L(k)) + 1 ELSE Cardinality(L(k))
  <2>0. \A i \in S : i < k + 1 <=> i < k \/ i = k
    BY <1>0
  <2>1. CASE k \in S
    <3>1. L(k + 1) = L(k) \cup {k} /\ k \notin L(k)
      <4>1. ~(k < k)
        OBVIOUS
      <4>2. \A i \in S : i \in L(k + 1) <=> i \in L(k) \/ i = k
        BY <2>0
      <4>3. L(k + 1) \subseteq S /\ L(k) \subseteq S /\ k \notin L(k)
        BY <4>1
      <4> HIDE DEF L
      <4> QED BY <2>1, <4>2, <4>3
    <3> HIDE DEF L
    <3> QED BY <1>1, <2>1, <3>1, FS_AddElement
  <2>2. CASE k \notin S
    <3>1. L(k + 1) = L(k)
      BY <2>0, <2>2
    <3> HIDE DEF L
    <3> QED BY <2>2, <3>1
  <2> QED BY <2>1, <2>2
<1>3. ASSUME NEW j \in Nat, NEW k \in Nat, j <= k
      PROVE  Cardinality(L(j)) <= Cardinality(L(k))
  <2>0. \A i \in S : i < j => i < k
    BY <1>0, <1>3
  <2>1. L(j) \in SUBSET L(k)
    BY <2>0
  <2> HIDE DEF L
  <2> QED BY <1>1, <2>1, FS_Subset
<1>4. ASSUME NEW j \in Nat, NEW k \in Nat, j <= k, \A i \in S : ~(j <= i /\ i < k)
      PROVE  Cardinality(L(j)) = Cardinality(L(k))
  <2>0. \A i \in S : i < j <=> i < k
    BY <1>0, <1>4
  <2>1. L(j) = L(k)
    BY <2>0
  <2> HIDE DEF L
  <2> QED BY <2>1
<1>5. ASSUME NEW k \in S
      PROVE  Cardinality(L(k)) < Cardinality(S)
  <2>1. L(k) \in SUBSET S /\ L(k) # S /\ k \in Nat
    OBVIOUS
  <2>2. Cardinality(L(k)) <= Cardinality(S) /\ Cardinality(L(k)) # Cardinality(S)
    <3> HIDE DEF L
    <3> QED BY <2>1, FS_Subset
  <2>3. Cardinality(L(k)) \in Nat /\ Cardinality(S) \in Nat
    BY <1>1, <2>1
  <2> HIDE DEF L
  <2> QED BY <2>2, <2>3
<1>6. Cardinality(S) \in Nat
  BY FS_CardinalityType
<1> QED BY <1>1, <1>2, <1>3, <1>4, <1>5, <1>6 DEF Below

\* Each number below its size is the place of exactly one element.
LEMMA BelowBijection ==
  ASSUME NEW S \in SUBSET Nat, IsFiniteSet(S)
  PROVE  /\ \A k \in S : Below(S, k) \in 0 .. Cardinality(S) - 1
         /\ \A j, k \in S : Below(S, j) = Below(S, k) => j = k
         /\ \A n \in 0 .. Cardinality(S) - 1 : \E k \in S : Below(S, k) = n
<1> DEFINE N == Cardinality(S)
           f == [k \in S |-> Below(S, k)]
<1>1. N \in Nat /\ \A k \in S : Below(S, k) \in 0 .. N - 1
  BY BelowFacts
<1>2. ASSUME NEW j \in S, NEW k \in S, j < k
      PROVE  Below(S, j) < Below(S, k)
  <2>1. j \in Nat /\ k \in Nat /\ j + 1 \in Nat /\ j + 1 <= k
    BY <1>2
  <2>2. Below(S, j + 1) = Below(S, j) + 1 /\ Below(S, j + 1) <= Below(S, k)
    BY <2>1, BelowFacts
  <2>3. Below(S, j) \in Nat /\ Below(S, k) \in Nat
    BY <2>1, BelowFacts
  <2> QED BY <2>2, <2>3
<1>3. ASSUME NEW j \in S, NEW k \in S, Below(S, j) = Below(S, k)
      PROVE  j = k
  <2>1. j \in Nat /\ k \in Nat
    OBVIOUS
  <2>2. ~(j < k) /\ ~(k < j)
    BY <1>1, <1>2, <1>3
  <2> QED BY <2>1, <2>2
<1>4. f \in Injection(S, 0 .. N - 1)
  BY <1>1, <1>3 DEF Injection, IsInjective
<1>5. IsFiniteSet(0 .. N - 1) /\ Cardinality(0 .. N - 1) = N
  <2>1. 0 \in Int /\ N - 1 \in Int
    BY <1>1
  <2>2. /\ IsFiniteSet(0 .. N - 1)
        /\ Cardinality(0 .. N - 1) = IF 0 > N - 1 THEN 0 ELSE (N - 1) - 0 + 1
    BY <2>1, FS_Interval
  <2> HIDE DEF N
  <2> QED BY <1>1, <2>2
<1>6. f \in Surjection(S, 0 .. N - 1)
  BY <1>4, <1>5, FS_Injection
<1>7. \A n \in 0 .. N - 1 : \E k \in S : Below(S, k) = n
  BY <1>6 DEF Surjection
<1> QED BY <1>1, <1>3, <1>7

-----------------------------------------------------------------------------
(***************************************************************************)
(* Going on in two graphs at once.                                         *)
(***************************************************************************)
\* What is reached from one node.
LEMMA ReachedFromOne ==
  ASSUME NEW U, IsFiniteSet(U), NEW succ \in Graph(U), NEW x \in U
  PROVE  /\ ReachedFrom({x}, succ) \in SUBSET U
         /\ x \in ReachedFrom({x}, succ)
         /\ Closed(ReachedFrom({x}, succ), succ)
         /\ \A D \in SUBSET U : x \in D /\ Closed(D, succ) => ReachedFrom({x}, succ) \subseteq D
<1>1. {x} \in SUBSET U
  OBVIOUS
<1> QED BY <1>1, ReachedFacts

\* The nodes C of a graph g are moved to nodes of a graph h, some of them to where
\* the next number is moved to, which is the only node they lead to; the others, S,
\* lead to what they led to.
Moved(V, g, h, f, C, S, m) ==
  /\ IsFiniteSet(V) /\ g \in Graph(V) /\ h \in Graph(V) /\ f \in [V -> V]
  /\ C \in SUBSET V /\ S \in SUBSET C /\ C \subseteq Nat
  /\ m \in Nat /\ \A k \in C : k <= m
  /\ \A k \in C : g[k] \subseteq C
  /\ \A k \in C \ S : g[k] = {k + 1} /\ f[k + 1] = f[k]
  /\ \A k \in S : h[f[k]] = {f[u] : u \in g[k]}

\* Then what is reached from where k is moved to is where what was reached from k
\* is moved to, and nothing is only reached in passing.
SameReach(g, h, f, C, S, k) ==
  /\ ReachedFrom({k}, g) \subseteq C
  /\ ReachedFrom({f[k]}, h) = {f[j] : j \in ReachedFrom({k}, g)}
  /\ {f[j] : j \in ReachedFrom({k}, g)} = {f[i] : i \in ReachedFrom({k}, g) \cap S}

LEMMA MovedGraph ==
  ASSUME NEW V, NEW g, NEW h, NEW f, NEW C, NEW S, NEW m, Moved(V, g, h, f, C, S, m), NEW k \in C
  PROVE  SameReach(g, h, f, C, S, k)
<1> USE DEF Moved
<1> DEFINE R == ReachedFrom({k}, g)
           Q == ReachedFrom({f[k]}, h)
<1>0. \A j \in V : f[j] \in V /\ g[j] \in SUBSET V /\ h[j] \in SUBSET V
  BY DEF Graph
<1>1. /\ R \in SUBSET V /\ k \in R /\ Closed(R, g)
      /\ \A D \in SUBSET V : k \in D /\ Closed(D, g) => R \subseteq D
  <2>1. k \in V
    OBVIOUS
  <2> QED BY <2>1, ReachedFromOne
<1>2. /\ Q \in SUBSET V /\ f[k] \in Q /\ Closed(Q, h)
      /\ \A D \in SUBSET V : f[k] \in D /\ Closed(D, h) => Q \subseteq D
  <2>1. PICK x \in V : x = f[k]
    BY <1>0
  <2>2. Q = ReachedFrom({x}, h)
    BY <2>1
  <2> HIDE DEF Q
  <2>3. /\ Q \in SUBSET V /\ x \in Q /\ Closed(Q, h)
        /\ \A D \in SUBSET V : x \in D /\ Closed(D, h) => Q \subseteq D
    BY <2>2, ReachedFromOne
  <2> QED BY ONLY <2>1, <2>3
<1> HIDE DEF R, Q
<1>3. R \subseteq C
  <2>1. Closed(C, g)
    BY DEF Closed
  <2> QED BY <1>1, <2>1
<1>4. ASSUME NEW j \in R
      PROVE  \E i \in R \cap S : f[i] = f[j]
  <2> DEFINE X == {i \in R : f[i] = f[j]}
             D == {m - i : i \in X}
  <2>1. SUFFICES ASSUME X \cap S = {} PROVE FALSE
    OBVIOUS
  <2>2. \A i \in X : i \in Nat /\ m - i \in Nat /\ i \in C
    BY <1>3
  <2>3. PICK i \in X : \A l \in X : m - i <= m - l
    <3>1. D \in SUBSET Nat /\ D # {}
      BY <2>2
    <3>2. PICK d \in D : \A y \in D : d <= y
      BY <3>1, LeastNumber
    <3> QED BY <3>2
  <2>4. i \in C \ S /\ i \in R
    BY <2>1, <2>2, <2>3
  <2>5. i + 1 \in X
    BY <1>1, <2>3, <2>4 DEF Closed
  <2>6. m - i <= m - (i + 1) /\ i \in Nat
    BY <2>2, <2>3, <2>5
  <2> HIDE DEF X, D
  <2> QED BY <2>6
<1>5. Q \subseteq {f[j] : j \in R}
  <2> DEFINE D == {f[j] : j \in R}
  <2>1. D \in SUBSET V /\ f[k] \in D
    BY <1>0, <1>1
  <2>2. ASSUME NEW n \in D
        PROVE  h[n] \subseteq D
    <3>1. PICK j \in R : n = f[j]
      OBVIOUS
    <3>2. PICK i \in R \cap S : f[i] = f[j]
      BY <1>4
    <3>3. h[n] = {f[u] : u \in g[i]} /\ g[i] \subseteq R
      BY <1>1, <3>1, <3>2 DEF Closed
    <3> QED BY <3>3
  <2>3. Closed(D, h)
    BY <2>2 DEF Closed
  <2> QED BY <1>2, <2>1, <2>3
<1>6. \A j \in R : f[j] \in Q
  <2> DEFINE D == {j \in C : f[j] \in Q}
  <2>1. D \in SUBSET V /\ k \in D
    BY <1>2
  <2>2. ASSUME NEW j \in D
        PROVE  g[j] \subseteq D
    <3>1. CASE j \in S
      <4>1. \A u \in g[j] : f[u] \in h[f[j]] /\ u \in C
        BY <3>1
      <4> QED BY <1>2, <4>1 DEF Closed
    <3>2. CASE j \notin S
      <4>1. j \in C /\ f[j] \in Q /\ g[j] \subseteq C
        OBVIOUS
      <4>2. g[j] = {j + 1} /\ f[j + 1] = f[j]
        BY <3>2, <4>1
      <4> QED BY ONLY <4>1, <4>2
    <3> QED BY <3>1, <3>2
  <2>3. Closed(D, g)
    BY <2>2 DEF Closed
  <2> QED BY <1>1, <2>1, <2>3
<1>7. Q = {f[j] : j \in R} /\ {f[j] : j \in R} = {f[i] : i \in R \cap S}
  BY ONLY <1>4, <1>5, <1>6
<1>8. /\ ReachedFrom({k}, g) \subseteq C
      /\ ReachedFrom({f[k]}, h) = {f[j] : j \in ReachedFrom({k}, g)}
      /\ {f[j] : j \in ReachedFrom({k}, g)} = {f[i] : i \in ReachedFrom({k}, g) \cap S}
  BY ONLY <1>3, <1>7 DEF R, Q
<1> QED BY ONLY <1>8 DEF SameReach

-----------------------------------------------------------------------------
(***************************************************************************)
(* What is copied, and where to.                                           *)
(***************************************************************************)
\* The code of blocks that can be reached.
Alive == UNION {Extent(s) : s \in reachable}

\* Control runs through a block to its end, and goes on to blocks that can be reached.
LEMMA Inside ==
  ASSUME RInv, Rewriting, NEW s \in reachable, NEW k \in Extent(s)
  PROVE  /\ k \in Ix /\ k \in Nat /\ s \in Nat /\ s <= k /\ k <= block[s].end
         /\ s \in Extent(s) /\ block[s].end \in Extent(s) /\ block[s].end \in Nat
         /\ k # block[s].end => /\ code[k].op \in {"plain", "nop"} /\ Follows(code, k) = {k + 1}
                                /\ k + 1 \in Extent(s)
         /\ k = block[s].end => Follows(code, k) = edges[s] /\ edges[s] \subseteq reachable
         /\ Follows(code, k) \subseteq Alive
<1>1. /\ GInv /\ s \in DOMAIN block /\ reachable \in SUBSET DOMAIN block
      /\ edges[s] \subseteq reachable /\ edges[s] = Follows(code, block[s].end)
  BY While DEF RInv, EdgesFollowCode
<1>2. /\ s \in Nat /\ block[s].end \in Nat /\ block[s].end \in Ix /\ s \in Extent(s)
      /\ block[s].end \in Extent(s) /\ \A t \in DOMAIN block : t \in Extent(t)
  BY <1>1, While, Finished
<1>3. k \in Ix /\ k \in Nat /\ s <= k /\ k <= block[s].end
  BY <1>2, SizeAssumption DEF Extent, Ix
<1>4. ASSUME k # block[s].end
      PROVE  /\ code[k].op \in {"plain", "nop"} /\ Follows(code, k) = {k + 1}
             /\ k + 1 \in Extent(s)
  <2>1. k \in s .. block[s].end - 1 /\ k + 1 \in Extent(s)
    BY <1>2, <1>3, <1>4 DEF Extent
  <2>2. prog.code[k].op = "plain" /\ prog.code[k].to = <<>>
    BY <1>1, <1>3, <2>1, Kinds DEF GInv, Straight
  <2>3. code[k] = prog.code[k] \/ code[k] = Nop
    BY <1>3, <2>2 DEF RInv, Rewritten
  <2>4. CASE code[k] = Nop
    BY <1>3, <2>1, <2>4, NopFollows DEF Nop
  <2>5. CASE code[k] = prog.code[k]
    BY <2>1, <2>2, <2>5, Members DEF Follows, Successors, FallsThrough
  <2> QED BY <2>3, <2>4, <2>5
<1>5. k = block[s].end => Follows(code, k) = edges[s] /\ edges[s] \subseteq reachable
  BY <1>1
<1>6. Follows(code, k) \subseteq Alive
  BY <1>1, <1>2, <1>4, <1>5 DEF Alive
<1> QED BY <1>2, <1>3, <1>4, <1>5, <1>6

\* All that is not deleted of a block that can be reached is copied, from one block.
LEMMA CopiedFacts ==
  ASSUME RInv, Rewriting
  PROVE  /\ Emitted \subseteq reachable /\ Source \subseteq Alive /\ Alive \subseteq Ix
         /\ Alive \subseteq Nat /\ IsFiniteSet(Source)
         /\ \A s \in Emitted : Copied(s) \subseteq Extent(s) /\ Copied(s) # {}
         /\ \A s \in Emitted : \A k \in Extent(s) : k \in Source => k \in Copied(s)
         /\ \A s \in reachable \ Emitted : /\ Extent(s) \cap Source = {} /\ s \in entries
                                           /\ \A k \in Extent(s) : code[k].op = "nop"
         /\ \A k \in Alive \ Source : code[k].op = "nop"
         /\ \A k \in Source : Home(k) \in Emitted /\ k \in Extent(Home(k))
<1>1. Emitted \subseteq reachable /\ reachable \subseteq DOMAIN block
  BY While DEF Emitted
<1>2. \A r, s \in reachable : \A k \in Extent(r) \cap Extent(s) : r = s
  BY <1>1 DEF RInv, GInv, Disjoint
<1>3. \A s \in reachable : Copied(s) \subseteq Extent(s) /\ Copied(s) # {}
  <2> SUFFICES ASSUME NEW s \in reachable
               PROVE  Copied(s) \subseteq Extent(s) /\ Copied(s) # {}
    OBVIOUS
  <2>1. block[s].end \in Extent(s)
    BY <1>1, While, Finished
  <2> QED BY <2>1 DEF Copied
<1>4. Source \subseteq Alive
  BY <1>1, <1>3 DEF Source, Alive
<1>5. Alive \subseteq Ix /\ Alive \subseteq Nat
  BY Inside DEF Alive
<1>6. IsFiniteSet(Source)
  <2>1. IsFiniteSet(Ix)
    BY SizeAssumption, FS_Interval DEF Ix
  <2> QED BY <1>4, <1>5, <2>1, FS_Subset
<1>7. ASSUME NEW k \in Source
      PROVE  \E s \in Emitted : k \in Copied(s) /\ k \in Extent(s)
  BY <1>1, <1>3 DEF Source
<1>8. \A s \in reachable : \A k \in Extent(s) : k \in Source => s \in Emitted /\ k \in Copied(s)
  BY <1>1, <1>2, <1>7
<1>9. \A s \in reachable \ Emitted : s \in entries /\ \A k \in Extent(s) : code[k].op = "nop"
  BY DEF Emitted, Kept
<1>10. ASSUME NEW k \in Alive \ Source
       PROVE  code[k].op = "nop"
  <2>1. PICK s \in reachable : k \in Extent(s)
    BY DEF Alive
  <2>2. CASE s \in Emitted
    BY <2>1, <2>2 DEF Source, Copied
  <2> QED BY <1>9, <2>1, <2>2
<1>11. \A k \in Source : Home(k) \in Emitted /\ k \in Extent(Home(k))
  BY <1>7 DEF Home
<1> QED BY <1>1, <1>3, <1>4, <1>5, <1>6, <1>8, <1>9, <1>10, <1>11

\* Instructions keep their order, and take the places from zero on.
LEMMA Places ==
  ASSUME RInv, Rewriting
  PROVE  LET N == Cardinality(Source)
         IN  /\ N \in Nat /\ N <= Size
             /\ \A k \in Nat : Place(k) \in Nat /\ Place(k) <= N
             /\ \A k \in Nat : Place(k + 1) = IF k \in Source THEN Place(k) + 1 ELSE Place(k)
             /\ \A j, k \in Nat : j <= k => Place(j) <= Place(k)
             /\ \A j, k \in Nat : j <= k /\ (\A i \in Source : ~(j <= i /\ i < k)) => Place(j) = Place(k)
             /\ \A k \in Source : Place(k) \in 0 .. N - 1 /\ Origin(Place(k)) = k
             /\ \A n \in 0 .. N - 1 : Origin(n) \in Source /\ Place(Origin(n)) = n
             /\ \A s \in Emitted : Start(s) = Place(s)
<1> DEFINE N == Cardinality(Source)
<1>1. Source \in SUBSET Nat /\ IsFiniteSet(Source)
  BY CopiedFacts
<1>2. \A k : Place(k) = Below(Source, k)
  BY DEF Place, Below
<1>3. N \in Nat /\ N <= Size
  <2>1. IsFiniteSet(Ix) /\ Cardinality(Ix) = Size
    <3>1. 0 \in Int /\ Size - 1 \in Int /\ Size \in Nat \ {0}
      BY SizeAssumption
    <3>2. /\ IsFiniteSet(0 .. Size - 1)
          /\ Cardinality(0 .. Size - 1) = IF 0 > Size - 1 THEN 0 ELSE (Size - 1) - 0 + 1
      BY <3>1, FS_Interval
    <3> QED BY <3>1, <3>2 DEF Ix
  <2>2. Source \in SUBSET Ix
    BY CopiedFacts
  <2>3. N <= Size
    BY <2>1, <2>2, FS_Subset
  <2> QED BY <1>1, <2>3, FS_CardinalityType
<1>4. /\ \A k \in Nat : Place(k) \in Nat /\ Place(k) <= N
      /\ \A k \in Nat : Place(k + 1) = IF k \in Source THEN Place(k) + 1 ELSE Place(k)
      /\ \A j, k \in Nat : j <= k => Place(j) <= Place(k)
      /\ \A j, k \in Nat : j <= k /\ (\A i \in Source : ~(j <= i /\ i < k)) => Place(j) = Place(k)
  <2>1. /\ \A k \in Nat : Below(Source, k) \in Nat /\ Below(Source, k) <= N
        /\ \A k \in Nat : Below(Source, k + 1) = IF k \in Source THEN Below(Source, k) + 1 ELSE Below(Source, k)
        /\ \A j, k \in Nat : j <= k => Below(Source, j) <= Below(Source, k)
        /\ \A j, k \in Nat : j <= k /\ (\A i \in Source : ~(j <= i /\ i < k)) =>
              Below(Source, j) = Below(Source, k)
    BY ONLY <1>1, BelowFacts
  <2> HIDE DEF N
  <2> QED BY ONLY <1>2, <2>1
<1>5. /\ \A k \in Source : Place(k) \in 0 .. N - 1
      /\ \A j, k \in Source : Place(j) = Place(k) => j = k
      /\ \A n \in 0 .. N - 1 : \E k \in Source : Place(k) = n
  BY <1>1, <1>2, BelowBijection
<1>6. /\ \A k \in Source : Origin(Place(k)) = k
      /\ \A n \in 0 .. N - 1 : Origin(n) \in Source /\ Place(Origin(n)) = n
  BY <1>5 DEF Origin
<1>7. ASSUME NEW s \in Emitted
      PROVE  Start(s) = Place(s)
  <2>1. /\ s \in reachable /\ Copied(s) \subseteq Extent(s) /\ Copied(s) # {}
        /\ \A k \in Extent(s) : k \in Source => k \in Copied(s)
    BY CopiedFacts
  <2>2. s \in Nat /\ block[s].end \in Nat /\ \A k \in Extent(s) : k \in Nat /\ s <= k
    BY <2>1, While, Finished, Inside
  <2>3. PICK x \in Copied(s) : \A y \in Copied(s) : x <= y
    <3>1. Copied(s) \in SUBSET Nat /\ Copied(s) # {}
      BY <2>1, <2>2
    <3> QED BY <3>1, LeastNumber
  <2>4. Min(Copied(s)) \in Copied(s) /\ \A y \in Copied(s) : Min(Copied(s)) <= y
    BY <2>3 DEF Min
  <2> DEFINE first == Min(Copied(s))
  <2>5. first \in Nat /\ s <= first /\ first <= block[s].end
    BY <2>1, <2>2, <2>4, Inside
  <2>6. \A i \in Source : ~(s <= i /\ i < first)
    <3>1. SUFFICES ASSUME NEW i \in Source, s <= i, i < first PROVE FALSE
      OBVIOUS
    <3>2. i \in Nat
      BY <1>1
    <3>3. i \in Extent(s)
      BY <2>2, <2>5, <3>1, <3>2 DEF Extent
    <3>4. first <= i
      BY <2>1, <2>4, <3>3
    <3> HIDE DEF first
    <3> QED BY <2>5, <3>1, <3>2, <3>4
  <2>7. Place(s) = Place(first)
    BY <1>4, <2>2, <2>5, <2>6
  <2> QED BY <2>7 DEF Start
<1> QED BY <1>3, <1>4, <1>5, <1>6, <1>7

-----------------------------------------------------------------------------
(***************************************************************************)
(* What the copies do.                                                     *)
(***************************************************************************)
\* Instructions have an operation and targets, rewritten or not.
LEMMA Rewrites ==
  ASSUME RInv, NEW k \in Ix
  PROVE  /\ code[k] = [op |-> code[k].op, to |-> code[k].to]
         /\ code[k].to \in Seq(Ix)
         /\ \/ code[k].op \in {"plain", "return", "nop"} /\ code[k].to = <<>>
            \/ code[k].op \in {"b", "bif"} /\ \E t \in Ix : code[k].to = <<t>>
            \/ code[k].op = "pusherr"
<1>1. GInv /\ prog \in Programs
  BY DEF RInv, GInv, IInv
<1>2. prog.code[k] \in Instruction /\ prog.code[k].to \in Seq(Ix)
  BY <1>1, InProgram, ProgramAssumption
<1>3. prog.code[k] = [op |-> prog.code[k].op, to |-> prog.code[k].to]
  BY <1>2 DEF Instruction
<1>4. CASE code[k] = prog.code[k]
  BY <1>1, <1>2, <1>3, <1>4, Kinds DEF GInv
<1>5. CASE code[k] = Nop
  BY <1>5 DEF Nop
<1>6. CASE prog.code[k].op = "bif" /\ code[k] = B(Head(prog.code[k].to))
  <2>1. PICK t \in Ix : prog.code[k].to = <<t>>
    BY <1>1, <1>6, Kinds DEF GInv
  <2>2. code[k] = B(t)
    BY <1>6, <2>1
  <2>3. <<t>> \in Seq(Ix)
    OBVIOUS
  <2> QED BY <2>2, <2>3 DEF B
<1> QED BY <1>4, <1>5, <1>6 DEF RInv, Rewritten

\* When no block is missing, a copy goes to where what the instruction goes to went.
LEMMA Copies ==
  ASSUME RInv, Rewriting, Missing = {}, NEW k \in Source
  PROVE  LET new == NewCode[Place(k)]
         IN  /\ k \in Ix /\ Follows(code, k) \subseteq Alive
             /\ code[k].op \in {"plain", "return", "nop"} => new = code[k]
             /\ code[k].op = "b" =>
                  \E u \in Emitted :
                    /\ code[k].to = <<u>>
                    /\ \/ new = Nop /\ Place(u) = Place(k) + 1
                       \/ new = [op |-> "b", to |-> <<Place(u)>>]
             /\ code[k].op = "bif" =>
                  \E u \in Emitted :
                    code[k].to = <<u>> /\ new = [op |-> "bif", to |-> <<Place(u)>>]
             /\ code[k].op = "pusherr" =>
                  /\ \A i \in DOMAIN code[k].to : code[k].to[i] \in Emitted
                  /\ new = [op |-> "pusherr", to |-> [i \in DOMAIN code[k].to |-> Place(code[k].to[i])]]
<1> DEFINE s == Home(k)
           new == NewCode[Place(k)]
<1>1. s \in Emitted /\ k \in Extent(s) /\ s \in reachable
  BY CopiedFacts
<1>2. new = Laid(s, k)
  BY Places DEF NewCode
<1>3. k \in Ix /\ Follows(code, k) \subseteq Alive
  BY <1>1, Inside
<1>4. code[k].op \in {"b", "bif", "pusherr"} => k = block[s].end
  BY <1>1, Inside
<1>5. Needed(s) \subseteq Emitted
  BY <1>1 DEF Missing
<1>6. \A u \in Emitted : Start(u) = Place(u)
  BY Places
<1>7. code[k] = [op |-> code[k].op, to |-> code[k].to] /\ code[k].to \in Seq(Ix)
  BY <1>3, Rewrites
<1> HIDE DEF s, new
<1>8. ASSUME code[k].op \in {"plain", "return", "nop"}
      PROVE  new = code[k]
  <2>1. code[k].op \notin {"b", "bif"} /\ code[k].op # "pusherr"
    BY <1>8
  <2> QED BY <1>2, <2>1 DEF Laid
<1>9. ASSUME code[k].op \in {"b", "bif"}
      PROVE  \E u \in Emitted :
               /\ code[k].to = <<u>> /\ new = Fixed(k, code[k], u)
               /\ Start(u) = Place(u)
  <2>1. k = block[s].end /\ code[block[s].end].op \in {"b", "bif"}
    BY <1>4, <1>9
  <2>2. code[k].to = <<Target(s)>>
    BY <1>1, <2>1, TargetRight
  <2>3. Target(s) \in Emitted
    BY <1>5, <2>1 DEF Needed
  <2>4. new = Fixed(k, code[k], Target(s))
    BY <1>2, <1>9 DEF Laid
  <2> QED BY <1>6, <2>2, <2>3, <2>4
<1>10. ASSUME code[k].op = "b"
       PROVE  \E u \in Emitted :
                /\ code[k].to = <<u>>
                /\ \/ new = Nop /\ Place(u) = Place(k) + 1
                   \/ new = [op |-> "b", to |-> <<Place(u)>>]
  <2>1. PICK u \in Emitted : /\ code[k].to = <<u>> /\ new = Fixed(k, code[k], u)
                             /\ Start(u) = Place(u)
    BY <1>9, <1>10
  <2>2. [code[k] EXCEPT !.to = <<Place(u)>>] = [op |-> "b", to |-> <<Place(u)>>]
    BY <1>7, <1>10
  <2> QED BY <2>1, <2>2 DEF Fixed
<1>11. ASSUME code[k].op = "bif"
       PROVE  \E u \in Emitted :
                code[k].to = <<u>> /\ new = [op |-> "bif", to |-> <<Place(u)>>]
  <2>1. PICK u \in Emitted : /\ code[k].to = <<u>> /\ new = Fixed(k, code[k], u)
                             /\ Start(u) = Place(u)
    BY <1>9, <1>11
  <2>2. [code[k] EXCEPT !.to = <<Place(u)>>] = [op |-> "bif", to |-> <<Place(u)>>]
    BY <1>7, <1>11
  <2> QED BY <1>11, <2>1, <2>2 DEF Fixed
<1>12. ASSUME code[k].op = "pusherr"
       PROVE  /\ \A i \in DOMAIN code[k].to : code[k].to[i] \in Emitted
              /\ new = [op |-> "pusherr", to |-> [i \in DOMAIN code[k].to |-> Place(code[k].to[i])]]
  <2>1. k = block[s].end
    BY <1>4, <1>12
  <2>2. \A i \in DOMAIN code[k].to : code[k].to[i] \in Emitted
    <3>1. Needed(s) = ToSet(code[k].to)
      BY <1>12, <2>1 DEF Needed
    <3> QED BY <1>5, <3>1 DEF ToSet
  <2>3. new = [code[k] EXCEPT !.to = [i \in DOMAIN code[k].to |-> Start(code[k].to[i])]]
    BY <1>2, <1>12 DEF Laid
  <2>4. [i \in DOMAIN code[k].to |-> Start(code[k].to[i])]
          = [i \in DOMAIN code[k].to |-> Place(code[k].to[i])]
    BY <1>6, <2>2
  <2>5. \A to : [code[k] EXCEPT !.to = to] = [op |-> "pusherr", to |-> to]
    BY <1>7, <1>12
  <2> QED BY <2>2, <2>3, <2>4, <2>5
<1> QED BY <1>3, <1>8, <1>10, <1>11, <1>12 DEF new

\* What is passed through, is passed through where it was copied to, to the copy of
\* what followed.
LEMMA SilentCopies ==
  ASSUME RInv, Rewriting, Missing = {}, NEW k \in Source
  PROVE  LET n == Place(k)
         IN  /\ code[k].op \in {"nop", "b"} <=> NewCode[n].op \in {"nop", "b"}
             /\ code[k].op \in {"nop", "b"} =>
                  \E u \in Alive : Follows(code, k) = {u} /\ Follows(NewCode, n) = {Place(u)}
<1> DEFINE new == NewCode[Place(k)]
<1>1. /\ k \in Ix /\ k \in Nat /\ Follows(code, k) \subseteq Alive
      /\ Place(k + 1) = Place(k) + 1 /\ Place(k) \in Nat
  <2>1. k \in Nat
    BY CopiedFacts
  <2> QED BY <2>1, Copies, Places
<1>2. \/ code[k].op \in {"plain", "return", "nop"} \/ code[k].op = "b"
      \/ code[k].op = "bif" \/ code[k].op = "pusherr"
  BY <1>1, Rewrites
<1>3. CASE code[k].op \in {"plain", "return", "nop"}
  <2>1. new = code[k]
    BY <1>3, Copies
  <2>2. code[k].op = "nop" => /\ Follows(code, k) = {k + 1}
                              /\ Follows(NewCode, Place(k)) = {Place(k + 1)}
    BY <1>1, <2>1 DEF Follows
  <2> QED BY <1>1, <1>3, <2>1, <2>2
<1>4. CASE code[k].op = "b"
  <2>1. PICK u \in Emitted :
          /\ code[k].to = <<u>>
          /\ \/ new = Nop /\ Place(u) = Place(k) + 1
             \/ new = [op |-> "b", to |-> <<Place(u)>>]
    BY <1>4, Copies
  <2>2. Follows(code, k) = {u}
    BY <1>4, <2>1, Members DEF Follows, Successors, FallsThrough
  <2>3. CASE new = Nop /\ Place(u) = Place(k) + 1
    BY <1>1, <1>4, <2>2, <2>3 DEF Follows, Nop
  <2>4. CASE new = [op |-> "b", to |-> <<Place(u)>>]
    <3>1. new.op = "b" /\ new.to = <<Place(u)>>
      BY <2>4
    <3>2. Follows(NewCode, Place(k)) = {Place(u)}
      BY <3>1, Members DEF Follows, Successors, FallsThrough
    <3> QED BY <1>1, <1>4, <2>2, <3>1, <3>2
  <2> QED BY <2>1, <2>3, <2>4
<1>5. CASE code[k].op = "bif"
  <2>1. PICK u \in Emitted : new = [op |-> "bif", to |-> <<Place(u)>>]
    BY <1>5, Copies
  <2>2. new.op = "bif"
    BY <2>1
  <2> QED BY <1>5, <2>2
<1>6. CASE code[k].op = "pusherr"
  <2>1. new = [op |-> "pusherr", to |-> [i \in DOMAIN code[k].to |-> Place(code[k].to[i])]]
    BY <1>6, Copies
  <2>2. new.op = "pusherr"
    BY <2>1
  <2> QED BY <1>6, <2>2
<1> QED BY <1>2, <1>3, <1>4, <1>5, <1>6

\* The instructions that Lands passes through, and how.
Silent(c) == {j \in DOMAIN c : c[j].op \in {"nop", "b"}}
Through(c) == [j \in 0 .. Size |-> IF j \in Silent(c) THEN Follows(c, j) ELSE {}]

\* The instructions that are only passed through form a graph, in either code.
LEMMA ThroughFacts ==
  ASSUME RInv, Rewriting, Missing = {}
  PROVE  /\ Through(code) \in Graph(0 .. Size) /\ Through(NewCode) \in Graph(0 .. Size)
         /\ DOMAIN code = Ix /\ Ix \subseteq 0 .. Size
         /\ DOMAIN NewCode = 0 .. Cardinality(Source) - 1
         /\ \A k \in Nat : Place(k) \in 0 .. Size
<1> DEFINE N == Cardinality(Source)
<1>1. /\ Size \in Nat /\ N \in Nat /\ N <= Size
      /\ \A k \in Nat : Place(k) \in Nat /\ Place(k) <= N
      /\ \A n \in 0 .. N - 1 : Origin(n) \in Source /\ Place(Origin(n)) = n
  BY Places, SizeAssumption
<1>2. DOMAIN code = Ix /\ DOMAIN NewCode = 0 .. N - 1
  BY DEF RInv, NewCode
<1> HIDE DEF N
<1>3. Ix \subseteq 0 .. Size /\ 0 .. N - 1 \subseteq 0 .. Size /\ \A k \in Nat : Place(k) \in 0 .. Size
  BY <1>1 DEF Ix
<1>4. ASSUME NEW j \in Silent(code)
      PROVE  Follows(code, j) \subseteq 0 .. Size
  <2>1. j \in Ix /\ code[j].op \in {"nop", "b"}
    BY <1>2 DEF Silent
  <2>2. CASE code[j].op = "nop"
    BY <1>1, <2>1, <2>2 DEF Follows, Ix
  <2>3. CASE code[j].op = "b"
    <3>1. PICK t \in Ix : code[j].to = <<t>>
      BY <2>1, <2>3, Rewrites
    <3>2. Follows(code, j) = {t}
      BY <2>3, <3>1, Members DEF Follows, Successors, FallsThrough
    <3> QED BY <1>3, <3>2
  <2> QED BY <2>1, <2>2, <2>3
<1>5. ASSUME NEW n \in Silent(NewCode)
      PROVE  Follows(NewCode, n) \subseteq 0 .. Size
  <2>1. n \in 0 .. N - 1 /\ NewCode[n].op \in {"nop", "b"}
    BY <1>2 DEF Silent
  <2>2. PICK k \in Source : n = Place(k)
    BY <1>1, <2>1
  <2>3. PICK u \in Alive : Follows(NewCode, n) = {Place(u)}
    BY <2>1, <2>2, SilentCopies
  <2> QED BY <1>3, <2>3, CopiedFacts
<1>6. Through(code) \in Graph(0 .. Size) /\ Through(NewCode) \in Graph(0 .. Size)
  BY <1>4, <1>5 DEF Through, Graph
<1> QED BY <1>2, <1>3, <1>6 DEF N

\* Control that comes to where an instruction was copied to, or was before it was
\* deleted, lands on the copy of what it landed on.
LEMMA LandsMoved ==
  ASSUME RInv, Rewriting, Missing = {}, NEW k \in Alive
  PROVE  Lands(NewCode, Place(k)) = {Place(j) : j \in Lands(code, k)}
<1> DEFINE V == 0 .. Size
           g == Through(code)
           h == Through(NewCode)
           f == [j \in V |-> Place(j)]
           R == ReachedFrom({k}, g)
<1>1. /\ g \in Graph(V) /\ h \in Graph(V) /\ f \in [V -> V] /\ IsFiniteSet(V)
      /\ \A j \in V : f[j] = Place(j)
  <2>1. IsFiniteSet(V)
    BY SizeAssumption, FS_Interval
  <2>2. V \subseteq Nat
    BY SizeAssumption
  <2> QED BY <2>1, <2>2, ThroughFacts
<1>2. /\ Alive \in SUBSET V /\ Source \in SUBSET Alive /\ Alive \subseteq Nat /\ Alive \subseteq Ix
      /\ Size \in Nat /\ \A j \in Alive : j <= Size
  <2>1. Alive \subseteq Ix /\ Source \subseteq Alive /\ Alive \subseteq Nat /\ Ix \subseteq V
    BY CopiedFacts, ThroughFacts
  <2>2. Size \in Nat /\ \A j \in Ix : j <= Size
    BY SizeAssumption DEF Ix
  <2> HIDE DEF V
  <2> QED BY <2>1, <2>2
<1>3. \A j \in Alive : /\ j \in Silent(code) <=> code[j].op \in {"nop", "b"}
                       /\ g[j] = IF j \in Silent(code) THEN Follows(code, j) ELSE {}
  BY <1>2, ThroughFacts DEF Silent, Through
<1>4. \A j \in Source : /\ Place(j) \in V
                        /\ Place(j) \in Silent(NewCode) <=> NewCode[Place(j)].op \in {"nop", "b"}
                        /\ h[Place(j)] = IF Place(j) \in Silent(NewCode)
                                         THEN Follows(NewCode, Place(j)) ELSE {}
  BY <1>2, ThroughFacts, Places DEF Silent, Through
<1> HIDE DEF V, g, h
<1>5. \A j \in Alive : g[j] \subseteq Alive
  <2>1. \A j \in Alive : Follows(code, j) \subseteq Alive
    BY Inside DEF Alive
  <2> QED BY <1>3, <2>1
<1>6. ASSUME NEW j \in Alive \ Source
      PROVE  g[j] = {j + 1} /\ f[j + 1] = f[j]
  <2>1. code[j].op = "nop"
    BY CopiedFacts
  <2>2. g[j] = {j + 1}
    BY <1>3, <2>1 DEF Follows
  <2>3. Place(j + 1) = Place(j)
    BY <1>2, Places
  <2> QED BY <1>1, <1>2, <1>5, <2>2, <2>3
<1>7. ASSUME NEW j \in Source
      PROVE  h[f[j]] = {f[u] : u \in g[j]}
  <2>1. f[j] = Place(j) /\ j \in Alive /\ (j \in Silent(code) <=> Place(j) \in Silent(NewCode))
    BY <1>1, <1>2, <1>3, <1>4, SilentCopies
  <2>2. CASE j \in Silent(code)
    <3>1. PICK u \in Alive : Follows(code, j) = {u} /\ Follows(NewCode, Place(j)) = {Place(u)}
      BY <1>3, <2>1, <2>2, SilentCopies
    <3>2. g[j] = {u} /\ h[Place(j)] = {Place(u)} /\ f[u] = Place(u)
      BY <1>1, <1>2, <1>3, <1>4, <2>1, <2>2, <3>1
    <3> HIDE DEF f
    <3> QED BY <2>1, <3>2
  <2>3. CASE j \notin Silent(code)
    BY <1>3, <1>4, <2>1, <2>3
  <2> QED BY <2>2, <2>3
<1> HIDE DEF f, R
<1>8. /\ R \subseteq Alive
      /\ ReachedFrom({f[k]}, h) = {f[j] : j \in R}
      /\ \A j \in R : \E i \in R \cap Source : f[i] = f[j]
  <2>1. /\ g \in Graph(V) /\ h \in Graph(V) /\ f \in [V -> V] /\ IsFiniteSet(V)
        /\ Alive \in SUBSET V /\ Source \in SUBSET Alive /\ Alive \subseteq Nat
        /\ Size \in Nat /\ \A j \in Alive : j <= Size
    BY <1>1, <1>2
  <2>2. \A j \in Alive : g[j] \subseteq Alive
    BY <1>5
  <2>3. \A j \in Alive \ Source : g[j] = {j + 1} /\ f[j + 1] = f[j]
    BY <1>6
  <2>4. \A j \in Source : h[f[j]] = {f[u] : u \in g[j]}
    BY <1>7
  <2>5. Moved(V, g, h, f, Alive, Source, Size)
    BY <2>1, <2>2, <2>3, <2>4 DEF Moved
  <2>6. /\ ReachedFrom({k}, g) \subseteq Alive
        /\ ReachedFrom({f[k]}, h) = {f[j] : j \in ReachedFrom({k}, g)}
        /\ {f[j] : j \in ReachedFrom({k}, g)} = {f[i] : i \in ReachedFrom({k}, g) \cap Source}
    <3>1. SameReach(g, h, f, Alive, Source, k)
      BY ONLY k \in Alive, <2>5, MovedGraph
    <3> QED BY ONLY <3>1 DEF SameReach
  <2>7. {f[j] : j \in R} = {f[i] : i \in R \cap Source}
    BY ONLY <2>6 DEF R
  <2>8. \A j \in R : \E i \in R \cap Source : f[i] = f[j]
    BY ONLY <2>7
  <2> QED BY <2>6, <2>8 DEF R
<1>9. Lands(code, k) = R \ Silent(code)
  BY DEF Lands, Silent, Through, R, g
<1>10. Lands(NewCode, Place(k)) = ReachedFrom({Place(k)}, h) \ Silent(NewCode)
  BY DEF Lands, Silent, Through, h
<1>11. Lands(NewCode, Place(k)) = {f[j] : j \in R} \ Silent(NewCode)
  BY <1>1, <1>2, <1>8, <1>10
<1>12. \A j \in Source : j \in Silent(code) <=> f[j] \in Silent(NewCode)
  BY <1>1, <1>2, <1>3, <1>4, SilentCopies
<1>13. \A j \in R : j \notin Source => j \in Silent(code)
  BY <1>3, <1>8, CopiedFacts
<1>14. \A j \in R : f[j] = Place(j)
  BY <1>1, <1>2, <1>8
<1>15. {f[j] : j \in R} \ Silent(NewCode) = {Place(j) : j \in R \ Silent(code)}
  BY <1>8, <1>12, <1>13, <1>14
<1> QED BY <1>9, <1>11, <1>15

-----------------------------------------------------------------------------
(***************************************************************************)
(* The new program.                                                        *)
(***************************************************************************)
\* The entry of a function is moved to where its first instruction was copied to, or
\* was before it was deleted with the rest of its block: what follows that block is
\* not an entry and is kept, and nothing of the function comes before its entry.
LEMMA EntriesMoved ==
  ASSUME RInv, Rewriting, NEW s \in entries
  PROVE  s \in Alive /\ NewEntry(s) = Place(s)
<1> DEFINE f == block[s].func
           Q == ReachedFrom({s}, edges)
           kept == Emitted \cap Q
           Mine == {y \in reachable : y \in Body(prog, f)}
<1>1. /\ s \in reachable /\ s \in DOMAIN block /\ reachable \in SUBSET DOMAIN block
      /\ edges \in Graph(DOMAIN block) /\ IsFiniteSet(DOMAIN block) /\ GInv /\ Built
  BY While
<1>2. s = prog.entry[f] /\ f \in Function /\ prog \in Programs
  BY <1>1, Finished DEF RInv, EntryBlocks
<1>3. \A y \in DOMAIN block :
        /\ block[y].end \in Extent(y) /\ y \in Extent(y) /\ y \in Nat
        /\ Extent(y) \subseteq Body(prog, block[y].func) /\ block[y].func \in Function
        /\ edges[y] \subseteq Successors(prog.code, block[y].end)
  BY <1>1, Finished DEF RInv, LinksRight
<1>4. \A y \in Mine : block[y].func = f
  BY <1>1, <1>2, <1>3, ProgramAssumption
<1>5. s \in Alive
  BY <1>1, <1>3 DEF Alive
<1>6. /\ Q \in SUBSET DOMAIN block /\ s \in Q /\ Closed(Q, edges)
      /\ \A D \in SUBSET DOMAIN block : s \in D /\ Closed(D, edges) => Q \subseteq D
  BY <1>1, ReachedFromOne
<1>7. Q \subseteq Mine
  <2>1. s \in Mine /\ Mine \in SUBSET DOMAIN block
    BY <1>1, <1>2, BodyFacts
  <2>2. ASSUME NEW y \in Mine
        PROVE  edges[y] \subseteq Mine
    <3>1. edges[y] \subseteq reachable
      BY While
    <3>2. block[y].end \in Body(prog, f)
      BY <1>1, <1>3, <1>4
    <3>3. Successors(prog.code, block[y].end) \subseteq Body(prog, f)
      BY <1>2, <3>2, BodyFacts
    <3> QED BY <1>1, <1>3, <3>1, <3>3
  <2>3. Closed(Mine, edges)
    BY <2>2 DEF Closed
  <2> QED BY <1>6, <2>1, <2>3
<1> HIDE DEF Q, f
<1>8. \A x \in Q : s <= x /\ x \in Nat /\ x \in reachable
  BY <1>1, <1>2, <1>3, <1>7, EntryAssumption
<1>9. \E x \in kept : Place(x) = Place(s)
  <2>1. CASE s \in Emitted
    BY <1>6, <2>1
  <2>2. CASE s \notin Emitted
    <3>1. PICK e : e = block[s].end
      OBVIOUS
    <3>2. Extent(s) \cap Source = {} /\ code[e].op = "nop" /\ s \in Nat /\ e \in Nat /\ s <= e
      BY <1>1, <1>3, <2>2, <3>1, CopiedFacts, Inside
    <3>3. edges[s] = {e + 1}
      BY <1>1, <1>3, <3>1, <3>2, Inside DEF Follows
    <3>4. e + 1 \in Q
      BY <1>6, <3>3 DEF Closed
    <3>5. e + 1 \notin entries
      <4>1. SUFFICES ASSUME e + 1 \in EntryBlocks PROVE FALSE
        BY DEF RInv
      <4>2. e + 1 \in Mine /\ e + 1 = prog.entry[f]
        BY <1>4, <1>7, <3>4, <4>1 DEF EntryBlocks
      <4> QED BY <1>2, <3>2, <4>2
    <3>6. e + 1 \in kept
      BY <1>8, <3>4, <3>5 DEF Emitted, Kept
    <3>7. \A i \in Source : ~(s <= i /\ i < e + 1)
      <4>1. \A i \in Source : i \in Nat
        BY CopiedFacts
      <4> QED BY <3>1, <3>2, <4>1 DEF Extent
    <3>8. Place(s) = Place(e + 1)
      BY <3>2, <3>7, Places
    <3> QED BY <3>6, <3>8
  <2> QED BY <2>1, <2>2
<1> DEFINE X == {Start(x) : x \in kept}
<1>10. \A x \in kept : Start(x) = Place(x) /\ Place(s) <= Place(x) /\ Place(x) \in Nat
  BY <1>1, <1>3, <1>8, Places
<1>11. Place(s) \in X /\ Place(s) \in Nat /\ \A y \in X : y \in Nat /\ Place(s) <= y
  BY <1>9, <1>10
<1>12. Min(X) = Place(s)
  <2> HIDE DEF X
  <2>1. Min(X) \in X /\ \A y \in X : Min(X) <= y
    BY <1>11 DEF Min
  <2>2. Min(X) \in Nat /\ Min(X) <= Place(s) /\ Place(s) <= Min(X)
    BY <1>11, <2>1
  <2> QED BY <1>11, <2>2
<1>13. kept # {}
  BY <1>9
<1>14. NewEntry(s) = Min(X)
  BY <1>13 DEF NewEntry, Q
<1> QED BY <1>5, <1>12, <1>14

\* What does something is copied as it is, with its targets moved.
LEMMA VisibleCopies ==
  ASSUME RInv, Rewriting, Missing = {}, NEW n \in Visible(NewCode)
  PROVE  LET k == Origin(n)
             new == NewCode[n]
         IN  /\ new.op = code[k].op /\ Len(new.to) = Len(code[k].to)
             /\ \A i \in DOMAIN new.to : code[k].to[i] \in Alive /\ new.to[i] = Place(code[k].to[i])
             /\ FallsThrough(new) => k + 1 \in Alive /\ Place(k + 1) = n + 1
<1> DEFINE k == Origin(n)
           new == NewCode[n]
<1>1. /\ k \in Source /\ Place(k) = n /\ new.op \notin {"nop", "b"}
      /\ k \in Ix /\ k \in Nat /\ Follows(code, k) \subseteq Alive
  <2>1. n \in 0 .. Cardinality(Source) - 1 /\ new.op \notin {"nop", "b"}
    BY DEF Visible, NewCode
  <2>2. k \in Source /\ Place(k) = n
    BY <2>1, Places
  <2> QED BY <2>1, <2>2, Copies, CopiedFacts
<1>2. Place(k + 1) = n + 1
  BY <1>1, Places
<1>3. Emitted \subseteq Alive
  <2>1. \A s \in reachable : s \in Extent(s)
    BY While, Finished
  <2> QED BY <2>1 DEF Alive, Emitted
<1> HIDE DEF k
<1>4. new = NewCode[Place(k)] /\ code[k].op \notin {"nop", "b"}
  BY <1>1, SilentCopies
<1>5. FallsThrough(code[k]) => k + 1 \in Alive
  BY <1>1, <1>4 DEF Follows, Successors
<1> HIDE DEF new
<1>6. CASE code[k].op \in {"plain", "return"}
  <2>1. new = code[k] /\ code[k].to = <<>>
    BY <1>1, <1>4, <1>6, Copies, Rewrites
  <2>2. DOMAIN new.to = {}
    BY <2>1
  <2> QED BY <1>2, <1>5, <2>1, <2>2 DEF k, new
<1>7. CASE code[k].op = "bif"
  <2>1. PICK u \in Emitted : code[k].to = <<u>> /\ new = [op |-> "bif", to |-> <<Place(u)>>]
    BY <1>1, <1>4, <1>7, Copies
  <2>2. new.op = "bif" /\ new.to = <<Place(u)>> /\ u \in Alive
    BY <1>3, <2>1
  <2>3. /\ Len(new.to) = Len(code[k].to)
        /\ \A i \in DOMAIN new.to : code[k].to[i] = u /\ new.to[i] = Place(u)
    BY <2>1, <2>2
  <2>4. FallsThrough(code[k])
    BY <1>7 DEF FallsThrough
  <2> QED BY <1>2, <1>5, <1>7, <2>2, <2>3, <2>4 DEF k, new
<1>8. CASE code[k].op = "pusherr"
  <2>1. /\ \A i \in DOMAIN code[k].to : code[k].to[i] \in Emitted
        /\ new = [op |-> "pusherr", to |-> [i \in DOMAIN code[k].to |-> Place(code[k].to[i])]]
    BY <1>1, <1>4, <1>8, Copies
  <2>2. /\ new.op = "pusherr" /\ new.to = [i \in DOMAIN code[k].to |-> Place(code[k].to[i])]
        /\ DOMAIN new.to = DOMAIN code[k].to
    BY <2>1
  <2>3. Len(new.to) = Len(code[k].to)
    <3>1. PICK to \in Seq(Ix) : to = code[k].to
      BY <1>1, Rewrites
    <3>2. DOMAIN to = 1 .. Len(to) /\ Len(to) \in Nat
      OBVIOUS
    <3> QED BY <2>2, <3>1, <3>2
  <2>4. \A i \in DOMAIN new.to : code[k].to[i] \in Alive /\ new.to[i] = Place(code[k].to[i])
    BY <1>3, <2>1, <2>2
  <2>5. FallsThrough(code[k])
    BY <1>8 DEF FallsThrough
  <2> QED BY <1>2, <1>5, <1>8, <2>2, <2>3, <2>4, <2>5 DEF k, new
<1> QED BY <1>1, <1>4, <1>6, <1>7, <1>8, Rewrites

\* What was laid out stays as it was: nothing is rewritten any more.
LInv ==
  /\ RInv
  /\ out # NoLayout => Rewriting
  /\ out.status = "done" => /\ Missing = {}
                            /\ out.code = NewCode
                            /\ out.entry = [s \in entries |-> NewEntry(s)]

\* The layout is that of the code, when there is one.
LEMMA LaidOut ==
  ASSUME LInv
  PROVE  LaidOutRight
<1> DEFINE to(K) == {Place(k) : k \in K}
<1>1. SUFFICES ASSUME out.status = "done" PROVE LaidOutRight
  BY DEF LaidOutRight
<1>2. /\ RInv /\ Rewriting /\ Missing = {} /\ out.code = NewCode
      /\ \A s \in entries : out.entry[s] = NewEntry(s)
  BY <1>1 DEF LInv, NoLayout
<1>3. \A k \in Alive : Lands(out.code, Place(k)) = to(Lands(code, k))
  BY <1>2, LandsMoved
<1> HIDE DEF to
<1>4. \A s \in entries : Lands(out.code, out.entry[s]) = to(Lands(code, s))
  BY <1>2, <1>3, EntriesMoved
<1>5. ASSUME NEW n \in Visible(out.code)
      PROVE  LET k == Origin(n)
                 new == out.code
             IN  /\ new[n].op = code[k].op /\ Len(new[n].to) = Len(code[k].to)
                 /\ \A i \in DOMAIN new[n].to : Lands(new, new[n].to[i]) = to(Lands(code, code[k].to[i]))
                 /\ FallsThrough(new[n]) => Lands(new, n + 1) = to(Lands(code, k + 1))
  <2> DEFINE k == Origin(n)
             new == out.code
  <2>1. /\ new[n].op = code[k].op /\ Len(new[n].to) = Len(code[k].to)
        /\ \A i \in DOMAIN new[n].to :
             code[k].to[i] \in Alive /\ new[n].to[i] = Place(code[k].to[i])
        /\ FallsThrough(new[n]) => k + 1 \in Alive /\ Place(k + 1) = n + 1
    BY <1>2, VisibleCopies
  <2> HIDE DEF k, new
  <2>2. \A i \in DOMAIN new[n].to : Lands(new, new[n].to[i]) = to(Lands(code, code[k].to[i]))
    BY <1>3, <2>1 DEF new
  <2>3. FallsThrough(new[n]) => Lands(new, n + 1) = to(Lands(code, k + 1))
    BY <1>3, <2>1 DEF new
  <2> QED BY <2>1, <2>2, <2>3 DEF k, new
<1> QED BY <1>4, <1>5 DEF LaidOutRight, to

\* At first nothing is laid out.
LEMMA LayInit ==
  ASSUME LInit
  PROVE  LInv
BY RepairInit DEF LInit, LInv, NoLayout

\* Where nothing changes, nothing is laid out in another way.
LEMMA SameLayout ==
  ASSUME UNCHANGED <<vars, rvars>>
  PROVE  /\ Missing' = Missing /\ NewCode' = NewCode /\ Rewriting' = Rewriting
         /\ entries' = entries /\ \A s : NewEntry(s)' = NewEntry(s)
<1>1. UNCHANGED <<block, code, edges, entries, reachable>>
  BY DEF vars, rvars
<1>2. \A s : Extent(s)' = Extent(s)
  BY <1>1 DEF Extent
<1>3. Emitted' = Emitted /\ \A s : Copied(s)' = Copied(s)
  BY <1>1, <1>2 DEF Emitted, Kept, Copied
<1>4. \A s : Target(s)' = Target(s)
  BY <1>1 DEF Target
<1>5. Missing' = Missing
  BY <1>1, <1>3, <1>4 DEF Missing, Needed
<1>6. Source' = Source
  BY <1>3 DEF Source
<1>7. \A k : Place(k)' = Place(k)
  BY <1>6 DEF Place
<1>8. \A s : Start(s)' = Start(s)
  BY <1>3, <1>7 DEF Start
<1>9. \A s, k : Laid(s, k)' = Laid(s, k)
  BY <1>1, <1>4, <1>7, <1>8 DEF Laid, Fixed
<1>10. \A k : Home(k)' = Home(k) /\ Origin(k)' = Origin(k)
  BY <1>2, <1>3, <1>6, <1>7 DEF Home, Origin
<1>11. NewCode' = NewCode
  BY <1>6, <1>9, <1>10 DEF NewCode
<1>12. \A s : NewEntry(s)' = NewEntry(s)
  BY <1>1, <1>3, <1>8 DEF NewEntry
<1> QED BY <1>1, <1>5, <1>11, <1>12 DEF Rewriting

\* A layout, once made, is the layout of the code as it then is.
LEMMA LayNext ==
  ASSUME LInv, [LNext]_<<vars, rvars, out>>
  PROVE  LInv'
<1>1. RInv'
  BY RepairNext DEF LInv
<1>2. CASE out = NoLayout /\ out' = out
  BY <1>1, <1>2 DEF LInv, NoLayout
<1>3. CASE LayOut
  <2>1. UNCHANGED <<vars, rvars>> /\ Rewriting
    BY <1>3 DEF LayOut
  <2>2. \/ out'.status = "missing"
        \/ /\ out'.status = "done" /\ Missing = {} /\ out'.code = NewCode
           /\ out'.entry = [s \in entries |-> NewEntry(s)]
    BY <1>3 DEF LayOut, NoLayout
  <2> QED BY <1>1, <2>1, <2>2, SameLayout DEF LInv
<1>4. CASE out # NoLayout /\ UNCHANGED <<vars, rvars, out>>
  BY <1>1, <1>4, SameLayout DEF LInv
<1> QED BY <1>2, <1>3, <1>4 DEF LNext, Build, LInv

\* The invariant holds at every step.
LEMMA LayoutInvariant == LSpec => []LInv
BY LayInit, LayNext, PTL DEF LSpec

\* The new program does what the old one did: control that enters a function comes
\* to the same instruction, and from each to the same ones, on each of its branches,
\* whatever was deleted and cut before (layout). It rests on what is copied keeping
\* its order, on entries coming first in their functions, and on every edge being
\* a way the code goes.
THEOREM LayoutRight == LSpec => []LaidOutRight
BY LaidOut, LayoutInvariant, PTL
=============================================================================
