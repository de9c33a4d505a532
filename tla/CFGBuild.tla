------------------------------ MODULE CFGBuild ------------------------------
(***************************************************************************)
(* The construction of the control flow graph (cfgraph_build,              *)
(* src/src/cfgraph.c): from the global function on, each component that can*)
(* be reached through constant tables, metafunctions and classes is        *)
(* searched for functions; each function is cut into blocks from its entry *)
(* on, along the targets of its branches; and the blocks are linked.       *)
(*                                                                         *)
(* A block is named by its first instruction, which never changes while    *)
(* the graph is built. Sorting the blocks by it only renumbers them.       *)
(***************************************************************************)
EXTENDS Integers, SequencesExt, Reached

CONSTANTS
  Size,       \* instructions of the program
  Function,   \* the functions and methods of it
  Other,      \* its metafunctions and classes
  Global,     \* the global function (program.global)
  Programs    \* the programs to build a graph of

Ix == 0 .. Size - 1
Component == Function \cup Other

NoBlock == -1
NoFunction == "none"

-----------------------------------------------------------------------------
(***************************************************************************)
(* Instructions: an operation, and where it branches to. A branch table    *)
(* (pusherr) has a target for each error it handles, in the order of its   *)
(* dictionary; "plain" is an instruction that control runs through; "b"    *)
(* stands for poperr as well, "return" for end.                            *)
(***************************************************************************)
Instruction ==
  [op : {"plain", "return"}, to : {<<>>}] \cup
  [op : {"b", "bif"}, to : {<<t>> : t \in Ix}] \cup
  [op : {"pusherr"}, to : Seq(Ix)]

EndsBlock(i)     == i.op # "plain"
NewBlockAfter(i) == i.op \in {"bif", "pusherr"}

\* Where control may go from instruction k of the code.
FallsThrough(i) == i.op \in {"plain", "bif", "pusherr"}
Successors(code, k) ==
  ToSet(code[k].to) \cup (IF FallsThrough(code[k]) THEN {k + 1} ELSE {})

\* Mutant: what follows an unconditional branch counts as its successor, too.
DestinationsThroughBranches(p, last, known) ==
  {t \in ToSet(p.code[last].to) \cup {last + 1} : t \in known}

\* cfgraphbuilder_blockdest: the blocks that one with this last instruction is
\* linked to, of those the graph has.
Destinations(p, last, known) ==
  LET i == p.code[last]
  IN  {t \in ToSet(i.to) \cup (IF i.op \in {"b", "return"} THEN {} ELSE {last + 1}) : t \in known}

\* The instructions that can be reached from the entry of function f.
Body(p, f) == ReachedFrom({p.entry[f]}, [k \in Ix |-> Successors(p.code, k)])

\* The components that can be reached from the global function.
Live(p) == ReachedFrom({Global}, [c \in Component |-> ToSet(p.holds[c])])

\* A program has instructions, finitely many components and a global function.
ASSUME SizeAssumption == Size \in Nat \ {0} /\ Global \in Function
ASSUME ComponentAssumption == IsFiniteSet(Component)

\* What the compiler guarantees: control stays within the program and within a
\* function, and an error is handled by code that comes after its pusherr.
ASSUME ProgramAssumption ==
  \A p \in Programs :
    /\ p.code \in [Ix -> Instruction]
    /\ p.entry \in [Function -> Ix]
    /\ p.holds \in [Component -> Seq(Component)]
    /\ \A k \in Ix : FallsThrough(p.code[k]) => k + 1 \in Ix
    /\ \A k \in Ix : p.code[k].op = "pusherr" => \A t \in ToSet(p.code[k].to) : t > k
    /\ \A f, h \in Function : f # h => Body(p, f) \cap Body(p, h) = {}

VARIABLES
  prog,         \* the program
  block,        \* the blocks built: last instruction and function of each
  starts,       \* where a block starts or is going to (the keys of blkindx)
  worklist,     \* a stack of blocks to build
  components,   \* the components processed
  cworklist,    \* a stack of components to process
  found,        \* what a component holds, as far as it is still to be searched
  currentfn,    \* the function whose blocks are built
  open,         \* the block being built, or NoBlock
  at,           \* the instruction its scan has come to
  targets,      \* where that instruction branches to, as far as still to do
  dest          \* the links of each block, once they are set

scan == <<open, at, targets>>
vars == <<prog, block, starts, worklist, components, cworklist, found, currentfn, scan, dest>>

-----------------------------------------------------------------------------
(***************************************************************************)
(* Worklists.                                                              *)
(***************************************************************************)
\* Mutant: the worklist is a queue.
PopOldest(w) == <<Head(w), Tail(w)>>

\* cfgraphbuilder_pop: an item, and the rest of the worklist.
Pop(w) == <<Last(w), Front(w)>>

\* cfgraphbuilder_push: no block is planned twice.
Push(t) ==
  /\ starts' = starts \cup {t}
  /\ worklist' = IF t \in starts THEN worklist ELSE Append(worklist, t)

-----------------------------------------------------------------------------
(***************************************************************************)
(* Blocks.                                                                 *)
(***************************************************************************)
\* Where the scan of a block has to see to it that blocks start: after the
\* instruction, then at the targets of its branch or its branch table.
Targets(p, k) ==
  (IF NewBlockAfter(p.code[k]) THEN <<k + 1>> ELSE <<>>) \o p.code[k].to

\* cfgraphbuilder_findinblock. There is never more than one: see Disjoint.
Holding(t) == {s \in DOMAIN block : block[s].func = currentfn /\ s <= t /\ t <= block[s].end}

\* cfgraphbuilder_branchto, where t is the start of a block already,
BranchToStart ==
  /\ targets # <<>> /\ Head(targets) \in DOMAIN block
  /\ targets' = Tail(targets)
  /\ UNCHANGED <<prog, block, starts, worklist, components, cworklist, found, currentfn, open, at, dest>>

\* Mutants: a block that is split keeps the instruction before; the second half
\* of it is not built.
SplitBefore(s, t) == block' = [block EXCEPT ![s].end = t - 2] /\ Push(t)
SplitOnly(s, t) ==
  block' = [block EXCEPT ![s].end = t - 1] /\ UNCHANGED <<starts, worklist>>

\* cfgraphbuilder_split: block s ends before t, and a block is to be built at t.
Split(s, t) == block' = [block EXCEPT ![s].end = t - 1] /\ Push(t)

\* where t lies within a block,
BranchIntoBlock ==
  /\ targets # <<>> /\ Head(targets) \notin DOMAIN block
  /\ Holding(Head(targets)) # {}
  /\ Split(CHOOSE s \in Holding(Head(targets)) : TRUE, Head(targets))
  /\ targets' = Tail(targets)
  /\ UNCHANGED <<prog, components, cworklist, found, currentfn, open, at, dest>>

\* and where it is in none. The block being built is not looked at.
BranchToNew ==
  /\ targets # <<>> /\ Head(targets) \notin DOMAIN block
  /\ Holding(Head(targets)) = {}
  /\ Push(Head(targets))
  /\ targets' = Tail(targets)
  /\ UNCHANGED <<prog, block, components, cworklist, found, currentfn, open, at, dest>>

\* cfgraphbuilder_buildblock: a start is taken from the worklist,
BeginBlock ==
  /\ open = NoBlock /\ found = <<>> /\ worklist # <<>>
  /\ open' = Pop(worklist)[1]
  /\ worklist' = Pop(worklist)[2]
  /\ at' = open'
  /\ targets' = Targets(prog, open')
  /\ UNCHANGED <<prog, block, starts, components, cworklist, found, currentfn, dest>>

\* and its block goes on as far as an instruction that ends one, or one before
\* the start of another.
Stops == EndsBlock(prog.code[at]) \/ at + 1 \in starts

NextInstruction ==
  /\ open # NoBlock /\ targets = <<>> /\ ~Stops
  /\ at' = at + 1
  /\ targets' = Targets(prog, at + 1)
  /\ UNCHANGED <<prog, block, starts, worklist, components, cworklist, found, currentfn, open, dest>>

\* cfgraphbuilder_addblock.
EndBlock ==
  /\ open # NoBlock /\ targets = <<>> /\ Stops
  /\ block' = [s \in DOMAIN block \cup {open} |->
                 IF s = open THEN [end |-> at, func |-> currentfn] ELSE block[s]]
  /\ open' = NoBlock
  /\ UNCHANGED <<prog, starts, worklist, components, cworklist, found, currentfn, at, targets, dest>>

-----------------------------------------------------------------------------
(***************************************************************************)
(* Components (cfgraphbuilder_processcomponent), and the whole.            *)
(***************************************************************************)
\* Mutant: a component's turn comes as soon as a block is finished.
IdleBetweenBlocks == open = NoBlock

\* The blocks of the components processed so far are built.
Idle == open = NoBlock /\ worklist = <<>>

ProcessComponent ==
  /\ Idle /\ found = <<>> /\ cworklist # <<>> /\ dest = <<>>
  /\ cworklist' = Pop(cworklist)[2]
  /\ LET c == Pop(cworklist)[1]
     IN  /\ components' = components \cup {c}
         /\ found' = prog.holds[c]
         /\ IF c \in Function THEN currentfn' = c /\ Push(prog.entry[c])
                              ELSE UNCHANGED <<currentfn, starts, worklist>>
  /\ UNCHANGED <<prog, block, scan, dest>>

\* Mutant: a component that has been processed is pushed again.
Never(c) == FALSE

\* cfgraphbuilder_pushcomponent leaves out what was processed before, but not what
\* waits to be processed.
Processed(c) == c \in components

\* cfgraphbuilder_searchfunction, searchmetafunction and searchclass.
PushComponent ==
  /\ found # <<>>
  /\ found' = Tail(found)
  /\ cworklist' = IF Processed(Head(found)) THEN cworklist ELSE Append(cworklist, Head(found))
  /\ UNCHANGED <<prog, block, starts, worklist, components, currentfn, scan, dest>>

\* cfgraphbuilder_identifysources.
IdentifySources ==
  /\ open = NoBlock /\ worklist = <<>> /\ found = <<>> /\ cworklist = <<>> /\ dest = <<>>
  /\ dest' = [s \in DOMAIN block |-> Destinations(prog, block[s].end, DOMAIN block)]
  /\ UNCHANGED <<prog, block, starts, worklist, components, cworklist, found, currentfn, scan>>

Init ==
  /\ prog \in Programs
  /\ block = <<>>
  /\ starts = {}
  /\ worklist = <<>>
  /\ components = {}
  /\ cworklist = <<Global>>
  /\ found = <<>>
  /\ currentfn = NoFunction
  /\ open = NoBlock
  /\ at = 0
  /\ targets = <<>>
  /\ dest = <<>>

Next ==
  \/ ProcessComponent \/ PushComponent \/ BeginBlock
  \/ BranchToStart \/ BranchIntoBlock \/ BranchToNew
  \/ NextInstruction \/ EndBlock \/ IdentifySources

Spec == Init /\ [][Next]_vars /\ WF_vars(Next)

-----------------------------------------------------------------------------
(***************************************************************************)
(* Properties.                                                             *)
(***************************************************************************)
TypeOK ==
  /\ prog.code \in [Ix -> Instruction]
  /\ starts \subseteq Ix
  /\ DOMAIN block \subseteq starts
  /\ \A s \in DOMAIN block : /\ block[s].end \in s .. Size - 1
                             /\ block[s].func \in Function
  /\ worklist \in Seq(starts)
  /\ components \subseteq Component
  /\ cworklist \in Seq(Component)
  /\ found \in Seq(Component)
  /\ currentfn \in Function \cup {NoFunction}
  /\ open \in starts \cup {NoBlock}
  /\ at \in Ix
  /\ targets \in Seq(Ix)
  /\ \A s \in DOMAIN dest : dest[s] \subseteq DOMAIN block

Extent(s) == s .. block[s].end

\* No two blocks that are built share an instruction, at any time. A branch back
\* into the block being built finds nothing to split (cfgraph.c:448): this rests
\* on the target being built next, and scanning that branch again.
Disjoint == \A s, t \in DOMAIN block : s # t => Extent(s) \cap Extent(t) = {}

Built == dest # <<>>

\* At the end the blocks are made of exactly the code that control can reach in
\* a function that can be reached, whichever way the components refer to each
\* other: what is in no block is not analysed, and is lost when the code is laid
\* out again.
Covers ==
  Built => UNION {Extent(s) : s \in DOMAIN block} =
             UNION {Body(prog, f) : f \in Live(prog) \cap Function}

\* Control enters a block at its first instruction and leaves it at the last, for
\* the blocks it is linked to.
LinksRight ==
  Built => \A s \in DOMAIN block :
             /\ dest[s] = Successors(prog.code, block[s].end)
             /\ \A k \in s .. block[s].end - 1 : Successors(prog.code, k) = {k + 1}

\* A block belongs to the function whose code it is: its constants, registers
\* and entry are looked up there.
BlocksBelong == \A s \in DOMAIN block : Extent(s) \subseteq Body(prog, block[s].func)

\* The graph is finished, also of programs in which functions refer to each other
\* or to themselves.
Finishes == <>Built
=============================================================================
