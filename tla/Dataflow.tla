------------------------------ MODULE Dataflow ------------------------------
(***************************************************************************)
(* The forward dataflow analysis of one function (optimize_dataflow,       *)
(* src/src/optimize.c): a worklist of blocks, each of which joins the facts*)
(* its predecessors end with, runs the tracking functions over its code and*)
(* queues its successors if the facts it ends with have changed.           *)
(*                                                                         *)
(* When the worklist is empty the function runs, and the facts each block  *)
(* starts from can be held against the machine that enters it. A branch may*)
(* go either way: what it tests is left out.                               *)
(*                                                                         *)
(* Blocks are numbered in the order of their code, as the control flow     *)
(* graph sorts them, and block 0 is the one the function enters at. The    *)
(* facts other functions' calls give about the arguments (Input) do not    *)
(* change while the function is analysed, and each of its blocks can be    *)
(* reached.                                                                *)
(***************************************************************************)
EXTENDS Opcodes, SequencesExt, Reached

CONSTANTS
  NBlock,       \* blocks of a function
  Width,        \* most instructions in a block
  NArgs, NOpt,  \* positional and optional parameters
  IsMethod,     \* whether the function belongs to a class
  IsRecursive,  \* whether it is known to call itself
  ParamFact,    \* what the signature says of each parameter
  Input,        \* what all calls seen so far have in common (functioninputinfo)
  Programs      \* the functions to analyse

Block == 0 .. NBlock - 1
Entry == 0

\* Positional parameters and `self' keep what the function was called with.
IsPreservedEntryRegister(r) == r <= NArgs /\ (r > 0 \/ IsMethod)

\* What calls have in common is a value, its type or a constant, and is known of
\* positional arguments and `self' only (_optimize_recordcallarg).
ASSUME BlockAssumption ==
  /\ NBlock \in Nat \ {0} /\ Width \in Nat
  /\ Pc = 0 .. NBlock * Width - 1
  /\ NArgs \in Nat /\ NOpt \in Nat /\ NArgs + NOpt < NReg
  /\ {IsMethod, IsRecursive} \subseteq BOOLEAN
  /\ ParamFact \in [Reg -> TypeFact]
  /\ Input \in RegInfoList
  /\ \A r \in Reg :
       /\ InRange(Input[r]) /\ Input[r].alias = NoReg /\ Input[r].iindx = NoPc
       /\ Input[r].contents \notin {"global", "upvalue"}
       /\ Input[r].contents # "nofact" => IsPreservedEntryRegister(r)

\* Any instruction. <<"call", a, n, 0>> calls register a with the n registers after
\* it.
IsInstruction(i) ==
  /\ i = <<i[1], i[2], i[3], i[4]>>
  /\ \/ WellFormed(i)
     \/ i[1] = "sgl" /\ i[2] \in Reg /\ i[3] \in Glob
     \/ i[1] = "call" /\ i[2] \in Reg /\ i[3] \in Nat /\ i[2] + i[3] < NReg

\* A function: the code of its blocks and their edges, the latter in the order
\* in which the dictionaries block.src and block.dest hold them. Only blocks that
\* can be reached are analysed (optimize_blockisreachable).
IsFunction(p) ==
  /\ DOMAIN p = {"code", "src", "dest"}
  /\ {DOMAIN p.code, DOMAIN p.src, DOMAIN p.dest} = {Block}
  /\ \A b \in Block :
       /\ Len(p.code[b]) \in 0 .. Width /\ DOMAIN p.code[b] = 1 .. Len(p.code[b])
       /\ \A k \in DOMAIN p.code[b] : IsInstruction(p.code[b][k])
       /\ {p.src[b], p.dest[b]} \subseteq Seq(Block)
       /\ IsInjective(p.src[b]) /\ IsInjective(p.dest[b])
       /\ ToSet(p.src[b]) = {s \in Block : b \in ToSet(p.dest[s])}
  /\ ReachedFrom({Entry}, [b \in Block |-> ToSet(p.dest[b])]) = Block

ASSUME ProgramAssumption == \A p \in Programs : IsFunction(p)

VARIABLES
  prog,         \* the function under analysis
  loopblocks,   \* block.loopblocks: the loop that each header heads
  worklist,     \* a stack of blocks
  visited,      \* the blocks that were taken from the worklist
  rin, rout,    \* block.rin and block.rout
  current,      \* the block being simulated, or NoBlock
  pos,          \* the instruction of it that is next
  rlist,        \* opt->rlist
  machine,      \* the machine once the function runs
  at            \* the block it enters next, NotCalled or Returned

analysis == <<worklist, visited, rin, rout, current, pos, rlist>>
vars == <<prog, loopblocks, analysis, machine, at>>

NoBlock   == -1
Returned  == -1
NotCalled == -2

-----------------------------------------------------------------------------
(***************************************************************************)
(* What instructions read and write.                                       *)
(***************************************************************************)
PcOf(b, i) == b * Width + i - 1

InstrAt(pc) == prog.code[pc \div Width][(pc % Width) + 1]

\* opcode_usageforinstruction and opcode_overwritesforinstruction.
Used(i) == CASE i[1] \in {"mov", "sup"}       -> {i[3]}
             [] i[1] \in {"arith", "compare"} -> {i[3], i[4]}
             [] i[1] \in {"print", "sgl"}     -> {i[2]}
             [] i[1] = "call"                 -> i[2] .. i[2] + i[3]
             [] OTHER                         -> {}

Overwritten(i) ==
  IF i[1] \in {"mov", "lct", "lgl", "lup", "arith", "compare", "call"} THEN {i[2]} ELSE {}

BlockWrites(p, b) == UNION {Overwritten(p.code[b][i]) : i \in DOMAIN p.code[b]}

\* What the code that instruction i calls may do: calls of functions with a
\* declared result give one.
Results(m, i) ==
  LET callee == m.regs[i[2]]
  IN  {o \in Outcomes(i[2] .. i[2] + i[3], Glob \cup Upv) :
         Satisfies(o.regs[i[2]], Returns[callee].type, Returns[callee].typeinfo)}

\* A store keeps to what the last pass found out about the global, which is what
\* all stores of the program have in common.
Keeps(m, i) ==
  i[1] = "sgl" => Satisfies(m.regs[i[2]], GlobalType[i[3]].type, GlobalType[i[3]].typeinfo)

Effects(m, i) ==
  IF i[1] = "call" THEN {After(m, o) : o \in Results(m, i)}
  ELSE {n \in {Exec(m, i)} : Keeps(m, i)}

\* The machines that may leave block b if m enters it.
Runs(b, m) ==
  LET code == prog.code[b]
      run[k \in 0 .. Len(code)] ==
        IF k = 0 THEN {m} ELSE UNION {Effects(n, code[k]) : n \in run[k - 1]}
  IN  run[Len(code)]

TrackAny(rl, pc, i) ==
  IF i[1] = "call" THEN TrackCall(rl, pc, i[2], i[2], i[3], TRUE) ELSE Track(rl, pc, i)

\* optimize_usage.
MarkUsed(rl, i) ==
  [r \in Reg |-> IF r \in Used(i) THEN [rl[r] EXCEPT !.usage = MergeUsage(@, "read")]
                                  ELSE rl[r]]

-----------------------------------------------------------------------------
(***************************************************************************)
(* Loops: the back edges of the graph, and the blocks each one closes over *)
(* (the loop candidate prepass).                                           *)
(***************************************************************************)
Preds(p, b) == ToSet(p.src[b])

LoopSources(p, h) == {s \in Preds(p, h) : h <= s}

IsLoopHeader(p, h) == LoopSources(p, h) # {}

\* Backward from the sources of the back edges to the header.
LoopBlocks(p, h) ==
  ReachedFrom(LoopSources(p, h), [b \in Block |-> IF b = h THEN {} ELSE Preds(p, b)])

\* Mutant: only what the header itself writes counts as written by the loop.
HeaderWrites(h, r) == r \in BlockWrites(prog, h)

LoopWrites(h, r) == \E b \in loopblocks[h] : r \in BlockWrites(prog, b)

-----------------------------------------------------------------------------
(***************************************************************************)
(* The facts a block starts from.                                          *)
(***************************************************************************)
\* optimize_signature, then optimize_applyfunctioninput.
Signature(r) ==
  IF r > NArgs + NOpt THEN InitFact
  ELSE TypedFact([InitFact EXCEPT !.contents = "value", !.usage = "written"],
                 ParamFact[r].type, ParamFact[r].typeinfo)

EntryFact(r) ==
  LET incoming == IF r > 0 /\ IsRecursive THEN Weaken(Input[r]) ELSE Input[r]
  IN  CASE Input[r].contents = "nofact" -> Signature(r)
        [] Input[r].contents # "nofact" /\ IsMethod /\ r = 0 -> Join(Signature(r), incoming)
        [] OTHER -> incoming

\* _prepareboundaryfact.
Boundary(f) ==
  LET g == [ClearAlias(f) EXCEPT !.usage = "none",
                                 !.typeinfo = IF f.type = NoType THEN UNKNOWN ELSE @]
  IN  IF HasIndexedContents(f) THEN g ELSE ClearSource(g)

\* What Op makes of fact f and those of a sequence, one after the other.
OneByOne(Op(_, _), f, facts) ==
  LET fold[k \in 0 .. Len(facts)] == IF k = 0 THEN f ELSE Op(fold[k - 1], facts[k])
  IN  fold[Len(facts)]

JoinEach(f, facts) == OneByOne(Join, f, facts)

\* Mutant: a predecessor nothing is known of yet is passed over.
JoinAllPassesOver(f, blocks, r) ==
  ClearAlias(JoinEach(f, SelectSeq([k \in DOMAIN blocks |-> rout[blocks[k]][r]],
                                   LAMBDA g : g.contents # "nofact")))

JoinAll(f, blocks, r) == ClearAlias(JoinEach(f, [k \in DOMAIN blocks |-> rout[blocks[k]][r]]))

Resolve(blocks, r) == JoinAll(Boundary(rout[Head(blocks)][r]), Tail(blocks), r)

IsIntFact(f) ==
  \/ f.typeinfo = EXACT /\ f.type = IntType
  \/ f.contents = "constant" /\ TypeOf[f.indx] = IntType

\* The last write of r before the back edge from block s adds an integer to r.
IsIntPreservingLoopUpdate(s, r) ==
  /\ rout[s][r].iindx # NoPc
  /\ LET write == InstrAt(rout[s][r].iindx)
     IN  /\ write[1] = "arith" /\ write[2] = r
         /\ r \in {write[3], write[4]}
         /\ IsIntFact(rout[s][IF write[3] = r THEN write[4] ELSE write[3]])

ExactIntFact(f) == ClearAlias(ClearSource([f EXCEPT !.contents = "typedvalue"]))

\* The blocks of a sequence that are in S, in their order.
Among(blocks, S) ==
  LET kept[k \in 0 .. Len(blocks)] ==
        IF k = 0 THEN <<>>
        ELSE IF blocks[k] \in S THEN Append(kept[k - 1], blocks[k]) ELSE kept[k - 1]
  IN  kept[Len(blocks)]

\* _resolveloopheader: what the loop does not write it leaves as it was; an
\* integer it only adds integers to stays one; all else is joined.
HeaderFact(h, r) ==
  LET entry == Among(prog.src[h], Block \ LoopSources(prog, h))
      back  == Among(prog.src[h], LoopSources(prog, h))
      base  == Boundary(Resolve(entry, r))
      grows == IsIntFact(base) /\ \A s \in ToSet(back) : IsIntPreservingLoopUpdate(s, r)
  IN  CASE entry = <<>>                              -> Resolve(prog.src[h], r)
        [] entry # <<>> /\ ~LoopWrites(h, r)         -> base
        [] entry # <<>> /\ LoopWrites(h, r) /\ grows -> ExactIntFact(base)
        [] OTHER                                     -> JoinAll(base, back, r)

\* optimize_joinblockinput. The predecessors of the entry block are not asked.
JoinInput(b) ==
  [r \in Reg |->
     IF b = Entry \/ prog.src[b] = <<>> \/ IsPreservedEntryRegister(r) THEN EntryFact(r)
     ELSE IF IsLoopHeader(prog, b) THEN HeaderFact(b, r)
     ELSE Resolve(prog.src[b], r)]

-----------------------------------------------------------------------------
Init ==
  /\ prog \in Programs
  /\ loopblocks = [h \in Block |-> LoopBlocks(prog, h)]
  /\ worklist = <<Entry>>
  /\ visited = {}
  /\ rin = [b \in Block |-> [r \in Reg |-> InitFact]]
  /\ rout = rin
  /\ current = NoBlock
  /\ pos = 1
  /\ rlist = rin[Entry]
  /\ machine = CHOOSE m \in Machine : TRUE
  /\ at = NotCalled

\* One turn of the loop of optimize_dataflow: a block is taken from the worklist,
TakeBlock ==
  /\ current = NoBlock /\ worklist # <<>>
  /\ worklist' = Front(worklist)
  /\ current'  = Last(worklist)
  /\ rlist' = JoinInput(Last(worklist))
  /\ rin'   = [rin EXCEPT ![Last(worklist)] = rlist']
  /\ pos' = 1
  /\ UNCHANGED <<prog, loopblocks, visited, rout, machine, at>>

\* its instructions are simulated (optimize_transferblock),
Simulate ==
  /\ current # NoBlock /\ pos <= Len(prog.code[current])
  /\ LET i == prog.code[current][pos]
     IN  rlist' = TrackAny(MarkUsed(rlist, i), PcOf(current, pos), i)
  /\ pos' = pos + 1
  /\ UNCHANGED <<prog, loopblocks, worklist, visited, rin, rout, current, machine, at>>

\* Mutants: a block queues its successors the first time only; it queues them
\* whenever it was visited.
QueuesFirst(b, new) == IF b \notin visited THEN prog.dest[b] ELSE <<>>
QueuesAlways(b, new) == prog.dest[b]

\* optimize_queuesuccessors, if block b must wake its successors: this is its
\* first visit, or the facts it ends with are new.
Queues(b, new) ==
  IF b \notin visited \/ \E r \in Reg : ~Equal(rout[b][r], new[r]) THEN prog.dest[b]
  ELSE <<>>

\* and what it ends with is kept.
LeaveBlock ==
  /\ current # NoBlock /\ pos > Len(prog.code[current])
  /\ rout' = [rout EXCEPT ![current] = rlist]
  /\ worklist' = worklist \o Queues(current, rlist)
  /\ visited' = visited \cup {current}
  /\ current' = NoBlock
  /\ UNCHANGED <<prog, loopblocks, rin, pos, rlist, machine, at>>

\* The machines that may enter the function: its signature and what is known of
\* its calls are true of the arguments.
Entering ==
  LET args == [r \in Reg |-> EntryFact(r)]
  IN  {m \in Machine : Mirrors(args, m) /\ Types(args, m) /\ GlobalsOK(m.glob)}

\* The analysis is over and the function is called.
Called ==
  /\ current = NoBlock /\ worklist = <<>> /\ at = NotCalled
  /\ machine' \in Entering
  /\ at' = Entry
  /\ UNCHANGED <<prog, loopblocks, analysis>>

\* The function runs one block.
Run ==
  /\ at \in Block
  /\ machine' \in Runs(at, machine)
  /\ at' \in IF prog.dest[at] = <<>> THEN {Returned} ELSE ToSet(prog.dest[at])
  /\ UNCHANGED <<prog, loopblocks, analysis>>

Next == TakeBlock \/ Simulate \/ LeaveBlock \/ Called \/ Run

Spec == Init /\ [][Next]_vars /\ WF_vars(TakeBlock \/ Simulate \/ LeaveBlock)

-----------------------------------------------------------------------------
(***************************************************************************)
(* Functions the analysis is right about. MCParameter.cfg and MCStored.cfg *)
(* show why the first and the last hypothesis are needed.                  *)
(***************************************************************************)
\* The registers an instruction may change: a call leaves the registers of its
\* arguments to the callee, which opcode_overwritesforinstruction does not say.
Clobbered(i) == IF i[1] = "call" THEN i[2] .. i[2] + i[3] ELSE Overwritten(i)

BlockClobbers(p, b) == UNION {Clobbered(p.code[b][k]) : k \in DOMAIN p.code[b]}

\* The function does not assign to its parameters, nor, if control comes back to
\* its first block, to another register its signature gives a type.
ParametersKept(p) ==
  \A b \in Block : \A r \in BlockClobbers(p, b) :
    /\ ~IsPreservedEntryRegister(r)
    /\ p.src[Entry] # <<>> /\ r <= NArgs + NOpt => ParamFact[r].type = NoType

\* Loops are those of structured code: each block has one before it that leads
\* to it, and what a back edge closes over comes after its header.
Structured(p) ==
  /\ \A b \in Block \ {Entry} : \E s \in Preds(p, b) : s < b
  /\ \A h \in Block : \A b \in LoopBlocks(p, h) : h <= b

\* What a call in a loop leaves to the callee is loaded in the loop.
ArgumentsLoaded(p) ==
  \A h \in Block : \A b \in LoopBlocks(p, h) : \A r \in BlockClobbers(p, b) :
    \E c \in LoopBlocks(p, h) : r \in BlockWrites(p, c)

\* If a loop adds to a register, that is all it does to it, and what it adds
\* does not change: _isintpreservingloopupdate looks only at the last instruction
\* that wrote the register, and at facts about what it adds of a later time.
UpdatesAlone(p) ==
  \A h \in Block :
    LET body == {w \in LoopBlocks(p, h) \X (1 .. Width) : w[2] <= Len(p.code[w[1]])}
        I(w) == p.code[w[1]][w[2]]
    IN  \A w \in body :
          I(w)[1] = "arith" /\ I(w)[2] \in {I(w)[3], I(w)[4]} =>
            \A x \in body : x # w => Clobbered(I(x)) \cap {I(w)[2], I(w)[3], I(w)[4]} = {}

\* Where a loop may change a global or an upvalue, by a store or a call, all loads
\* of the function are in that loop.
LoadsInside(p) ==
  LET Has(b, ops) == \E i \in DOMAIN p.code[b] : p.code[b][i][1] \in ops
  IN  \A h \in Block :
        (\E b \in LoopBlocks(p, h) : Has(b, {"sgl", "sup", "call"})) =>
          \A b \in Block \ LoopBlocks(p, h) : ~Has(b, {"lgl", "lup"})

Regular(p) ==
  ParametersKept(p) /\ Structured(p) /\ ArgumentsLoaded(p) /\ UpdatesAlone(p) /\ LoadsInside(p)

-----------------------------------------------------------------------------
(***************************************************************************)
(* Properties.                                                             *)
(***************************************************************************)
TypeOK ==
  /\ loopblocks \in [Block -> SUBSET Block]
  /\ worklist \in Seq(Block)
  /\ current \in Block \cup {NoBlock}
  /\ pos \in 1 .. Width + 1
  /\ rlist \in RegInfoList
  /\ visited \subseteq Block
  /\ {rin[b] : b \in Block} \cup {rout[b] : b \in Block} \subseteq RegInfoList
  /\ \A b \in Block, r \in Reg : InRange(rin[b][r]) /\ InRange(rout[b][r])
  /\ machine \in Machine
  /\ at \in Block \cup {NotCalled, Returned}

\* When the analysis is over, whatever a block's input facts say is true of
\* each machine that enters the block, by whatever path (rin, cfgraph.h): the
\* strategies rewrite the block on the strength of them.
InputsSound ==
  at \in Block => Mirrors(rin[at], machine) /\ Types(rin[at], machine)

\* A block that is neither waiting for a visit nor being visited has seen what
\* its predecessors end with now: the analysis stops at a fixed point, and
\* every block has been part of it.
Settled ==
  /\ \A b \in visited \ (ToSet(worklist) \cup {current}) : rin[b] = JoinInput(b)
  /\ current = NoBlock /\ worklist = <<>> => visited = Block

\* Fact new says all that fact old says.
AsPrecise(new, old) ==
  /\ HasIndexedContents(old) => new.contents = old.contents /\ new.indx = old.indx
  /\ old.type # NoType =>
       \/ new.type = old.type /\ new.typeinfo <= old.typeinfo
       \/ old.typeinfo = SUBTYPE /\ new.type # NoType /\ old.type \in Ancestors(new.type)

\* A block that is visited again never starts from less than it did before:
\* what was concluded from its facts so far stays true.
Refines ==
  [][\A b \in visited, r \in Reg : AsPrecise(rin'[b][r], rin[b][r])]_vars

\* The analysis comes to an end, though a join may lose or regain a fact as
\* the blocks are visited in whatever order the stack gives.
Converges == <>(worklist = <<>> /\ current = NoBlock)
=============================================================================
