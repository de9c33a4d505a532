# A verification model of the Morpho bytecode optimizer

These modules model the optimizer in `src/src`: what it believes about the
registers of a program, how those beliefs reach a block of code, which
instructions it rewrites or deletes because of them, and whether the program it
leaves does what the compiled program did. TLC checks the models on small
instances. For five parts TLAPS proves the same properties for programs of any
size: the facts inside a basic block and the rewrites that rest on them; the
dataflow analysis, which carries facts over the edges of a function and its loops;
the passes that rewrite the function by these facts and delete dead stores; the graph, from its construction to the code that is laid out; and the insertion of
code in the middle of a program, with the source lines that its layout keeps.

## The system

`optimize` (`optimize.c:2596`) is called by the Morpho compiler with a whole
program. It is sequential; nothing in it runs concurrently, and nothing is
persisted. What makes it hard is that every step relies on facts gathered by an
earlier one, over loops, calls and rewrites that may have made them stale.

| Component | State | Operations | Relies on |
|---|---|---|---|
| Control flow graph (`cfgraph.c`) | blocks: first and last instruction, edges, registers used and written | build, split, connect, disconnect | opcode flags |
| Register facts (`reginfo.c`) | per register: contents, index, usage, source, type, alias | write, copy, set type, join, weaken, invalidate, generalize | class linearizations |
| Opcode tracking (`opcodes.c`) | the facts at the current instruction | one tracking function per opcode | register facts, info |
| Dataflow analysis (`optimize.c:2087-2360`) | a worklist of blocks, each block's input and output facts | join, transfer, queue | graph, tracking, loops |
| Loop prepass (`optimize.c:1855-2081`) | headers, back edges, blocks of each loop | mark | graph |
| Strategies (`strategy.c`) | none | rewrite or delete one instruction | facts, usage, graph |
| Block optimization and passes (`optimize.c:1750-1820`, `2578`) | current block, number of changes, pass | walk, repeat, delete dead stores | all of the above |
| Interprocedural inputs (`optimize.c:200-434`) | per function: joined facts of its arguments, flags | record call sites, mark escapes and recursion | tracking |
| Program information (`info.c`) | per global: stores, reads, constant, type; per class and function: flags | update | tracking |
| Liveness and pruning (`optimize.c:857-1298`) | sets of live functions and used classes | mark, prune | graph, info |
| Reachability and branch repair (`optimize.c:1370-1454`) | cached set of reachable blocks | refresh, disconnect, prune | graph |
| Insertions and inlining (`optimize.c:1537-1715`, `strategy.c:525-663`) | pending insertions, index maps | insert, shift, retarget, restart | graph |
| Frame compaction (`optimize.c:2366-2575`) | a map of registers | renumber | facts of use |
| Layout (`layout.c`) | the new code, maps of blocks | copy, repair branches, annotations, handlers | graph |
| Evaluator (`eval.c`) | a scratch machine | run one instruction | the Morpho library |

Strategies read facts and write instructions; tracking reads instructions and
writes facts; the dataflow analysis carries facts over edges; the passes run
analysis and strategies in turn, six times. The virtual machine that runs the
result is not in this repository: the models give its instructions the effect
the code in `src/src` relies on (`Exec`, `Outcomes` and `After` in `Opcodes`),
marked external in `PROJECT.json`.

What is hard, by component, is listed under `hazards` in `PROJECT.json`. In
short: mirrors of globals and upvalues that a call makes stale; chains of
copies that a write must break; facts joined in the order of a hash table;
loops that assign to what the header takes for fixed; stores only the next turn
of a loop reads; rewriting with the usage of neighbours that have changed since;
code that grows under the branches, notes and entries that name its places;
registers that are given to inlined code or numbered anew while something still
refers to them; calls that are not seen and functions that seem unused; and every loop of the optimizer that runs "until nothing changes".

What makes each part correct: a fact is true of every machine that reaches the
place it is kept for; a rewrite does what the instruction it replaces did, for
all that later code, other functions and the user can see; each worklist and
each repetition comes to an end; the graph partitions the code it describes,
before and after blocks grow, disappear and move.

## Modules

| Module | Models | State and actions |
|---|---|---|
| `Reginfo` | `reginfo.h`, `reginfo.c` | operators on one fact and on a list of facts, named after the C functions |
| `Opcodes` | `opcodes.c` tracking functions; the machine | `Track`, `TrackCall`; `Exec`, `Outcomes`, `After`; `Mirrors`, `Aliases`, `Types` say what facts claim of a machine |
| `Reached` | searches that mark what they come to | the operator `ReachedFrom`, used for graphs, loops and components |
| `Strategies` | strategies that rewrite the instruction they are given | `Rewrite`: the first that succeeds, in the order of the table |
| `Tracking` | the walk over one block (`optimize_block`, `optimize_transferblock`) | one action per kind of instruction; two machines, one runs the compiled instruction, the other what is left of it |
| `Dataflow` | `optimize_dataflow` over the graph of one function, with the loop prepass | `TakeBlock`, `Simulate`, `LeaveBlock`, one turn of its loop; then `Called` and `Run` execute the function |
| `Optimize` | `optimize_pass` and `optimize_block` with deletions | the analysis, `BeginRewriting`, `OptimizeInstruction`, `RepeatBlock`, `FinishBlock`; then both versions run in step |
| `CFGBuild` | `cfgraph_build` | `ProcessComponent`, `PushComponent` search components; `BeginBlock`, `NextInstruction`, `EndBlock` scan a block; `BranchToStart`, `BranchIntoBlock`, `BranchToNew` are the cases of `cfgraphbuilder_branchto`; `IdentifySources` links |
| `Repair` (extends `CFGBuild`) | reachability and branch repair in `optimize.c`, the two branch strategies | `StartRewriting`, `DeleteInstruction`, `EraseBranch`, `EraseRedundantBranch`, `PruneFunction`; each cut refreshes the cache of reachable blocks and prunes |
| `Layout` (extends `Repair`) | `layout.c` without annotations | `LayOut`: copied blocks, branches, tables of handlers, entries |
| `Editing` | what inserting code promises | `Edit`: one instruction, by name, becomes several |
| `Insertions` (implements `Editing`) | insertions in `optimize_block`, `optimize_processinsertions` | `Inline`, `ResolveMethod` leave an insertion point; `ProcessInsertions` rebuilds the block and shifts what follows; `FinishBlock` goes on |
| `Annotations` (extends `Insertions`) | `blockcomposer_fixannotations` | `LayOut`: the source lines and scopes of the new code |
| `Frames` | inlined bodies and their registers (`strategy.c`), `optimize_applyrequirednregs`, `optimize_compactframes` | `Inline`, `PutOff`, `NextBlock`, `NextPass`, then `Compact` for each function |
| `FramesRun` (extends `Frames`) | the machine that runs a function, as a tree of what was computed from what | no action; `Run` is the machine |
| `Program` | a whole program and the machine that runs it | no action; `Step` is the machine |
| `Inputs` (extends `Program`) | interprocedural inputs, information about globals, the dataflow analysis of all functions, the strategies for globals | `BeginPass` (prepasses), `TakeBlock`, `Simulate`, `LeaveBlock`, `BeginRewrites`, `Rewrite`, `FinishBlock` |
| `Liveness` (extends `Inputs`) | `optimize_classinfo`, `optimize_functionliveness`, pruning | `TakeComponent`, `ScanForClasses`, `PruneClasses` before the passes; `BeginFunctions`, `TakeFunction`, `ScanForFunctions`, `PruneFunctions` after them; then `Run` |
| `MCTracking`, `MCDataflow`, `MCOptimize`, `MCLayout`, `MCAnnotations`, `MCFrames`, `MCLiveness` | instances for TLC | values of the constants |
| `StrategiesProofs` | lemmas about `Track`, `TrackCall` and `Rewrite`: facts that are true stay true of the machine, and a rewrite by true facts does what the instruction did | |
| `TrackingProofs` | theorems about `Tracking`, on top of `StrategiesProofs` | |
| `DataflowProofs` | theorems about `Dataflow`, on top of `StrategiesProofs` and `ReachedProofs` | |
| `OptimizeProofs` | theorems about `Optimize`, on top of `DataflowProofs` | |
| `ReachedProofs`, `LayoutProofs` | theorems about `CFGBuild`, then about `Repair` and `Layout`, on what a search of a graph finds | |
| `InsertionsProofs` | theorems about `Insertions`, that it implements `Editing`, and about `Annotations` | |
| `FramesProofs` | theorems about `Frames` | |

`Tracking`, `Dataflow` and `Optimize` each keep a machine beside the facts. It is
what gives the properties their meaning: a fact is not compared with another
model of the fact, but with what the registers hold. In `Tracking` the machine
walks along with the facts; in `Dataflow` and `Optimize` it runs after the
analysis, along every path of the graph (what a branch tests is left out, so
either way may be taken).

`CFGBuild`, `Repair` and `Layout` are one chain: the graph that is built is
rewritten, and what is left is laid out. `Layout` drives them in that order
(`Build`, then `Rewrite`, then `LayOut`). What the analysis would decide is left
open: any conditional branch may be found decided either way, any instruction
that does not branch deleted, any function but the global one dropped, in any
order and at any number. So what holds there holds whatever the analysis
concludes, right or wrong. `LaidOutRight` is the abstract statement the layout is
compared with: it reads the old and the new code as graphs of instructions and
never mentions a block.

`Insertions` is about places in the code. `optimize_processinsertions` has to put
right, after each insertion, everything that names a place: offsets of branches
inside the block, into it and over it, the first and last instruction of every
block, the entries of functions and the counts of the notes. `Editing` says what
all this comes to, in terms that have no places: instructions have names, and an
edit replaces one of them in its block, sends what went to it to the first of
the new ones and gives those its line. `EditsOnly` is the refinement: the state of
`Insertions`, read by name (`INSTANCE Editing WITH`: a branch by the instruction
it lands on, a function by the one it starts with, a line by the note that covers
the place), takes no step but such edits. Which calls are inlined, and what their
bodies are, is left open, so this holds whatever the strategies decide.
`Annotations` then lays out the code and rebuilds its notes; `LinesKept` compares
each instruction of the new code with where it came from.

`Frames` is about registers. A program of three functions is inlined and
compacted, and a machine that runs its functions before and after (`FramesRun`) tells
what was computed from what, symbolically: a value is the tree of the instructions that
made it. It refuses to read a register that was never written or lies outside
the frame, so `BehaviourKept` also says that nothing does. `RegistersApart` says of each rewrite
what that rests on, without a machine: it takes the registers of the old and of the
new instructions in pairs, those that windows and ranges only imply included, and no two
registers may become one. It asks this of the registers 0 to `nargs` as well, the window
that compaction means to keep; of optional parameters beyond them only `BehaviourKept`
says more. That a callee is known
is decided by the load in the same block; the facts that say so in general are
the subject of `Tracking` and `Dataflow`.

`Program`, `Inputs` and `Liveness` are one chain, the optimizer as seen by a whole
program: classes nobody constructs lose their methods, the passes learn inputs
and rewrite globals, functions nobody calls are dropped. Then the program runs as
it was compiled and as it was left, instruction by instruction, and the first is
the witness for what was concluded: of each block it enters, whether the facts
held (`InputsHold`), of each function, whether it is still there (`KeepsCalled`).
What a value is, and all ways a value can come to a call, are `Program`'s: through a
constant, a global, an argument, a result, an upvalue, a property, a bound
method, an overloaded function, an operator, or a built-in function that calls
back. `claims`, the only history variable, keeps the facts of every pass, since
each pass rewrites by its own.

Representation. A list of facts is a function on registers. `hasalias` and
`alias` are one field, and an index that means nothing is `NoIndex`. An entry of
the constant table is named by its value, as `_optimize_addconstanttofunction`
keeps one entry per value. Classes are a set with a linearization each. An
instruction is a tuple of its name and its operands; several opcodes whose
tracking functions and flags agree share a name (`arith`, `compare`, `print`).
Blocks are numbered in the order of their code; in `CFGBuild`, which does not
sort them until its end, each is named by its first instruction, and an
instruction is cut down to where control goes after it (`b` stands for `poperr`
as well while the graph is built; `Repair` and `Layout` rewrite it as the plain
branch). Blocks keep those names in `Repair` and `Layout`, so `i+1` in
`blockcomposer_fixbranch`, the number of the next block, is the block that
starts after the end of this one. `Dataflow` and
`Optimize` start from graphs of the kind `CFGBuild` ends with. Verbose output, allocation and
resizing are left out.

## Runs

| Run | Module, configuration | Bounds | Shows |
|---|---|---|---|
| `block_facts` | `MCTracking`, `MCFacts` | 2 registers, 5 values of 5 classes, 1 global, 1 upvalue | `TypeOK`, `MirrorsSound`, `TypesSound`: facts are true, over blocks of any length (the state space is finite and explored whole) |
| `block_rewrites` | `MCTracking`, `MCRewrites` | 3 registers, 2 values | `AliasesSound`, `OriginalsSound`, `AliasWalksEnd`, `RewritesPreserve` |
| `dataflow` | `MCDataflow`, `MCFlow` | 4 blocks of at most 2 instructions, 3 registers, 4 graphs, predecessors in every order | `TypeOK`, `InputsSound`, `Settled`, `Refines`, `Converges` |
| `passes` | `MCOptimize`, `MCPasses` | the same, a loop and a branch, 2 passes | `PassPreserves`, `PassesEnd`; and `StaysRegular`, which the proof of `PassPreserves` takes for granted |
| `graph` | `MCLayout`, `MCGraph` | every program of 5 instructions: a function of 4 that refers to itself, or one of 2 and a method of 3 that refer to each other through a class | the graph is the code: `TypeOK`, `Disjoint`, `Covers`, `LinksRight`, `BlocksBelong`, `Finishes`; it stays so: `EdgesFollowCode`, `CacheRight`, `DeadCutOff`; what is laid out does what the code did: `LaidOutRight`, `OnlyEntriesMissing` |
| `editing` | `MCAnnotations`, `MCEditing` | 6 instructions in 3 blocks, 1 or 2 functions, inlined bodies of 1 or 2 instructions (one of them a call), `RestartLimit` 2 for 32 | `EditsOnly` (refinement of `Editing`), `OptimizesOrFails`, `LinesKept`, `ScopesKept`, `TypeOK` |
| `frames` | `MCFrames`, `MCFrames` | 3 functions, up to 8 registers, 3 passes for 6 | `BehaviourKept`, `RegistersApart`, `NothingPutOff`, `TypeOK` |
| `whole_program` | `MCLiveness`, `MCLiveness` | programs of 2 to 8 functions and 3 classes, 5 registers, 3 passes for 6, 4 calls in progress | `KeepsCalled`, `InputsHold`, `BehaviourKept`, `Completes`, `TypeOK` |
| `missing_block` | `MCLayout`, `MCMissing` | one program of 5 instructions, a loop at the start of a function | violates `NoBlockMissing` |
| `loop_carried_store` | `MCOptimize`, `MCCarried` | as `passes` | violates `PassPreserves` |
| `optional_parameter` | `MCFrames`, `MCOptional` | a function of one parameter and two optional ones | violates `BehaviourKept` |
| `unseen_call` | `MCLiveness`, `MCUnseen` | 5 programs, bounds as `whole_program` | violates `InputsHold` |

Why the bounds are enough. Three registers are the fewest on which a chain of
copies has a middle that can be overwritten. Facts tell values apart only by
identity and class, so one value of each class that a tracking function
mentions, and one of a class without a rule, exercise each rule. Four blocks are
the fewest for a loop with an entry, a header, a body and an exit, and for a
branch whose ends meet; two instructions per block let each create a fact and
destroy or use it. Two passes are the fewest in which one relies on what the
other left. A function of four instructions has room for two branches that cross
or nest, so that blocks are split while others wait to be built, and for a loop
with an exit; tables of error handlers have up to two targets. Every program of
that size is in the run, and every sequence of decisions about it.

Six instructions in three blocks put a branch before, inside, after and across
the block that grows, with a target that is an insertion point, one before it and
one after it, in a live block or a dead one; a body that holds another call
makes a block grow again and again, so that the limit on restarts is met. In
`frames` the caller has enough registers for one inlined body but not for two,
so that calls are put off and inlined later; a value is in use across both calls,
in a register below, between or above theirs; a third pass finds nothing left.
In `whole_program` the first pass applies no strategy for globals and learns of
what they hold, the second rewrites, the third works on what the second left;
further ones would repeat the third. Each way a value can come to a call has a
program of its own, alone and beside a direct call, with arguments that agree
and that do not; five registers hold the longest call and its receiver, and four
calls in progress are one more than the deepest chain without recursion.

Each run has its bounds in the constants of its `.cfg` and in the definitions of
its `MC` module. No state constraint cuts a run short.

Hypotheses of the passing runs. The analysis is not right about every program:
the violation runs show on which ones it is wrong, and the passing runs state
the condition under which it is right, as operators over the program:
`Regular` in `Dataflow` (see below), `CarriedElsewhere` in `Optimize`, the constants `Reassigned`, `Modified` and
`AllowSelfMove` in `Tracking`. `CFGBuild` assumes what the compiler guarantees
(`ProgramAssumption`): control stays within the code and within a function, and
handlers come after the `pusherr` that names them. There are finitely many
components (`ComponentAssumption`). `Layout` adds that a function
starts with its first instruction (`EntryAssumption`). A violation run drops one
hypothesis of the first three modules (the others of them have further instances,
below); of the parts of `Regular`, `ParametersKept` and `LoadsInside` have one (`MCParameter`,
`MCStored`).
`OnlyEntriesMissing` names the one block layout may fail to find, and
`missing_block` shows that it does. `Insertions` assumes that inlined bodies hold no
branch, which `strategy_inline_function` sees to. `ScopesKept` is about scopes
anchored in a block that is copied (see `MCScopes` below).

`Regular`, the hypothesis of `InputsSound` in the run and in the proof, has five parts:

- `ParametersKept`: no instruction and no call writes a preserved register, which
  `optimize_joinblockinput` takes from the calls at every block. If control can come
  back to the first block, which has the signature's facts and no join, the
  same holds of its optional parameters with a type;
- `Structured`: loops are nested as the compiler nests them, so that `optimize_loopcandidates_visitblock`,
  which compares numbers of blocks, finds each of them at its header;
- `ArgumentsLoaded`: a call's arguments, which the callee may overwrite, are written in
  the same loop, so that `LoopWrites` knows of them (`opcode_overwritesforinstruction`
  only reports the result);
- `UpdatesAlone`: a register that a loop adds to is not written otherwise in it, and
  neither is what is added (`_isintpreservingloopupdate` looks at one instruction);
- `LoadsInside`: where a loop stores or calls, all loads of globals and upvalues are in
  it, so that no copy of one is carried past the header.

`Dataflow` also assumes (`BlockAssumption`, `ProgramAssumption`) that what calls have in
common is a value, its type or a constant, and is known of preserved registers
only (`_optimize_recordcallarg`), and that every block can be reached from the first:
`optimize_blockisreachable` keeps the others out. A store keeps to the type that is
known of its global (`Keeps`), since that type is what the stores of the whole program
have in common (`info.c`).

In `frames`, operands that are ranges do not reach across the end of a callee's
parameters, where inlining would tear them apart, and functions with optional
parameters refer to all of them (`optional_parameter` drops this).

In `whole_program` the hypotheses are in the choice of the programs, each a fact
about the code that a reader should know:

- a function that is not called through a constant is not also called directly
  with another constant (`unseen_call` drops this);
- a global is stored to before it is loaded, as declarations are: the one store of
  a constant decides what every load is rewritten to;
- a global that holds a class is stored to once: after a second store its loads
  tell the search for classes nothing, and the class is found dead;
- the scans read blocks in the order of the code and not along its edges, so of
  `h = f; if (c) h = g; h()` only `g` would be found; no program of the run joins
  two functions in one register;
- a function that calls itself through register 0 passes an argument of the type
  it was given: `recursive` inputs keep their types;
- functions do not reach a call through an element of a list, nor through a
  receiver of `invoke` that nothing else marks.

Findings. The four violation runs are disagreements between the code and what
its comments say; `findings` in `PROJECT.json` quotes the line for each.
`loop_carried_store` and `optional_parameter` end in a wrong program, `unseen_call`
in a fact that is not true and that later strategies rewrite by, `missing_block` in a
branch that layout cannot repair.

Further instances, not among the runs. Each drops one hypothesis of a passing run,
and TLC finds a violation within seconds (`tlc -config <name>.cfg <module>`):

| Configuration, module | Violates | Shows |
|---|---|---|
| `MCOverload`, `MCTracking` | `RewritesPreserve` | A method that an operator runs assigns to a global, and a register still counts as a copy of it; `call_trackingfn` gives such facts up, `arith_trackingfn` does not |
| `MCCaptured`, `MCTracking` | `RewritesPreserve` | A call runs a closure that assigns to a local register, and facts about that register survive |
| `MCSelfMove`, `MCTracking` | `AliasWalksEnd` | After `mov r, r`, the walk to the original register does not end |
| `MCParameter`, `MCDataflow` | `InputsSound` | A parameter that the function assigns to keeps the constant its callers pass |
| `MCStored`, `MCOptimize` | `PassPreserves` | A loop stores to a global, and its header keeps a register as a copy of it |
| `MCMadeUpdate`, `MCOptimize` | `StaysRegular` | Replacing an operand by what it is a copy of makes a sum an update of its own register, in a loop that also loads it: the next pass may hold it to an integer |
| `MCRestarts`, `MCAnnotations` | `RestartsJoined` | A block that is restarted after an insertion starts without facts, not "with freshly joined facts" (`optimize.c:1803`): rewrites are lost, not meaning |
| `MCScopes`, `MCAnnotations` | `FunctionsKept` | A function's first block has no instructions left and is not copied, and with it goes the note that says where the function begins |

Fairness and liveness. The optimizer is one sequential loop that the caller waits
for. So `Dataflow` has weak fairness of its own steps together (`TakeBlock`,
`Simulate`, `LeaveBlock`: exactly one is enabled until the worklist is empty) and
`Optimize` of `Optimizing`; nothing is assumed of the program that runs
afterwards. `CFGBuild` is one loop as well and has weak fairness of its steps, as `Build` in
`Layout` (`Finishes`: the graph is built, whatever cycles components form); the
rewriting and the layout have none, since nothing there is decided by their
models. `Insertions` has weak fairness of its next step,
as has `Liveness` of the optimizer's: one thread, which the caller waits for
(`Frames` states the same of its steps, though no run asks anything of it).
`OptimizesOrFails` says that every block is finished or the limit on restarts
ends it all, `Completes` that the analyses of every pass and both searches end;
the program that runs afterwards need not. `Converges` says that the worklist empties, `PassesEnd` that no block is
rewritten for ever. Deadlock is not checked where a function or a program may
return, nor in `Layout`, `Annotations` and `Frames`, which stop when the program is
laid out or compacted.

## Proofs

`TrackingProofs` proves, for every frame, value, class hierarchy, constant table
and block, each property of `Tracking` that the runs check:

| Theorem | Property |
|---|---|
| `TypeCorrect` | `TypeOK` |
| `MirrorsAreSound` | `MirrorsSound` |
| `AliasesAreSound` | `AliasesSound` |
| `TypesAreSound` | `TypesSound` |
| `OriginalsAreSound` | `OriginalsSound` |
| `RewritesKeepMeaning` | `RewritesPreserve` |
| `WalksEnd` | `AliasWalksEnd` |

They assume what the modules assume of their constants, and `Reassigned = {}`
and `Modified = {}`: code that runs outside the frame assigns to no local of it,
and code inside operators to no global or upvalue. Without the first,
`MCCaptured.cfg` refutes them, without the second `MCOverload.cfg`.
`WalksEnd` also assumes `AllowSelfMove = FALSE` (see `MCSelfMove.cfg`).

The inductive invariant `IInv` says that the facts are well formed, that what
they claim is true of the machine (`Sound`: mirrors, aliases and types
together), that globals have the types the last pass found, and that both
machines are equal. The parts need each other: a copy takes over its source's
mirror, so mirrors need aliases when an operand has been traced back; an
operator's result type needs the operands' types; that the machines stay equal
needs all of them. One lemma per operation on facts (`WriteSound`,
`CopyRegisterSound`, `SetTypeInfoSound`, `InvalidateSound`,
`GeneralizeContentSound`, `WriteValuesSound`) rests on `UpdateSound`, which says
when a list of facts stays true of a machine in which some registers have
changed. `TrackSound` and `TrackCallSound` put them together per instruction,
`FoldedSound`, `ReplacedSound` and `ReloadedSound` say the same of the
strategies, and the step of each action follows. `WalksEnd` is proved from an
invariant of its own: the alias relation has no cycle. A copy drops all aliases
of its destination first, so it can add an edge only from a register nothing
points at.

`DataflowProofs` proves the safety invariants of the analysis, for functions of any
size, with any loops, and whatever order the dictionaries hand blocks out in:

| Theorem | Property | Under |
|---|---|---|
| `TypeCorrect` | `TypeOK` | the assumptions of the modules |
| `StopsAtFixedPoint` | `Settled` | the same |
| `InputsRight` | `InputsSound` | the same, and that all functions are `Regular` |

- The first two rest on `AInv`, which has two parts. `Kinds` is a type invariant
  that is strong enough to be inductive: every fact names a location of the kind its
  contents are, whatever is joined, weakened or tracked. `Progress` is about the
  worklist: a block that waits for no visit has seen what its predecessors end with, and
  every successor of a visited block was visited or waits. Joins do not read all of a
  fact, and `reginfo_equal`, which decides whether successors are queued again, does
  not compare all of it. `EqualFacts` says that facts it calls equal are the same but for
  an index without meaning, which no join looks at, so `InputSame`: with outputs
  that are equal in this sense a block's input is the same. That the worklist is empty only when
  every block was visited follows from `ReachedProofs`: what was visited is closed
  under the links.
- `Weaker` orders facts by what they claim. `JoinFacts` says that a join is weaker than
  both its arguments, `ResolveFacts` and `HeaderFacts` what follows for a block: its
  input is weaker than the output of every predecessor, unless it is a loop
  header and takes one of two shortcuts, for registers the loop does not write and for
  integers it only adds integers to. A weaker fact is true where a stronger one is
  (`WeakerTrue`).
- `Transferred` says that what a block ends with is what tracking makes of what it
  starts from; with `EffectsSound`, one instruction from `StrategiesProofs`, `BlockSound`
  carries truth from the start of a block to its end.
- `Running` is what is true of the machine on its way through the function. That the
  input facts of the block it is at are true of it (`Sound`) is not inductive, because
  of the two shortcuts: what a loop was entered with has to be remembered while the
  machine is inside. So `LoopHolds` says, for each loop the machine is in, that what the
  loop does not write is as it was said at the entry, and that a register held to an
  integer still is one if what is added to it is one. `LoopKeeps` shows the first; here
  `LoadsInside` is needed, and an order on the blocks, to see that no mirror can
  come before a loop that stores (`NoMirrorsBefore`). `SourcesInside` and `OnlyAdds` show
  the second: the last write, which `_isintpreservingloopupdate` looks at, lies in
  the loop, and is by `UpdatesAlone` all that happens to the register there.

`OptimizeProofs` proves that the passes keep what a function does, for functions of any
number of blocks of any length, and for any number of passes:

| Theorem | Property | Under |
|---|---|---|
| `PassesRight` | `PassPreserves` | the assumptions of the modules, and that the function stays as `StaysRegular` says: `Regular` and `CarriedElsewhere` |
| `LooplessStays` | `StaysRegular` | the same assumptions, and that the functions have no loops and do not assign to their parameters (`Loopless`) |
| `LooplessRight` | `PassPreserves` | the same as `LooplessStays` |

`StaysRegular` is about each state, not only the first, because the passes may undo it:
replacing an operand by the register it was copied from can make a sum an update of its
own register (`MCMadeUpdate.cfg` shows one), and a read may go from the block that
`CarriedElsewhere` needs it in. The run `passes` checks that this does not happen to its
functions. A function without loops
stays one, and for it all parts of `StaysRegular` but the one about parameters say
nothing; that part is kept because instructions only come to write less (`ClobbersLess`).
So `LooplessStays` has a hypothesis on the functions that are compiled and none on what
becomes of them, and with it so has `LooplessRight` (`Descends` is the invariant that says they are still those).

`PassPreserves` compares two runs that begin when the rewriting is over. What has
to be said of the code while it is rewritten is that two such runs would agree, without
running them. This is `Good(S, L, p, compiled)`: for each place of the code there is
a set of pairs of machines (`S`) that holds the pair of each machine a call may enter with,
whose pairs at one place lead to pairs at the next when one machine runs the
compiled instruction and the other what is there now (`InStep`), and which at the end of a block
lead to pairs at the start of each of its successors. The second machine may differ there in
registers outside of `L`, those that may be read before they are written; this is how a
store can be missing. The inductive invariant `OInv` has a case for each phase:

- `Gathering`: the function is being analysed; `AInv` of `DataflowProofs` holds and there are
  such sets for the code, with all registers in `L`. The analysis looks at what the last pass left, so nothing
  else is carried over from that pass.
- `Rewriting`: a block is being rewritten up to `pos`. The facts of the analysis hold of
  the machine that runs what the code was when the pass began; what
  is left has to be shown of the code as it is now. So `Known` says that there are sets for it
  whose second machines meet the input facts at the start of each block, and meet the
  facts in hand (`rlist`) at `pos`. `Walked` ties these facts to the code: the
  write a fact names is there and has not been overwritten since, its usage counts each read after it, an
  alias comes from a copy that is still there. `Fit` says that only the current block differs
  from what its neighbours have recorded of their usage.
- `Comparing`: the passes are over, the sets are there, and the two machines are one of
  the pairs at the place they are at. `ShowsTheSame` concludes `PassPreserves`.

The steps come in three groups:

- Rewriting one instruction (`RewriteKnown`). `RewriteStandsIn` says that what takes its
  place does the same on a machine the facts are true of; the sets stay, and `L` as well,
  for it reads only what the block has read or written before it (`Patched`). That needs
  `MentionedMet`: a register that a fact leads to was met in the block or is an input of it.
- Leaving stores out (`Deleted`, with `LeftOut` for a block). A store before another one
  of the same register, or a copy whose reader now reads its source, is missed by nobody as long as the
  block does not read the register in between (`Idle`). A store at the end of its block
  has to be outside of what successors read: `AheadFacts` says what
  `optimize_checkdestusage` has seen when it finds nothing, and `OnCycle` that the one
  block it never asks, the one it starts from, lies on a loop when control
  comes back to it; there `CarriedElsewhere` says that another block would have
  been found to read the register. The pairs are narrowed to those registers in `Spared`.
- Going on: `TrackedStands` for the facts after an instruction, `FreshWalked` for a
  block that starts over with the facts of its input, `GoodStart`, `GoodEntered` and
  `GoodLoose` for the next block and the next pass. When the analysis of a pass ends, its facts are put to use (`BeginHolds`):
  `ComesFirst`, `ComesOn` and `ComesNext` run the lemmas behind `InputsRight` along all
  paths at once, for the second machines of the pairs.

`LayoutProofs` begins with `TypeCorrect`, the type invariant of `CFGBuild`, for every
set of programs that meets `ProgramAssumption`: a block never ends before it
starts, though splits shorten it, every block that is built was planned, and
links lead to blocks. Its `IInv` adds that a scan is never before the start of
its block, that there are targets only while a block is open, and that there are
blocks to build only once there is a function for them; without the first,
`EndBlock` could add an empty block.

It proves every invariant of the graph's life that the run `graph`
checks, from the first block found to the code laid out, for programs of any
size:

| Of | Theorem | Property |
|---|---|---|
| `CFGBuild` | `BlocksApart` | `Disjoint` |
| | `BlocksInFunctions` | `BlocksBelong` |
| | `BlocksLinked` | `LinksRight` |
| | `BlocksCover` | `Covers` |
| `Repair` | `EdgesRight` | `EdgesFollowCode` |
| | `CacheCorrect` | `CacheRight` |
| | `CutOffStaysOut` | `DeadCutOff` |
| | `GraphStaysRight` | the four of `CFGBuild`, while the code is rewritten |
| `Layout` | `LayoutFinds` | `OnlyEntriesMissing` |
| | `LayoutRight` | `LaidOutRight` |

They assume `ProgramAssumption` (control stays in the program, handlers come
after the instruction that installs them), `ComponentAssumption` (a program has
finitely many components) and, for the layout, `EntryAssumption` (no code of a
function comes before its entry: the compiler's order, on which the copying loop
relies).

- `ReachedProofs` is about `ReachedFrom`, the set a search of a graph finds: the
  least set that contains the roots and is closed under the links. All else uses
  it through that, never through its recursion.
- The part on the building rests on `GInv`. None of the four is inductive: that two blocks
  are disjoint while one is being scanned needs to know that no start, built or
  planned, lies between the open block's start and the scan (`Partition`,
  `Apart`); a split shortens a built block whose rest is then nobody's until its
  start comes off the worklist, so the code that is covered has to include what is
  planned (`SplitComing`, `OwnSplitComing`); and that in the end nothing is
  missing needs, of each block that is done, that all its ways lead to starts
  (`SuccessorsPlanned`) or to targets still in hand (`TargetsLeft`). `FinishedLinks` and `FinishedCovers` draw
  the conclusions when all the worklists are empty.
- The part on the repairs rests on `RInv`: `GInv`, which the rewriting cannot disturb, and
  that an instruction is what it was, a no-operation, or a conditional branch made
  unconditional. The last matters: because nothing gains a way to go, links are
  only ever removed (`edges[s] \subseteq dest[s]`), and what has become unreachable
  stays so.
- The part on the layout compares two graphs: that of the old code and that of the new,
  each restricted to the instructions control passes through without a trace
  (no-operations and branches). `Place` maps one to the other; `Moved` says what
  such a map has to satisfy and `MovedGraph` that then what is reached from the
  place of an instruction are the places of what is reached from it. The proof
  that `Place` satisfies it is about the copying loop: instructions copied keep
  their order (`BelowBijection`), what lies between two of them was left out
  because it does nothing, and an edge a branch needs leads to a block that was copied or
  the layout is given up (`Missing`). `LInv` adds that a layout, once made, is that of the code as it
  is: nothing is rewritten after it.

`InsertionsProofs` proves, for blocks, bodies and programs of any size, what the
run `editing` checks of `Insertions` without fairness:

| Theorem | Property |
|---|---|
| `TypeCorrect` | `TypeOK` |
| `EditsRight` | `EditsOnly`: `Insertions` implements `Editing` |
| `StaysRight` | the inductive invariant they rest on |

They assume `InsertionsAssumption`: blocks are in the order of the code
(`cfgraph_sort`), entries, notes and branches name places that are in it, and only
notes for source lines count instructions; the body of an
inlined function is not empty and holds no branch, since
`_strategy_inlineinstruction` takes functions of one block and leaves out what
ends it; and the instructions of the program are named by the places they were
at. The inductive invariant (`JInv`) has four parts. The program is well formed
after every edit (`WellFormed`). No two instructions have one name, and those
inserted later have greater ones (`Named`). There is no insertion point, or
exactly one, in the block being optimized, with its instructions in the buffer
(`OnePoint`): `optimize_processinsertions` is written for any number of points,
and `EditsOnly` would be false of two, which `Editing` could only follow in two
steps. What the pass is about to do fits what it has done (`Turn`).

The operators of `Insertions` count: how much the code before a place has grown,
how many places the notes before it cover. Such sums are recursive functions, and
no theorem of the library can be used for them, so each is first shown to exist
and then to have the value that was guessed, by the least number for which it
does not (`LeastNumber`, `Upward`). With one insertion point the growth is
nothing before it and `n-1` after it, a place `i` goes to `Moved(p, n, i)`, and
`Inserted(p, n)` says what has become of the code, the blocks, the entries and the notes.
`OneCovers` says that a place is covered by one note, so that lines
can be compared by name. The step of `ProcessInsertions` is then one `Edit`
(`ProcessEdits`), field by field of the mapping (`GoesMove`, `LinesMove`,
`TextMoves`); leaving an insertion point is not seen by name (`PointUnseen`), and all
else stutters.

The second half of `InsertionsProofs` proves, of the layout of each program that the
insertions can leave, what the run `editing` checks of `Annotations`:

| Theorem | Property |
|---|---|
| `LinesStay` | `LinesKept` |
| `ScopesStay` | `ScopesKept` |
| `LaysRight` | the invariant they rest on, `LaidInv` |

They assume no more. The layout is one action, and its
correctness is that of a scan over all the code, so the invariant that matters is one
of the scan, not of the specification: `Written(s, F, i)` says, after place `i`, when
the instructions at the places `F` were copied and the notes written so far are `s.out`,
that the notes and the count in hand (`s.count`, of note `s.current`) cover just `Len(F)`
instructions; that each of these has the line of the place it came from, by a note
that is written or by the one in hand; that each is in the scope it was in; and that
if scopes wait, the last of them is the one place `i` is in, while if none waits the
last scope written is. The two halves need each other: a scope
must not be written before the count of the lines before it is (`annotationfixer_flush`
comes before `annotationfixer_append`), or it would take these in. `FlushKeeps`, `WriteKeeps`
and `CountKeeps` are its steps; `NopKeeps` and `RealKeeps` put them together for an
instruction that is left out or copied, `BlockKeeps` for a block, also an empty one, which
counts for the nop that it keeps, and `LaidRight` for the program. Sums of
counts over a sequence that is appended to are `SumsBegin` and `NoteAdds`. `Right` is what is left of it
at the end; that it stays true needs that nothing is inserted after the layout (`LaidInv` says that
all blocks are finished by then).

`FramesProofs` proves, for programs of any number of functions, blocks and registers, and
any number of passes:

| Theorem | Property |
|---|---|
| `FramesTypeCorrect` | `TypeOK` |
| `FramesApart` | `RegistersApart` |

They assume `FramesAssumption`, which is about compiled programs: code stays within
the registers of its function; what is called, and the arguments after it, lie
above the parameters; a range of registers (the parts of an interpolated string, the indices
of an element) does not begin among the parameters and end above them. The compiler
gathers the registers of calls and ranges anew, above all locals, which gives the
second and the third. They matter because both rewrites treat parameters apart:
inlining leaves these where the arguments are and moves the others above all that is
used, so a window or a range that lay across would be torn; compaction keeps all of the
parameters.

- `TypeOK` is inductive: its largest part, `IsFunction`, is the same condition on code, so it
  says that what is inlined or renumbered is again what a compiler could have made.
  `CallFits` is why the body fits in. A caller has as many registers as
  `Needs` says, so what the callee's registers become is in its frame
  (`InlineRegisterRange`); a window or a range of the callee is on one side of its
  parameters, where the map adds a constant, so it stays a window or a range
  (`InlineMoves`), and lies above the caller's parameters since the call's own window
  does. `InlinedInstruction` and `BodyInlined` say so of an instruction and a body,
  `ReplacedRight` of the block.
- `FramesApart` uses three facts of an inlined body: the map is one-to-one
  (`InlineRegisterApart`), its values are in the frame, and those outside of the call's window are
  above the last register that is used after the call (`HighestRight`).
- Compaction gives a register its rank among those that are used. Ranks keep the order, so the
  map is one-to-one; that there is no used register between two neighbours in an interval
  makes the ranks of an interval that is used an interval (`RankInterval`),
  which is why windows and ranges need no case of their own in
  `_optimize_remapinstruction`; and since the parameters are used, their ranks are they
  themselves (`RankOfFirst`). `FrameCut` and `FrameRenumbered` say that the new size of
  the frame is enough and never more than the old one.

Only model-checked, and why:

- `Dataflow.Refines`: that a block visited again starts from no less than before is a
  statement about the order the worklist and the joins happen to take; no invariant
  was found that implies it for graphs of any size, and the other theorems do not need
  it.
- `Optimize.StaysRegular` of functions with loops: it is not true of all of them, and no
  condition on the compiled function was found that is weaker than having no loops and
  that each strategy keeps.
- `Inputs` and `Liveness`: what they claim holds of the programs that meet the
  hypotheses above, which are choices of the run and not yet formulas to prove from.
- `Frames.BehaviourKept`: the machine is a recursive operator, and nothing can be proved in a
  module that has one. It is kept apart in `FramesRun`, so that what the property rests on
  can be proved of `Frames`.
- `Frames.NothingPutOff`: it depends on how deep calls are nested. A call that is put off is
  inlined in the next pass, but may bring others with it, so programs whose calls nest deeper than
  there are passes end with some that were put off.
- Liveness (`Converges`, `PassesEnd`, `Finishes`, `OptimizesOrFails`, `Completes`) is
  beyond the prover, and with it the fairness of the specifications: the theorems
  hold of the specifications without it, and so of those with it.

## Not modelled

- The evaluator and the virtual machine: external. What the machine does is taken from how
  the optimizer relies on it.
- Of the strategies: algebraic identities (`x + 0` and the like), calls of
  constructors and constant methods that are run at once, powers and ranges,
  loads from lists, and the reduction of overloaded functions. They rest on facts of the
  kinds that are modelled; what they add is knowledge of the Morpho library.
- Metafunctions that are reduced while calls are tracked, with the flags and counts
  kept for them; declared types of parameters.
- The composition of all strategies in one block: `Optimize`, `Insertions`, `Frames` and
  `Inputs` each apply their own, so that what one strategy does to the facts
  of another is seen only within each group. The same holds of loops in several
  functions at once.
- Places in facts (`reginfo.iindx`) when the code before them grows: `Insertions` keeps no
  facts.
- Captured locals in `Optimize`.
- Verbose output, memory management, and the earlier optimizer in `src/old`, which is not
  built.

Worth proving next: a hypothesis on functions with loops from which `StaysRegular`
follows; the type invariants of `Inputs` and `Liveness`; and, with the hypotheses of the run
`whole_program` written as formulas, `InputsHold`.
