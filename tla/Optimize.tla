------------------------------ MODULE Optimize ------------------------------
(***************************************************************************)
(* Optimization passes over one function (optimize, optimize_pass and      *)
(* optimize_block of src/src/optimize.c): the dataflow analysis, then each *)
(* block in turn, rewritten instruction by instruction on the strength of  *)
(* what the analysis found out, with stores whose value nobody reads       *)
(* deleted, until nothing changes any more.                                *)
(*                                                                         *)
(* When the passes are over the function runs twice, side by side: as it   *)
(* was compiled and as it was left. The optimizer is right if all that     *)
(* other code or the user can see of the two runs is the same.             *)
(***************************************************************************)
EXTENDS Dataflow, Strategies

CONSTANT Passes       \* how often the function is gone over

ASSUME PassAssumption == Passes \in Nat \ {0}

VARIABLES
  original,   \* the code as compiled; prog.code is what it has become
  pass,       \* opt->pass
  blk,        \* opt->currentblk of optimize_block; NoBlock while facts are
              \* gathered, NBlock when the last pass is over
  changed,    \* whether opt->nchanged is not 0
  uses, writes, \* block.uses and block.writes
  target      \* the machine that runs prog.code, where `machine' runs original

own == <<original, pass, blk, changed, uses, writes, target>>

-----------------------------------------------------------------------------
(***************************************************************************)
(* Which registers are read where.                                         *)
(***************************************************************************)
\* block_computeusage: what a block reads before it has written it.
BlockUses(p, b) ==
  UNION {Used(p.code[b][i]) \ UNION {Overwritten(p.code[b][j]) : j \in 1 .. i - 1} :
           i \in DOMAIN p.code[b]}

\* The ways from each block to those that do not touch register r.
Through(r) == [s \in Block |-> {d \in ToSet(prog.dest[s]) : r \notin uses[d] \cup writes[d]}]

\* optimize_checkdestusage: some block that control reaches from b through
\* blocks that do not write r reads r. Block b itself is not looked at.
CheckDestUsage(b, r) ==
  \E s \in ReachedFrom({b}, Through(r)) :
    \E d \in ToSet(prog.dest[s]) : d # b /\ r \in uses[d]

\* optimize_isused: what instructions after position k of the block do with r.
IsUsed(code, k, r) ==
  LET later == {j \in DOMAIN code : j > k}
  IN  \/ \E j \in later : /\ r \in Used(code[j])
                          /\ \A i \in later : i < j => r \notin Overwritten(code[i])
      \/ /\ \A j \in later : r \notin Overwritten(code[j])
         /\ CheckDestUsage(blk, r)

-----------------------------------------------------------------------------
(***************************************************************************)
(* Deleting stores. A block is given by its code, and the position of a    *)
(* fact's source in it.                                                    *)
(***************************************************************************)
Inside(b) == {PcOf(b, k) : k \in DOMAIN prog.code[b]}

Source(rl, r) == (rl[r].iindx % Width) + 1

Delete(code, ks) == [k \in DOMAIN code |-> IF k \in ks THEN Nop ELSE code[k]]

\* optimize_candeletedeadstore, and that optimize_deleteinstruction succeeds.
CanDelete(rl, i, r) ==
  \/ i[1] \in {"mov", "lct"}
  \/ i[1] = "arith" /\ rl[r].type \in {IntType, FloatType}

\* Mutant: a store counts as read only if what it replaced was not.
UnreadIfReadBefore(rl, code, r) ==
  /\ rl[r].contents # "nofact"
  /\ rl[r].usage # "read"
  /\ rl[r].iindx \in Inside(blk)
  /\ CanDelete(rl, code[Source(rl, r)], r)

\* What both eliminations of dead stores ask of register r.
Unread(rl, code, r) ==
  /\ rl[r].contents # "nofact"
  /\ rl[r].usage \notin {"read", "readwritten"}
  /\ rl[r].iindx \in Inside(blk)
  /\ CanDelete(rl, code[Source(rl, r)], r)

\* Mutant: a store counts as dead at the end of its block.
DeadAtBlockEnd(rl, code) ==
  {r \in writes[blk] : Unread(rl, code, r) /\ ~IsPreservedEntryRegister(r)}

\* optimize_dead_store_elimination, at the end of a block.
DeadAtEnd(rl, code) ==
  {r \in writes[blk] : /\ Unread(rl, code, r)
                       /\ ~IsPreservedEntryRegister(r)
                       /\ ~CheckDestUsage(blk, r)}

\* strategy_dead_store_elimination: instruction i overwrites them.
DeadBefore(rl, code, i) == {r \in Overwritten(i) : Unread(rl, code, r)}

\* _strategy_cleanupaliassource: the copy into register `old' is not needed
\* once the instruction at position k reads `new' in its place.
NeedsNoCopy(rl, code, k, old, new) ==
  /\ old # new
  /\ rl[old].iindx \in Inside(blk)
  /\ LET src == Source(rl, old)
     IN  /\ code[src][1] = "mov" /\ code[src][2] = old
         /\ \A j \in src + 1 .. k : old \notin Used(code[j])
         /\ ~IsUsed(code, k, old)

CleanUp(s, k, old, new) ==
  IF NeedsNoCopy(s.rl, s.code, k, old, new)
  THEN [code |-> Delete(s.code, {Source(s.rl, old)}),
        rl   |-> Write(s.rl, PcOf(blk, k), old, "nofact", NoIndex)]
  ELSE s

-----------------------------------------------------------------------------
\* Mutant: register replacement succeeds if there is a register to replace.
SucceedsOnReads(rl, i) == Reads(i) # {}

\* Whether a strategy that rewrites the instruction itself succeeds.
Succeeds(rl, i) == Rewrite(rl, i, Inside(blk)) # i

\* strategy_optimizeinstruction for the current instruction, when the facts are
\* rl: the code of the block and the facts it leaves.
Optimized[rl \in RegInfoList] ==
  LET code == prog.code[blk]
      i    == code[pos]
      new  == Rewrite(rl, i, Inside(blk))
      dead == DeadBefore(rl, code, i)
      replaced == [code |-> [code EXCEPT ![pos] = new], rl |-> rl]
      Clean(s, f) == IF f \in Reads(i) THEN CleanUp(s, pos, i[f], new[f]) ELSE s
  IN  CASE Folds(rl, i)               -> replaced
        [] ~Folds(rl, i) /\ dead # {} ->
             [code |-> Delete(code, {Source(rl, r) : r \in dead}), rl |-> rl]
        [] ~Folds(rl, i) /\ dead = {} /\ new[1] = i[1] /\ new # i ->
             Clean(Clean(Clean(replaced, 2), 3), 4)
        [] OTHER                      -> replaced

-----------------------------------------------------------------------------
\* The facts that a block's rewriting starts from (optimize_loadblockinput).
LoadBlockInput(b) ==
  /\ blk' = b
  /\ rlist' = rin[b]
  /\ pos' = 1
  /\ changed' = FALSE

OptimizeInit ==
  /\ Init
  /\ original = prog.code
  /\ pass = 0
  /\ blk = NoBlock
  /\ changed = FALSE
  /\ uses = [b \in Block |-> BlockUses(prog, b)]
  /\ writes = [b \in Block |-> BlockWrites(prog, b)]
  /\ target = machine

Analyse ==
  /\ blk = NoBlock
  /\ TakeBlock \/ Simulate \/ LeaveBlock
  /\ UNCHANGED own

BeginRewriting ==
  /\ blk = NoBlock /\ current = NoBlock /\ worklist = <<>>
  /\ LoadBlockInput(Entry)
  /\ UNCHANGED <<prog, loopblocks, worklist, visited, rin, rout, current, machine, at,
                 original, pass, uses, writes, target>>

\* One turn of the loop over a block: uses are counted, a strategy may change
\* the instruction, whose uses are then counted as well, and it is tracked.
OptimizeInstruction ==
  /\ blk \in Block /\ pos <= Len(prog.code[blk])
  /\ LET code == prog.code[blk]
         read == MarkUsed(rlist, code[pos])
         s    == Optimized[read]
         done == s.code # code \/ Succeeds(read, code[pos])
     IN  /\ prog' = [prog EXCEPT !.code[blk] = s.code]
         /\ changed' = (changed \/ done)
         /\ rlist' = TrackAny(MarkUsed(s.rl, s.code[pos]), PcOf(blk, pos), s.code[pos])
  /\ pos' = pos + 1
  /\ UNCHANGED <<loopblocks, worklist, visited, rin, rout, current, machine, at,
                 original, pass, blk, uses, writes, target>>

\* At its end stores nobody reads are deleted, and it starts over if anything
\* has changed.
RepeatBlock ==
  /\ blk \in Block /\ pos > Len(prog.code[blk])
  /\ LET dead == DeadAtEnd(rlist, prog.code[blk])
     IN  /\ changed \/ dead # {}
         /\ prog' = [prog EXCEPT !.code[blk] = Delete(@, {Source(rlist, r) : r \in dead})]
  /\ LoadBlockInput(blk)
  /\ UNCHANGED <<loopblocks, worklist, visited, rin, rout, current, machine, at,
                 original, pass, uses, writes, target>>

\* Otherwise its usage is computed again and the next block's turn comes, or
\* the next pass, which starts with an analysis of its own.
FinishBlock ==
  /\ blk \in Block /\ pos > Len(prog.code[blk])
  /\ ~changed /\ DeadAtEnd(rlist, prog.code[blk]) = {}
  /\ uses' = [uses EXCEPT ![blk] = BlockUses(prog, blk)]
  /\ writes' = [writes EXCEPT ![blk] = BlockWrites(prog, blk)]
  /\ IF blk + 1 < NBlock
     THEN LoadBlockInput(blk + 1) /\ UNCHANGED <<pass, worklist, visited>>
     ELSE /\ pass' = pass + 1
          /\ blk' = IF pass' < Passes THEN NoBlock ELSE NBlock
          /\ worklist' = IF pass' < Passes THEN <<Entry>> ELSE <<>>
          /\ visited' = IF pass' < Passes THEN {} ELSE visited
          /\ UNCHANGED <<rlist, pos, changed>>
  /\ UNCHANGED <<prog, loopblocks, rin, rout, current, machine, at, original, target>>

\* The function is called, once as compiled and once as optimized,
CallBoth ==
  /\ blk = NBlock /\ at = NotCalled
  /\ machine' \in Entering
  /\ target' = machine'
  /\ at' = Entry /\ pos' = 1
  /\ UNCHANGED <<prog, loopblocks, worklist, visited, rin, rout, current, rlist,
                 original, pass, blk, changed, uses, writes>>

\* and the two run in step. Code that is called does the same in both, as long
\* as it is given the same.
RunBoth ==
  /\ at \in Block /\ pos <= Len(original[at])
  /\ Keeps(machine, original[at][pos])
  /\ LET i == original[at][pos]
         j == prog.code[at][pos]
     IN  IF i[1] = "call"
         THEN \E o \in Results(machine, i) : machine' = After(machine, o)
                                             /\ target' = After(target, o)
         ELSE machine' = Exec(machine, i) /\ target' = Exec(target, j)
  /\ pos' = pos + 1
  /\ UNCHANGED <<prog, loopblocks, worklist, visited, rin, rout, current, rlist, at,
                 original, pass, blk, changed, uses, writes>>

BranchBoth ==
  /\ at \in Block /\ pos > Len(original[at])
  /\ at' \in IF prog.dest[at] = <<>> THEN {Returned} ELSE ToSet(prog.dest[at])
  /\ pos' = 1
  /\ UNCHANGED <<prog, loopblocks, worklist, visited, rin, rout, current, rlist,
                 machine, own>>

Optimizing ==
  Analyse \/ BeginRewriting \/ OptimizeInstruction \/ RepeatBlock \/ FinishBlock

OptimizeNext == Optimizing \/ CallBoth \/ RunBoth \/ BranchBoth

OptimizeSpec == OptimizeInit /\ [][OptimizeNext]_<<vars, own>> /\ WF_<<vars, own>>(Optimizing)

-----------------------------------------------------------------------------
\* What a block of a loop reads before it writes it, one of the blocks it
\* branches to reads as well. See the run that drops this.
CarriedElsewhere(p) ==
  \A h \in Block : \A b \in LoopBlocks(p, h) :
    \A r \in BlockWrites(p, b) \cap BlockUses(p, b) :
      \E d \in ToSet(p.dest[b]) \ {b} : r \in BlockUses(p, d)

-----------------------------------------------------------------------------
(***************************************************************************)
(* Properties.                                                             *)
(***************************************************************************)
\* What an instruction lets the rest of the program see of a machine.
Shows(m, i) ==
  CASE i[1] = "print"          -> <<m.regs[i[2]]>>
    [] i[1] = "sup"            -> <<m.regs[i[3]]>>
    [] i[1] = "call"           -> [k \in 0 .. i[3] |-> m.regs[i[2] + k]]
    [] OTHER                   -> <<>>

\* Whatever path a call of the function takes, the optimized code prints what
\* the compiled code prints, gives every call the same arguments, and leaves
\* the same in all globals and upvalues, at the same point of the path.
PassPreserves ==
  at \in Block =>
    /\ target.glob = machine.glob /\ target.upv = machine.upv
    /\ pos <= Len(original[at]) =>
         Shows(target, prog.code[at][pos]) = Shows(machine, original[at][pos])

\* What one pass leaves, the next one analyses: as it rewrites the code, the function
\* stays one that the analysis is right about and whose stores are found to be read.
StaysRegular == Regular(prog) /\ CarriedElsewhere(prog)

\* A pass rewrites a block until nothing changes: that comes to an end, for
\* every block and in every pass.
PassesEnd == <>(blk = NBlock)
=============================================================================
