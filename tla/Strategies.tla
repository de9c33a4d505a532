----------------------------- MODULE Strategies -----------------------------
(***************************************************************************)
(* The strategies of src/src/strategy.c that rewrite one instruction on the*)
(* strength of the facts about its operands: constant folding, register    *)
(* replacement, self-copy elimination and duplicate load.                  *)
(***************************************************************************)
EXTENDS Opcodes

-----------------------------------------------------------------------------
(***************************************************************************)
(* What optimize.c reads off the facts.                                    *)
(***************************************************************************)
\* The registers the walk of optimize_findoriginalregister visits from r: the
\* least set that holds r and, with a register, the one it is an alias of.
Chain(rl, r) ==
  {x \in Reg : \A S \in SUBSET Reg :
     r \in S /\ (\A y \in S : rl[y].alias # NoReg => rl[y].alias \in S) => x \in S}

\* The walk stops at a register that is no alias, or is an alias of r.
WalkEnds(rl, r) == {x \in Chain(rl, r) : rl[x].alias \in {NoReg, r}}

FindOriginalRegister(rl, r) == CHOOSE x \in WalkEnds(rl, r) : TRUE

-----------------------------------------------------------------------------
(***************************************************************************)
(* The strategies (src/src/strategy.c), in the order of their table. Each  *)
(* gives the instruction that replaces i.                                  *)
(***************************************************************************)
\* strategy_constant_folding: an operation on constants becomes its result.
Folds(rl, i) ==
  /\ i[1] \in {"arith", "compare"}
  /\ IsConstant(rl, i[3]) /\ IsConstant(rl, i[4])

Folded(rl, i) ==
  Lct(i[2], IF i[1] = "arith" THEN Arith[rl[i[3]].indx][rl[i[4]].indx]
                              ELSE Compare[rl[i[3]].indx][rl[i[4]].indx])

\* Mutant: an operator's destination counts as a register it reads.
ReadsDestination(i) == CASE i[1] \in {"mov", "sup"}       -> {3}
                         [] i[1] \in {"arith", "compare"} -> {2, 3, 4}
                         [] i[1] = "print"                -> {2}
                         [] OTHER                         -> {}

\* strategy_register_replacement: the fields of i that name a register it
\* reads and no register it writes, and i with those fields traced back.
Reads(i) == CASE i[1] \in {"mov", "sup"}         -> {3}
              [] i[1] \in {"arith", "compare"}   -> {3, 4}
              [] i[1] = "print"                  -> {2}
              [] OTHER                           -> {}

\* The strategy returns only if every walk over an alias chain does.
Returning(rl, i) == \A f \in Reads(i) : WalkEnds(rl, i[f]) # {}

Replaced(rl, i) ==
  LET new == [f \in 1..4 |-> IF f \in Reads(i) THEN FindOriginalRegister(rl, i[f])
                                               ELSE i[f]]
  IN  IF new[1] = "mov" /\ new[2] = new[3] THEN Nop ELSE new

\* strategy_self_copy_elimination.
SelfCopy(i) == i[1] = "mov" /\ i[2] = i[3]

\* strategy_duplicate_load: the first register that already holds what a load
\* fetches, by an instruction of the same block (those Inside it); a load into
\* that very register goes away.
LoadKind == [lgl |-> "global", lct |-> "constant", lup |-> "upvalue"]

Holders(rl, i, Inside) ==
  {r \in Reg : /\ i[1] \in DOMAIN LoadKind
               /\ rl[r].contents = LoadKind[i[1]]
               /\ rl[r].indx = i[3]
               /\ rl[r].iindx \in Inside}

Reloaded(rl, i, Inside) ==
  LET from == Holders(rl, i, Inside)
      r    == CHOOSE r \in from : \A s \in from : r <= s
  IN  IF r = i[2] THEN Nop ELSE Mov(i[2], r)

\* strategy_optimizeinstruction: the first strategy that succeeds is the last.
Rewrite(rl, i, Inside) ==
  CASE Folds(rl, i)                                        -> Folded(rl, i)
    [] ~Folds(rl, i) /\ Replaced(rl, i) # i                -> Replaced(rl, i)
    [] ~Folds(rl, i) /\ Replaced(rl, i) = i /\ SelfCopy(i) -> Nop
    [] Holders(rl, i, Inside) # {}                         -> Reloaded(rl, i, Inside)
    [] OTHER                                               -> i
=============================================================================
