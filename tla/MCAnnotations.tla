--------------------------- MODULE MCAnnotations ---------------------------
(***************************************************************************)
(* Instances of Annotations for TLC: programs of six instructions in three *)
(* blocks, of one function or two. A block may end in a branch back, into  *)
(* the middle or over another one, or begin an error handler.              *)
(***************************************************************************)
EXTENDS Annotations

CONSTANTS f1, f2

Block(k, fn) == [start |-> 2 * k - 1, end |-> 2 * k, ostart |-> 2 * k - 1, func |-> fn]

\* A branch at place i to the start of block k.
BranchTo(i, k) == Instr(i, "b", 2 * k - 1 - (i + 1))
Plain(i) == Instr(i, "plain", 0)
NopAt(i) == Instr(i, "nop", 0)

Element(l, n) == [type |-> "element", what |-> l, n |-> n]
Scope(fn)     == [type |-> "scope", what |-> fn, n |-> 0]

MCBodies == {<<"plain">>, <<"call", "plain">>}

Firsts == {Instr(1, op, 0) : op \in {"call", "invoke", "nop"}}
Thirds == {Instr(3, op, 0) : op \in {"invoke", "nop"}}
Fifths == {Instr(5, op, 0) : op \in {"call", "nop"}}

\* The last instructions of the blocks, in one function of three blocks.
SecondsOfOne == {NopAt(2), BranchTo(2, 1), BranchTo(2, 2), BranchTo(2, 3), Instr(2, "try", 5)}
FourthsOfOne == {NopAt(4), BranchTo(4, 2)}
SixthsOfOne  == {Plain(6), BranchTo(6, 1)}

\* Of two functions, the second of one block.
SecondsOfTwo == {Plain(2), BranchTo(2, 2), Instr(2, "try", 3)}
FourthsOfTwo == {Plain(4), BranchTo(4, 1)}
SixthsOfTwo  == {Plain(6), BranchTo(6, 3)}

OneFunction ==
  {[code  |-> <<x[1], x[2], x[3], x[4], x[5], x[6]>>,
    blk   |-> <<Block(1, f1), Block(2, f1), Block(3, f1)>>,
    entry |-> f1 :> 1,
    notes |-> <<Scope(f1), Element("l1", 1), Element("l2", 3), Element("l3", 2)>>,
    live  |-> x[7]] :
     x \in Firsts \X SecondsOfOne \X Thirds \X FourthsOfOne \X Fifths \X SixthsOfOne \X {{1, 2, 3}, {1, 3}}}

TwoFunctions ==
  {[code  |-> <<x[1], x[2], x[3], x[4], x[5], x[6]>>,
    blk   |-> <<Block(1, f1), Block(2, f1), Block(3, f2)>>,
    entry |-> (f1 :> 1) @@ (f2 :> 5),
    notes |-> <<Scope(f1), Element("l1", 2), Element("l2", 2), Scope(f2), Element("l1", 1), Element("l4", 1)>>,
    live  |-> x[7]] :
     x \in Firsts \X SecondsOfTwo \X Thirds \X FourthsOfTwo \X Fifths \X SixthsOfTwo \X {{1, 2, 3}, {1, 3}}}

\* A block that cannot be reached is none that another goes to.
Reached(p) ==
  2 \notin p.live =>
    /\ p.code[2].op \notin {"nop", "try"} /\ p.code[2] # BranchTo(2, 2)
    /\ p.code[6] # BranchTo(6, 2)

MCPrograms == {p \in OneFunction \cup TwoFunctions : Reached(p)}

\* fn f2() { if (true) ... }, once the branch is decided: its entry is empty.
MCEmptyEntry ==
  {[code  |-> <<Plain(1), Plain(2), NopAt(3), NopAt(4), Plain(5), Plain(6)>>,
    blk   |-> <<Block(1, f1), Block(2, f2), Block(3, f2)>>,
    entry |-> (f1 :> 1) @@ (f2 :> 3),
    notes |-> <<Scope(f1), Element("l1", 2), Scope(f2), Element("l2", 2), Element("l3", 2)>>,
    live  |-> {1, 2, 3}]}
=============================================================================
