----------------------------- MODULE Insertions -----------------------------
(***************************************************************************)
(* Inserting code (optimize_block and optimize_processinsertions,          *)
(* src/src/optimize.c). A strategy cannot make room for more than one      *)
(* instruction: it leaves an insertion point in the code and the new       *)
(* instructions in a buffer. The block is then rebuilt, what follows it is *)
(* moved, and everything that knows a place in the code is put right:      *)
(* branches, blocks, the entries of functions and the counts of            *)
(* instructions of each source line. Then the block is optimized again.    *)
(*                                                                         *)
(* What strategies do otherwise is left out; which calls they resolve or   *)
(* inline, and what the inlined function consists of, is up to them. The   *)
(* source counts instructions from 0, this module from 1.                  *)
(***************************************************************************)
EXTENDS Integers, SequencesExt

CONSTANTS
  Programs,      \* programs to optimize: code, blocks, entries, notes, live blocks
  Bodies,        \* what inlined functions consist of: sequences of operations
  RestartLimit   \* how often a block may be restarted (32)

VARIABLES
  code,       \* the instructions: a name, an operation and its operand
  blk,        \* the blocks, in the order of the code, with their function
  entry,      \* where each function starts
  notes,      \* annotations: source lines, with counts of instructions, and scopes
  live,       \* the blocks that can be reached
  buffer,     \* instructions to be inserted (insertions)
  cur,        \* the block being optimized
  restarts,   \* how often it was restarted
  joined,     \* the blocks that have the facts the analysis found
  named,      \* names given to instructions so far
  status      \* "working", "done" or "error"

ivars == <<code, blk, entry, notes, live, buffer, cur, restarts, joined, named, status>>

\* Operations, as far as they differ here: inserting code looks at branches, handlers of
\* errors and insertion points, and strategies at calls of functions and methods.
Operations == {"plain", "nop", "b", "try", "call", "method", "invoke", "insert", "insert_restart"}

\* An instruction. The operand of a branch is its offset, that of an insertion point
\* the number of instructions to insert, that of "try" the place a handler had in
\* the original program.
Instr(id, op, arg) == [id |-> id, op |-> op, arg |-> arg]

IsInsertion(i) == i.op \in {"insert", "insert_restart"}
Extent(b) == b.start .. b.end

-----------------------------------------------------------------------------
(***************************************************************************)
(* Source lines. A note gives the number of instructions it is about, in   *)
(* order; that of a scope (a function, a class) is none.                   *)
(***************************************************************************)
SumN(s, k) ==
  LET sum[j \in 0 .. Len(s)] == IF j = 0 THEN 0 ELSE sum[j - 1] + s[j].n IN sum[k]

Covers(s, j, i) == SumN(s, j - 1) < i /\ i <= SumN(s, j)

\* The source line of place i.
LineAt(s, i) == s[CHOOSE j \in DOMAIN s : Covers(s, j, i)].what

-----------------------------------------------------------------------------
(***************************************************************************)
(* What the compiler and the analyses before guarantee of a program: its   *)
(* blocks are in order and do not meet (cfgraph_sort), what places its     *)
(* instructions, handlers, functions and notes name are places in it, no   *)
(* function starts within a block, and a scope counts no instructions.     *)
(***************************************************************************)
WellFormed(p) ==
  /\ p.code \in Seq([id : Nat, op : Operations, arg : Int])
  /\ p.blk \in Seq([start : Nat \ {0}, end : Nat, ostart : Nat, func : DOMAIN p.entry])
  /\ \A k \in DOMAIN p.blk : p.blk[k].start <= p.blk[k].end /\ p.blk[k].end <= Len(p.code)
  /\ \A k, l \in DOMAIN p.blk : k < l => p.blk[k].end < p.blk[l].start
  /\ \A i \in DOMAIN p.code :
       /\ p.code[i].op = "b"   => i + 1 + p.code[i].arg \in DOMAIN p.code
       /\ p.code[i].op = "try" => \E k \in DOMAIN p.blk : p.blk[k].ostart = p.code[i].arg
  /\ \A f \in DOMAIN p.entry :
       /\ p.entry[f] \in DOMAIN p.code
       /\ \A k \in DOMAIN p.blk : p.entry[f] \in Extent(p.blk[k]) => p.entry[f] = p.blk[k].start
  /\ p.notes \in Seq([type : {"element", "scope"}, what : {p.notes[j].what : j \in DOMAIN p.notes}, n : Nat])
  /\ \A j \in DOMAIN p.notes : p.notes[j].type = "scope" => p.notes[j].n = 0
  /\ SumN(p.notes, Len(p.notes)) = Len(p.code)

\* The body of an inlined function is of one block and what ends it is left out: strategies
\* refuse all else (_strategy_inlineinstruction, src/src/strategy.c). Instructions are
\* named by the places they have at first.
ASSUME InsertionsAssumption ==
  /\ RestartLimit \in Nat
  /\ \A s \in Bodies :
       /\ s \in Seq(Operations) /\ s # <<>>
       /\ ToSet(s) \cap {"b", "try", "insert", "insert_restart"} = {}
  /\ \A p \in Programs :
       /\ WellFormed(p)
       /\ \A i \in DOMAIN p.code : p.code[i].id = i /\ ~IsInsertion(p.code[i])
       /\ p.live # {} /\ p.live \subseteq DOMAIN p.blk

-----------------------------------------------------------------------------
(***************************************************************************)
(* Rebuilding a block.                                                     *)
(***************************************************************************)
\* What the insertion points of block b before place i take up beyond their own.
Grown(b, i) ==
  LET grown[j \in 1 .. Len(code) + 1] ==
        IF j <= b.start THEN 0
        ELSE grown[j - 1] + (IF j - 1 <= b.end /\ IsInsertion(code[j - 1]) THEN code[j - 1].arg - 1 ELSE 0)
  IN  grown[i]

\* optimize_countinsertions.
CountInsertions(b) == Grown(b, b.end + 1)

\* _remapinsertionindex: where place i goes when block b is rebuilt. An insertion
\* point goes to the first of its instructions.
Remap(b, i) == i + Grown(b, i)

\* Mutant: the offset of a branch is that to the place its target had.
RetargetFromOld(b, i) == [code[i] EXCEPT !.arg = i + 1 + @ - (Remap(b, i) + 1)]

\* _retargetbranchesafterinsertion: branches anywhere in the code, of blocks that
\* cannot be reached, too. Inserted ones never branch.
Retarget(b, i) ==
  IF code[i].op = "b"
  THEN [code[i] EXCEPT !.arg = Remap(b, i + 1 + @) - (Remap(b, i) + 1)]
  ELSE code[i]

Rebuilt(b) ==
  LET built[i \in 0 .. Len(code)] ==
        IF i = 0 THEN <<>>
        ELSE built[i - 1] \o (IF i \in Extent(b) /\ IsInsertion(code[i]) THEN buffer ELSE <<Retarget(b, i)>>)
  IN  built[Len(code)]

\* Mutant: the count of a line includes what was inserted at the first place after it.
FixNextAnnotation(b) ==
  [j \in DOMAIN notes |->
     [notes[j] EXCEPT !.n = @ + Grown(b, Min({SumN(notes, j) + 2, Len(code) + 1})) - Grown(b, SumN(notes, j - 1) + 1)]]

\* _fixannotation: a source line has the instructions inserted at its places.
FixAnnotation(b) ==
  [j \in DOMAIN notes |->
     [notes[j] EXCEPT !.n = @ + Grown(b, SumN(notes, j) + 1) - Grown(b, SumN(notes, j - 1) + 1)]]

\* _shiftfunctionentries.
ShiftEntries(b, n) == [f \in DOMAIN entry |-> IF entry[f] > b.start THEN entry[f] + n ELSE entry[f]]

\* _shiftblockindices. The place a block had in the original program stays.
ShiftBlocks(b, n) ==
  [k \in DOMAIN blk |-> IF k = cur THEN [b EXCEPT !.end = @ + n]
                        ELSE IF blk[k].start > b.start THEN [blk[k] EXCEPT !.start = @ + n, !.end = @ + n]
                        ELSE blk[k]]

Points == {i \in Extent(blk[cur]) : IsInsertion(code[i])}

-----------------------------------------------------------------------------
(***************************************************************************)
(* Optimizing the blocks one after the other (optimize_pass).              *)
(***************************************************************************)
\* Mutant: the next block is the one just optimized.
NextOrSame(k) ==
  LET rest == {j \in live : j >= k} IN IF rest = {} THEN 0 ELSE CHOOSE j \in rest : \A h \in rest : j <= h

NextLive(k) ==
  LET rest == {j \in live : j > k} IN IF rest = {} THEN 0 ELSE CHOOSE j \in rest : \A h \in rest : j <= h

\* optimize_insertinstructionswithrestart: the instruction at i becomes an insertion
\* point, and the scan of the block stops.
PointAt(i, ops, op) ==
  /\ code' = [code EXCEPT ![i] = Instr(@.id, op, Len(ops))]
  /\ buffer' = [k \in DOMAIN ops |-> Instr(named + k, ops[k], 0)]

Scanning == status = "working" /\ Points = {}

\* strategy_inline_function: a call of a function of one block becomes its body, and
\* the block is to be restarted.
Inline ==
  /\ Scanning
  /\ \E i \in Extent(blk[cur]), body \in Bodies :
       code[i].op \in {"call", "method"} /\ PointAt(i, body, "insert_restart")
  /\ UNCHANGED <<blk, entry, notes, live, cur, restarts, joined, named, status>>

\* strategy_method_resolution: the method is loaded, called, and its name loaded again.
ResolveMethod ==
  /\ Scanning
  /\ \E i \in Extent(blk[cur]) :
       code[i].op = "invoke" /\ PointAt(i, <<"plain", "method", "plain">>, "insert")
  /\ UNCHANGED <<blk, entry, notes, live, cur, restarts, joined, named, status>>

\* optimize_block: one restart too many is an error, and ends the optimization.
TooOften == status' = IF restarts' > RestartLimit THEN "error" ELSE status

\* optimize_processinsertions, and what optimize_block does after it. The facts the
\* block started with are wiped.
ProcessInsertions ==
  /\ status = "working" /\ Points # {}
  /\ LET b == blk[cur]
         n == CountInsertions(b)
     IN  /\ code' = Rebuilt(b)
         /\ blk' = ShiftBlocks(b, n)
         /\ entry' = ShiftEntries(b, n)
         /\ notes' = FixAnnotation(b)
         /\ restarts' = IF \E i \in Points : code[i].op = "insert_restart" THEN restarts + 1 ELSE restarts
  /\ TooOften
  /\ named' = named + Len(buffer)
  /\ buffer' = <<>>
  /\ joined' = joined \ {cur}
  /\ UNCHANGED <<live, cur>>

\* No strategy inserts anything any more: the next block's turn.
FinishBlock ==
  /\ Scanning
  /\ cur' = NextLive(cur)
  /\ restarts' = 0
  /\ status' = IF cur' = 0 THEN "done" ELSE status
  /\ UNCHANGED <<code, blk, entry, notes, live, buffer, joined, named>>

Init ==
  /\ \E p \in Programs :
       /\ code = p.code /\ blk = p.blk /\ entry = p.entry /\ notes = p.notes /\ live = p.live
       /\ named = Len(p.code)
  /\ buffer = <<>>
  /\ cur = NextLive(0)
  /\ restarts = 0
  /\ joined = DOMAIN blk
  /\ status = "working"

Next == Inline \/ ResolveMethod \/ ProcessInsertions \/ FinishBlock

\* The optimizer is a loop in one thread, so it goes on as long as it can.
Spec == Init /\ [][Next]_ivars /\ WF_ivars(Next)

-----------------------------------------------------------------------------
(***************************************************************************)
(* Properties.                                                             *)
(***************************************************************************)
\* Every place is one of the program and every note counts.
TypeOK ==
  /\ \A i \in DOMAIN code : code[i].id \in 1 .. named + Len(buffer)
  /\ \A k \in DOMAIN blk : Extent(blk[k]) \subseteq DOMAIN code
  /\ \A f \in DOMAIN entry : entry[f] \in DOMAIN code
  /\ SumN(notes, Len(notes)) = Len(code)
  /\ cur \in DOMAIN blk \cup {0} /\ joined \subseteq DOMAIN blk
  /\ restarts \in 0 .. RestartLimit + 1

\* Instructions by name: what the places in the code stand for.
Branches == {i \in DOMAIN code : code[i].op \in {"b", "try"}}
TargetOf(i) ==
  IF code[i].op = "b" THEN i + 1 + code[i].arg
  ELSE blk[CHOOSE k \in DOMAIN blk : blk[k].ostart = code[i].arg].start
PlaceOf(x) == CHOOSE i \in DOMAIN code : code[i].id = x
NamesOf(P) == {code[i].id : i \in P}

\* The program as Editing has it.
Text   == [k \in DOMAIN blk |-> [j \in 1 .. blk[k].end - blk[k].start + 1 |-> code[blk[k].start + j - 1].id]]
Goes   == [x \in NamesOf(Branches) |-> code[TargetOf(PlaceOf(x))].id]
Enters == [f \in DOMAIN entry |-> code[entry[f]].id]
Lines  == [x \in NamesOf(DOMAIN code) |-> LineAt(notes, PlaceOf(x))]

E == INSTANCE Editing WITH text <- Text, goes <- Goes, enters <- Enters, line <- Lines

\* However much is inserted, and wherever: a branch still goes to the instruction it
\* went to, or to what took its place, blocks and functions consist of the
\* instructions they had and those inserted there, and each instruction has its line.
EditsOnly == E!ESpec

\* A function whose body is a call can be inlined without end; the limit on restarts
\* is all that stops it.
OptimizesOrFails == <>(status # "working")

\* The block is run again "with freshly joined facts" (optimize.c, optimize_block).
RestartsJoined == Scanning /\ restarts > 0 => cur \in joined
=============================================================================
