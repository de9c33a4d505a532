---------------------------- MODULE Annotations ----------------------------
(***************************************************************************)
(* How source lines survive the layout (blockcomposer_fixannotations,      *)
(* src/src/layout.c): the annotations are rebuilt for the instructions that*)
(* are copied to the final program, block by block. A scope (a function, a *)
(* class) is anchored at the instruction after it, and waits for the next  *)
(* one that is copied when that one is not.                                *)
(*                                                                         *)
(* The layout is that of a program that code was inserted into.            *)
(***************************************************************************)
EXTENDS Insertions

VARIABLE laid    \* the new program: where each instruction was, and its notes

avars == <<ivars, laid>>

NotLaid == [from |-> <<>>, notes |-> <<>>]

IsNop(i) == code[i].op = "nop"

\* The places in S, in order.
InOrder(S) ==
  LET kept[i \in 0 .. Len(code)] ==
        IF i = 0 THEN <<>> ELSE IF i \in S THEN Append(kept[i - 1], i) ELSE kept[i - 1]
  IN  kept[Len(code)]

\* layout_consolidate: an entry without instructions is not copied.
IsEntry(k) == blk[k].start = entry[blk[k].func]
Emitted == {k \in live : IsEntry(k) => \E i \in Extent(blk[k]) : ~IsNop(i)}

\* blockcomposer_processblock: a block that is empty keeps a nop, here at its end.
CopiedFrom(k) ==
  LET real == {i \in Extent(blk[k]) : ~IsNop(i)}
  IN  IF real = {} THEN {blk[k].end} ELSE real

-----------------------------------------------------------------------------
(***************************************************************************)
(* The state of the scan: the note being counted (0: none), its count, the *)
(* note of the latest instruction of the block, whether one of the block   *)
(* was copied, the scopes that wait, and the new notes.                    *)
(***************************************************************************)
NoNote == 0
ElementAt(i) == CHOOSE j \in DOMAIN notes : Covers(notes, j, i)

Scopes(s) == {j \in DOMAIN s : s[j].type = "scope"}

\* The scopes anchored at place i.
ScopesAt(i) ==
  LET at[j \in 0 .. Len(notes)] ==
        IF j = 0 THEN <<>>
        ELSE IF j \in Scopes(notes) /\ SumN(notes, j) + 1 = i THEN Append(at[j - 1], notes[j])
        ELSE at[j - 1]
  IN  at[Len(notes)]

\* annotationfixer_flush.
Flush(s) ==
  IF s.current = NoNote \/ s.count = 0 THEN s
  ELSE [s EXCEPT !.count = 0, !.out = Append(@, [notes[s.current] EXCEPT !.n = s.count])]

\* Mutant: scopes are written before the count of the lines they follow.
WriteScopesEarly(s) ==
  IF s.waiting = <<>> THEN s ELSE [s EXCEPT !.waiting = <<>>, !.out = @ \o s.waiting]

\* annotationfixer_append, of what waits.
WriteScopes(s) ==
  IF s.waiting = <<>> THEN s
  ELSE LET f == Flush(s) IN [f EXCEPT !.waiting = <<>>, !.out = @ \o f.waiting]

\* Mutant: the count goes on when the line changes.
CountOn(s, e) == [s EXCEPT !.current = e, !.count = @ + 1]

\* One more instruction of note e.
Count(s, e) == [(IF s.current = e THEN s ELSE Flush(s)) EXCEPT !.current = e, !.count = @ + 1]

FixInstruction(s, i) ==
  LET t == [s EXCEPT !.latest = ElementAt(i), !.waiting = @ \o ScopesAt(i)]
  IN  IF IsNop(i) THEN t ELSE [Count(WriteScopes(t), t.latest) EXCEPT !.copied = TRUE]

\* A block that is empty counts for the nop it keeps.
FixBlock(s, k) ==
  LET scan[i \in blk[k].start - 1 .. blk[k].end] ==
        IF i < blk[k].start THEN [s EXCEPT !.copied = FALSE, !.latest = s.current]
        ELSE FixInstruction(scan[i - 1], i)
      t == scan[blk[k].end]
  IN  IF t.copied THEN t ELSE Count(WriteScopes(t), t.latest)

NothingFixed == [current |-> NoNote, count |-> 0, latest |-> NoNote, copied |-> FALSE,
                 waiting |-> <<>>, out |-> <<>>]

\* blockcomposer_fixannotations.
NewNotes ==
  LET fixed[k \in 0 .. Len(blk)] ==
        IF k = 0 THEN NothingFixed
        ELSE IF k \in Emitted THEN FixBlock(fixed[k - 1], k) ELSE fixed[k - 1]
  IN  Flush(WriteScopes(fixed[Len(blk)])).out

\* layout_consolidate, once every block is optimized.
LayOut ==
  /\ status = "done" /\ laid = NotLaid
  /\ laid' = [from  |-> InOrder(UNION {CopiedFrom(k) : k \in Emitted}),
              notes |-> NewNotes]
  /\ UNCHANGED ivars

AInit == Init /\ laid = NotLaid
ANext == \/ Next /\ UNCHANGED laid
         \/ LayOut
ASpec == AInit /\ [][ANext]_avars /\ WF_ivars(Next)

-----------------------------------------------------------------------------
(***************************************************************************)
(* Properties.                                                             *)
(***************************************************************************)
Real == {p \in DOMAIN laid.from : ~IsNop(laid.from[p])}

\* Each instruction of the final program has the source line it had, whatever was
\* inserted, deleted or left out before it: one count that is off moves all lines
\* after it.
LinesKept ==
  laid # NotLaid =>
    /\ \A p \in Real : LineAt(laid.notes, p) = LineAt(notes, laid.from[p])
    /\ SumN(laid.notes, Len(laid.notes)) = Len(laid.from)

\* The scope of place p: the last one before it, of those in J.
ScopeAt(s, J, p) ==
  LET before == {j \in J : SumN(s, j) < p}
  IN  IF before = {} THEN NoNote ELSE s[CHOOSE j \in before : \A h \in before : h <= j].what

StillIn(J) == \A p \in Real : ScopeAt(laid.notes, Scopes(laid.notes), p) = ScopeAt(notes, J, laid.from[p])

\* An instruction stays in its scope, of those anchored in a block that is copied,
\* also when the instruction they are anchored at is not.
ScopesKept ==
  laid # NotLaid =>
    StillIn({j \in Scopes(notes) : \E k \in Emitted : SumN(notes, j) + 1 \in Extent(blk[k])})

\* Annotations are rebuilt "in final emitted instruction order" (layout.c): an
\* instruction stays in its function.
FunctionsKept == laid # NotLaid => StillIn(Scopes(notes))
=============================================================================
