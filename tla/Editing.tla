------------------------------ MODULE Editing ------------------------------
(***************************************************************************)
(* What inserting code promises: an instruction of a block becomes several,*)
(* and nothing else about the program changes. Instructions have names     *)
(* here, not places, so there is nothing to shift. Insertions is shown to  *)
(* implement this.                                                         *)
(***************************************************************************)
EXTENDS Integers, Sequences

VARIABLES
  text,       \* the instructions of each block, in order
  goes,       \* where each branch and each handler of errors goes to
  enters,     \* the first instruction of each function
  line,       \* the source line of each instruction
  named       \* names given so far: 1 .. named

evars == <<text, goes, enters, line, named>>

Splice(s, i, t) == SubSeq(s, 1, i - 1) \o t \o SubSeq(s, i + 1, Len(s))

\* Instruction i of block b, which does not branch, becomes n new ones, of its line;
\* what went to it goes to the first of them.
Become(old, new, b, i, n) ==
  LET x     == old.text[b][i]
      to(y) == IF y = x THEN old.named + 1 ELSE y
      added == old.named + 1 .. old.named + n
  IN  /\ x \notin DOMAIN old.goes
      /\ new.text = [old.text EXCEPT ![b] = Splice(@, i, [k \in 1 .. n |-> old.named + k])]
      /\ new.goes = [y \in DOMAIN old.goes |-> to(old.goes[y])]
      /\ new.enters = [f \in DOMAIN old.enters |-> to(old.enters[f])]
      /\ new.line = [y \in (DOMAIN old.line \ {x}) \cup added |-> old.line[IF y \in added THEN x ELSE y]]

Program == [text |-> text, goes |-> goes, enters |-> enters, line |-> line, named |-> named]

Edit ==
  \E old \in {Program}, new \in {Program'} :
    LET n == new.named - old.named
    IN  /\ n \in Nat \ {0}
        /\ \E b \in DOMAIN old.text : \E i \in DOMAIN old.text[b] : Become(old, new, b, i, n)

ESpec == [][Edit]_evars
=============================================================================
