----------------------------- MODULE FramesRun -----------------------------
(***************************************************************************)
(* The functions of module Frames, run before and after.                   *)
(***************************************************************************)
EXTENDS Frames

-----------------------------------------------------------------------------
(***************************************************************************)
(* What a function does: the machine is not part of the repository. A call *)
(* has a frame of its own, and leaves nothing known in the registers of its*)
(* arguments. What is read is told by where it comes from.                 *)
(***************************************************************************)
Junk == <<"junk">>
Constant(v) == <<"constant", v>>

Enter(fn, args) ==
  [regs |-> [r \in 0 .. fn.nregs - 1 |->
               IF r <= fn.nargs THEN args[r]
               ELSE IF r <= fn.nargs + fn.nopt THEN <<"optional", r - fn.nargs>> ELSE Junk],
   out  |-> <<>>,    \* prints, calls of functions that are not known, the result
   ok   |-> fn.nargs + fn.nopt < fn.nregs]

Arguments(m, i, n) == [r \in 0 .. n |-> m.regs[Base(i) + r]]

\* The machine after a call, which did s and returned v.
Returned(m, i, s, v) ==
  [m EXCEPT !.regs = [r \in DOMAIN @ |-> IF r = Base(i) THEN v
                                         ELSE IF r \in Window(i) /\ r > Base(i) THEN Junk ELSE @[r]],
            !.out = @ \o s]

RangeOf(m, i) == [n \in 1 .. i.c - i.b + 1 |-> m.regs[i.b + n - 1]]

RECURSIVE Run(_, _, _)

\* A call: of a function of the program, or of one that is not known.
StepCall(p, m, i) ==
  LET callee == {g \in DOMAIN p : i.op # "invoke" /\ m.regs[i.a] = Constant(g) /\ i.c = 0 /\ p[g].nargs = i.b}
  IN  IF callee = {}
      THEN Returned(m, i, <<<<i.id, m.regs[i.a], Arguments(m, i, i.b + 2 * i.c)>>>>, <<"result", i.id>>)
      ELSE LET r == Run(p, CHOOSE g \in callee : TRUE, Arguments(m, i, i.b))
           IN  IF r.ok THEN Returned(m, i, Front(r.out), Last(r.out)) ELSE [m EXCEPT !.ok = FALSE]

Step(p, m, i) ==
  LET set(r, v) == [m EXCEPT !.regs[r] = v]
  IN  IF ~m.ok THEN m
      ELSE IF \/ ~(Uses(i) \cup Overwrites(i) \subseteq DOMAIN m.regs)
              \/ \E r \in Uses(i) : m.regs[r] = Junk
      THEN [m EXCEPT !.ok = FALSE]
      ELSE CASE i.op = "mov"     -> set(i.a, m.regs[i.b])
             [] i.op = "lct"     -> set(i.a, Constant(i.c))
             [] i.op = "add"     -> set(i.a, <<i.id, m.regs[i.b], m.regs[i.c]>>)
             [] i.op = "cat"     -> set(i.a, <<i.id, RangeOf(m, i)>>)
             [] i.op = "lix"     -> set(i.b, <<i.id, m.regs[i.a], RangeOf(m, i)>>)
             [] i.op = "closure" -> set(i.a, <<i.id, m.regs[i.a], m.regs[i.c]>>)
             [] i.op = "print"   -> [m EXCEPT !.out = Append(@, <<i.id, m.regs[i.a]>>)]
             [] i.op = "return"  -> [m EXCEPT !.out = Append(@, IF i.a = 0 THEN Constant(Nil) ELSE m.regs[i.b])]
             [] i.op \in Calls   -> StepCall(p, m, i)
             [] OTHER            -> m

\* The machine after function f was called with these arguments.
Run(p, f, args) ==
  LET runs(k)  == k \in p[f].live
      blocks   == SelectSeq([k \in DOMAIN p[f].code |-> k], runs)
      block(m, k) == FoldLeft(LAMBDA n, i : Step(p, n, i), m, p[f].code[k])
  IN  FoldLeft(block, Enter(p[f], args), blocks)

Does(p, f) == Run(p, f, [r \in 0 .. p[f].nargs |-> <<"argument", r>>])

-----------------------------------------------------------------------------
\* At every moment each function does what it did as it was compiled: inlined code
\* takes no register that is used after the call, finds its arguments where the call
\* put them, and no two registers become one. Nothing lies beyond the frame.
BehaviourKept ==
  \A f \in DOMAIN prog : Does(prog, f).ok /\ Does(prog, f).out = Does(before, f).out
=============================================================================
