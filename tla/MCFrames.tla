------------------------------ MODULE MCFrames ------------------------------
(***************************************************************************)
(* Instances of Frames for TLC: a function that calls two others, of which *)
(* one calls the other.                                                    *)
(***************************************************************************)
EXTENDS FramesRun

CONSTANTS main, twice, once, one

MCOrder == <<main, twice, once>>

Fn(nregs, nargs, nopt, code, live) ==
  [nregs |-> nregs, nargs |-> nargs, nopt |-> nopt, code |-> code, live |-> live, plotfield |-> FALSE]

Load(id, r, v) == Instr(id, "lct", r, 0, v)
Ret(id, r)     == Instr(id, "return", 1, r, 0)
RetNil(id)     == Instr(id, "return", 0, 0, 0)
Out(id, r)     == Instr(id, "print", r, 0, 0)

\* fn once(x): bodies of functions of one parameter.
Onces ==
  {Fn(4, 1, 0, <<s>>, {1}) : s \in
     {<<Ret(31, 1)>>, <<Ret(31, 0)>>, <<Out(31, 1), RetNil(32)>>,
      <<Instr(31, "add", 1, 1, 1), Ret(32, 1)>>,
      <<Instr(31, "add", 2, 1, 1), Ret(32, 2)>>,
      <<Instr(31, "mov", 2, 1, 0), Instr(32, "mov", 3, 1, 0), Instr(33, "cat", 2, 2, 3), Ret(34, 2)>>,
      <<Instr(31, "mov", 2, 1, 0), Instr(32, "lix", 1, 2, 2), Ret(33, 2)>>}}

\* fn twice(x): calls once, and does something to the result.
Twices ==
  {Fn(4, 1, 0, <<<<Load(21, 2, once), Instr(22, "mov", 3, r, 0), Instr(23, "call", 2, 1, 0)>> \o s>>, {1}) :
     r \in {0, 1}, s \in {<<Ret(24, 2)>>, <<Instr(24, "add", 2, 1, 2), Ret(25, 2)>>,
                          <<Instr(24, "add", 1, 2, 1), Ret(25, 1)>>}}

\* A call at register a, by way of a call of functions or of methods.
CallAt(id, a, f, op, r) ==
  <<Load(id, a, f)>>
    \o (IF op = "call" THEN <<>> ELSE <<Instr(id + 1, "mov", a + 1, 0, 0)>>)
    \o <<Instr(id + 2, "mov", IF op = "call" THEN a + 1 ELSE a + 2, r, 0), Instr(id + 3, op, a, 1, 0),
         Out(id + 4, IF op = "call" THEN a ELSE a + 1)>>

\* Something is kept in a register across two calls.
Mains ==
  {Fn(8, 1, 0, <<<<Load(1, keep, one)>> \o CallAt(2, a, f, op, keep), CallAt(10, 2, once, "call", 1),
                 <<Out(18, keep), RetNil(19)>>>>, live) :
     keep \in {1, 6, 7}, a \in {2, 3}, f \in {twice, once}, op \in {"call", "method", "invoke"},
     live \in {{1, 2, 3}, {1, 3}}}

Inlining ==
  {(main :> m) @@ (twice :> t) @@ (once :> o) : m \in Mains, t \in Twices, o \in Onces}

\* Functions with registers nothing refers to: with optional parameters, with closures,
\* with a range of registers, with a block that cannot be reached, and the exception.
Gaps ==
  {Fn(5, 1, 2, <<<<Out(41, 2), Out(42, 3), Ret(43, 1)>>>>, {1}),
   Fn(4, 2, 0, <<<<Out(41, 2), Instr(42, "mov", 3, 0, 0), Ret(43, 3)>>>>, {1}),
   Fn(6, 1, 0, <<<<Load(41, 4, one), Load(42, 2, one), Instr(43, "closure", 2, 0, 4), Out(44, 2), Ret(45, 4)>>>>, {1}),
   Fn(7, 2, 0, <<<<Instr(41, "mov", 4, 1, 0), Instr(42, "mov", 5, 0, 0)>>,
                 <<Instr(43, "cat", 3, 4, 5), Instr(44, "lix", 3, 4, 5), Ret(45, 4)>>>>, {1, 2}),
   Fn(7, 1, 0, <<<<Instr(41, "mov", 4, 1, 0)>>, <<Out(42, 6)>>, <<Out(43, 4), Ret(44, 4)>>>>, {1, 3}),
   [Fn(7, 1, 0, <<<<Instr(41, "mov", 4, 1, 0), Out(42, 4), Ret(43, 4)>>>>, {1}) EXCEPT !.plotfield = TRUE]}

Compacting ==
  {(main :> Fn(7, 0, 0, <<CallAt(1, a, twice, "call", 0), <<RetNil(9)>>>>, {1, 2})) @@ (twice :> g) @@ (once :> o) :
     a \in {1, 5}, g \in Gaps, o \in {Fn(7, 1, 0, <<CallAt(31, 4, one, op, 1) \o <<Ret(39, 4)>>>>, {1}) : op \in {"call", "invoke"}}}

MCPrograms == Inlining \cup Compacting

\* fn twice(x, y = .., z = ..), which reads the last parameter only.
MCOptional ==
  {(main :> Fn(3, 0, 0, <<CallAt(1, 1, twice, "call", 0), <<RetNil(9)>>>>, {1, 2})) @@
   (twice :> Fn(4, 1, 2, <<<<Out(41, r), Ret(43, 1)>>>>, {1})) @@
   (once :> Fn(2, 1, 0, <<<<Ret(31, 1)>>>>, {1})) : r \in {1, 2, 3}}
=============================================================================
