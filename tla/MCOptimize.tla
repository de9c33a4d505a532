----------------------------- MODULE MCOptimize -----------------------------
(***************************************************************************)
(* Instances of Optimize for TLC, over the graphs of MCDataflow.           *)
(***************************************************************************)
EXTENDS Optimize, MCDataflow

Out(a) == <<"print", a, 0, 0>>

\* What lies before the branch and what lies after it or in the loop: copies,
\* loads, sums, stores and prints, each of which may make another one useless.
Before == Pairs({Lct(0, one), Lgl(0)}, {Lct(2, half), Mov(2, 0), Mov(2, 1)})
Body   == {Mov(0, 2), Mov(2, 0), Lct(0, one), Add(0, 0, 2), Lgl(2), Sgl(0), CallOf(0), Out(0), Out(2)}
Prints == {<<Out(0)>>}

\* With the predecessors of each block in the order of their code.
Ordered(p) == \A b \in 0 .. 3 : \A i, j \in DOMAIN p.src[b] : i < j => p.src[b][i] < p.src[b][j]

MCOptimizable ==
  {p \in Functions4(Loop, Before, {<<>>, <<Out(0)>>}, Pairs(Body, Body), Prints)
         \cup Functions4(Join2, Before, Some({Mov(0, 2), Lct(0, one), Lgl(2)}),
                          Some({Add(0, 0, 2), Lgl(2), Sgl(0), Out(2)}), Prints) :
     Ordered(p) /\ Regular(p) /\ CarriedElsewhere(p)}

\* A body of a loop prints a register and then assigns to it.
MCCarried == Functions4(Loop, Pairs({Lct(0, one)}, {Lct(2, half)}), None,
                        {<<Out(2), Mov(2, 0)>>}, None)

\* A loop calls functions that assign to a global. What was loaded from it
\* before the loop is copied in the loop, where the global is loaded anew.
MCStored == Functions4(Loop, {<<Lgl(0)>>}, {<<Mov(2, 0), Lgl(3)>>}, {<<Out(3), CallOf(3)>>}, None)

\* In a loop a register is loaded, copied, and the copy added to: replacement makes
\* that an addition to the register itself, which is still loaded as well.
MCMadeUpdate == Functions4(Loop, {<<Lct(0, half)>>}, {<<Out(0), Lgl(0)>>},
                           {<<Mov(2, 0), Add(0, 2, 1)>>}, None)
=============================================================================
