----------------------------- MODULE MCDataflow -----------------------------
(***************************************************************************)
(* Instances of Dataflow for TLC: functions of four blocks on three        *)
(* registers, of which register 1 is the parameter.                        *)
(***************************************************************************)
EXTENDS Dataflow

CONSTANTS cInt, cFloat, cBool, cCallable, cClosure,
          one, half, yes, counter

MCType == {cInt, cFloat, cBool, cCallable, cClosure}
MCLin == [t \in MCType |-> IF t = cClosure THEN <<cClosure, cCallable>> ELSE <<t>>]
MCIndex == Val \cup {counter}

ClassOf == (one :> cInt) @@ (half :> cFloat) @@ (yes :> cBool)
MCTypeOf == [v \in Val |-> ClassOf[v]]
MCArith == [v \in Val |-> [w \in Val |-> IF half \in {v, w} THEN half ELSE one]]
MCCompare == [v \in Val |-> [w \in Val |-> yes]]

Untyped == [type |-> NoType, typeinfo |-> UNKNOWN]
MCReturns == [v \in Val |-> IF v = one THEN [type |-> cInt, typeinfo |-> EXACT] ELSE Untyped]
MCGlobalType == [x \in {counter} |-> Untyped]
MCParamFact == [r \in Reg |-> Untyped]

\* No call is known; all calls pass the constant one.
MCNoInput == [r \in Reg |-> InitFact]
MCInputOne ==
  [r \in Reg |-> IF r = 1 THEN TypedFact([WrittenFact(NoPc, "constant", one) EXCEPT !.usage = "written"],
                                         cInt, EXACT)
                 ELSE InitFact]

Blocks(c0, c1, c2, c3) == [b \in 0 .. 3 |-> <<c0, c1, c2, c3>>[b + 1]]

\* Graphs of four blocks: a loop with a body and an exit, two branches that
\* meet, a loop that starts at the function's entry, and two loops that share a
\* header.
Loop  == Blocks(<<1>>, <<2, 3>>, <<1>>, <<>>)
Join2 == Blocks(<<1, 2>>, <<3>>, <<3>>, <<>>)
AtTop == Blocks(<<1, 2>>, <<0>>, <<3>>, <<>>)
Twice == Blocks(<<1>>, <<2, 3>>, <<1>>, <<1>>)

\* The functions with graph d whose blocks have code of C0, C1, C2 and C3, with
\* the predecessors of each block in every order.
Functions4(d, C0, C1, C2, C3) ==
  LET Orders(b) == SetToSeqs({s \in 0 .. 3 : b \in ToSet(d[s])})
  IN  {[code |-> Blocks(c0, c1, c2, c3), dest |-> d, src |-> Blocks(s0, s1, s2, s3)] :
         c0 \in C0, c1 \in C1, c2 \in C2, c3 \in C3,
         s0 \in Orders(0), s1 \in Orders(1), s2 \in Orders(2), s3 \in Orders(3)}

Add(a, b, c) == <<"arith", a, b, c>>
Lgl(a)    == <<"lgl", a, counter, 0>>
Sgl(a)    == <<"sgl", a, counter, 0>>
CallOf(a) == <<"call", a, 0, 0>>

None       == {<<>>}
Some(I)    == {<<>>} \cup {<<i>> : i \in I}
Pairs(I, J) == {<<i, j>> : i \in I, j \in J}

Loads == {Lct(0, one), Lct(0, half), Lgl(0), Mov(0, 1)}
Steps == {Mov(2, 0), Mov(0, 2), Add(0, 0, 2), Add(2, 0, 1), Lct(0, half), Lgl(2)}

MCRegular ==
  {p \in Functions4(Loop, Pairs({Lct(2, one), Lct(2, half), Lgl(2)}, Loads),
                    Some({Mov(2, 0)}), Some(Steps) \cup Pairs(Steps, Steps), None)
         \cup Functions4(Loop, Some(Loads), Some({Lgl(2)}), Pairs(Steps, {Sgl(0), CallOf(0)}), None)
         \cup Functions4(Join2, Some(Loads), Some(Steps),
                          Some(Steps \cup {Sgl(0), CallOf(0)}), None)
         \cup Functions4(AtTop, Some(Steps), Some(Steps), None, None)
         \cup Functions4(Twice, Some(Loads), None, Some(Steps), Some(Steps)) :
     Regular(p)}

\* The loop writes its parameter.
MCCountdown == Functions4(Loop, None, None, {<<Add(1, 1, 1)>>, <<Lct(1, half)>>}, None)
=============================================================================
