----------------------------- MODULE MCTracking -----------------------------
(***************************************************************************)
(* Instances of Tracking for TLC: frames of two or three registers, one    *)
(* value of each class that matters to the run, one global and one upvalue.*)
(***************************************************************************)
EXTENDS Tracking, TLC

CONSTANTS cInt, cFloat, cBool, cCallable, cClosure, cObject,
          one, half, yes, fun, obj, counter, cell

MCType == {cInt, cFloat, cBool, cCallable, cClosure, cObject}
\* Closures derive from callables; no other class has a parent.
MCLin == [t \in MCType |-> IF t = cClosure THEN <<cClosure, cCallable>> ELSE <<t>>]
MCIndex == Val \cup {counter, cell}

ClassOf == (one :> cInt) @@ (half :> cFloat) @@ (yes :> cBool) @@ (fun :> cClosure)
             @@ (obj :> cObject)
MCTypeOf == [v \in Val |-> ClassOf[v]]

\* A float operand gives a float.
MCArith == [v \in Val |-> [w \in Val |-> IF half \in {v, w} THEN half ELSE one]]
MCCompare == [v \in Val |-> [w \in Val |-> yes]]

Untyped == [type |-> NoType, typeinfo |-> UNKNOWN]
\* A call of `one' is declared to give an integer, one of `fun' a callable.
MCReturns == [v \in Val |-> CASE v = one -> [type |-> cInt, typeinfo |-> EXACT]
                              [] v = fun -> [type |-> cCallable, typeinfo |-> SUBTYPE]
                              [] OTHER   -> Untyped]

MCGlobalUntyped == [x \in {counter} |-> Untyped]
MCGlobalInt == [x \in {counter} |-> [type |-> cInt, typeinfo |-> EXACT]]

\* The facts at the start of a block: a value of which at most the class is
\* known, or what a location held when an instruction at pc loaded it.
Known(type, info) == TypedFact([InitFact EXCEPT !.contents = "value", !.usage = "written"],
                               type, info)
Loaded(pc, contents, x) == [WrittenFact(pc, contents, x) EXCEPT !.usage = "none"]
Elsewhere == 1

\* A function's entry; a block whose input mirrors locations, the last register
\* by an instruction of this very block, as in a loop.
MCInputCallable ==
  {[r \in Reg |-> IF r = 0 THEN Known(NoType, UNKNOWN) ELSE Known(cCallable, SUBTYPE)],
   [r \in Reg |-> IF r = 0 THEN Loaded(Elsewhere, "constant", one)
                  ELSE Loaded(Here, "global", counter)]}
MCInputInt ==
  {[r \in Reg |-> CASE r = 0 -> Known(NoType, UNKNOWN)
                    [] r = 1 -> Known(cInt, SUBTYPE)
                    [] OTHER -> InitFact],
   [r \in Reg |-> CASE r = 0 -> Loaded(Elsewhere, "global", counter)
                    [] r = 1 -> Known(cBool, EXACT)
                    [] OTHER -> Loaded(Here, "upvalue", cell)]}
MCPrototypes == {{0}}
MCModified == {counter}
=============================================================================
