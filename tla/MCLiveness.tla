---------------------------- MODULE MCLiveness ----------------------------
(***************************************************************************)
(* Instances of Liveness for TLC: programs of a few functions and of the   *)
(* classes A, B, which is derived from it, and C. Each has a function and  *)
(* a class that nothing uses.                                              *)
(***************************************************************************)
EXTENDS Liveness

CONSTANTS A, B, C, cInt, cFloat, cString, cFunction, cClosure, cCallable, cClass,
          gA, gB, gF, gG, gO, gK, upvalue

MCClass == {A, B, C}
MCType == MCClass \cup {cInt, cFloat, cString, cFunction, cClosure, cCallable, cClass}
MCLin == [t \in MCType |-> CASE t = B -> <<B, A>>
                             [] t \in {cFunction, cClosure} -> <<t, cCallable>>
                             [] OTHER -> <<t>>]
MCLabel == {"init", "m", "p", "add", "addr", "tostring", "index", "invoke"}
MCGlob == {gA, gB, gF, gG, gO, gK}

one  == Num("one")
two  == Num("two")
half == Num("half")
MCIndex ==
  {Fn(f) : f \in {"main", "f", "g", "h", "u", "ai", "am", "bi", "bm", "cm"}}
    \cup {ClassOf(c) : c \in MCClass} \cup {Name(l) : l \in MCLabel}
    \cup {one, two, half, Meta("fg"), Builtin("map"), upvalue} \cup MCGlob

Lct(a, k)  == <<"lct", a, k, 0>>
Mov(a, b)  == <<"mov", a, b, 0>>
Lgl(a, g)  == <<"lgl", a, g, 0>>
Sgl(a, g)  == <<"sgl", a, g, 0>>
Call(a, n) == <<"call", a, n, 0>>
Invoke(a)  == <<"invoke", a, 1, 0>>
Method(a)  == <<"method", a, 1, 0>>
Add(a, b, c) == <<"add", a, b, c>>
Ret(r)     == <<"ret", 1, r, 0>>

Blk(f, body)     == [func |-> f, to |-> <<>>, body |-> body]
Branch(f, to, body) == [func |-> f, to |-> to, body |-> body]

\* Functions f, g and u, and the methods of the classes.
Twice(f) == Blk(f, <<Add(2, 1, 1), Ret(2)>>)
Unused   == Blk("u", <<Lct(1, one), Ret(1)>>)
Init1(f) == Blk(f, <<Lct(2, Name("p")), <<"spr", 0, 2, 1>>, <<"ret", 0, 0, 0>>>>)
BInit(k) == Blk("bi", <<Lct(2, Fn("ai")), Mov(3, 0), Lct(4, k), Method(2), <<"ret", 0, 0, 0>>>>)

NArgsOf(f) == IF f \in {"main", "u"} THEN 0 ELSE 1
Owner(f) == CASE f \in {"ai", "am"} -> A
              [] f \in {"bi", "bm"} -> B
              [] f = "cm"           -> C
              [] OTHER              -> None

\* The program with the given blocks; the functions of its classes are among
\* the constants of the program itself.
Make(main, others, methods, args) ==
  LET blocks == main \o others \o <<Unused, Twice("cm")>>
      fns    == {blocks[b].func : b \in DOMAIN blocks}
      Consts(f) ==
        LET own == SelectSeq(blocks, LAMBDA b : b.func = f)
            is  == FlattenSeq([j \in DOMAIN own |-> own[j].body])
            lct == SelectSeq(is, LAMBDA i : i[1] = "lct")
            all == [j \in DOMAIN lct |-> lct[j][3]]
            more == SelectSeq(blocks, LAMBDA b : Owner(b.func) # None)
        IN  IF f = "main" THEN all \o [j \in DOMAIN more |-> Fn(more[j].func)] ELSE all
  IN  [blocks |-> blocks,
       konst  |-> [f \in fns |-> Consts(f)],
       nargs  |-> [f \in fns |-> IF f \in DOMAIN args THEN args[f] ELSE NArgsOf(f)],
       klass  |-> [f \in fns |-> Owner(f)],
       methods |-> [c \in MCClass |-> IF c = C THEN [m |-> Fn("cm")] ELSE methods[c]],
       metas  |-> [fg |-> <<"f", "g">>],
       untrusted |-> {"map"}]

NoMethods == [c \in MCClass |-> <<>>]
Plain1(main, others) == Make(<<Blk("main", main)>>, others, NoMethods, <<>>)

K == {one, half}

\* Functions called as constants or through a global.
Calls(load1, load2, k, j) ==
  Plain1(<<Lct(0, Fn("f")), Sgl(0, gF), load1, Lct(2, k), Call(1, 1),
           load2, Lct(2, j), Call(1, 1)>>, <<Twice("f")>>)

Direct ==
  {Calls(load1, Lct(1, Fn("f")), k, j) : load1 \in {Lct(1, Fn("f")), Mov(1, 0)}, k \in K, j \in K}
  \cup {Calls(Lgl(1, gF), Lgl(1, gF), k, j) : k \in K, j \in K}

\* Functions passed to others, which call them, and called as constants too.
Apply2(f)  == <<Lct(1, Fn("g")), Lct(2, Fn(f)), Call(1, 1)>>
Applies(k) == Blk("g", <<Mov(2, 1), Lct(3, k), Call(2, 1), Ret(2)>>)
CallF(k)   == <<Lct(1, Fn("f")), Lct(2, k), Call(1, 1)>>

PassedOn ==
  {Plain1(before \o Apply2("f") \o after, <<Applies(k), Twice("f"), Twice("h")>>) :
     before \in {<<>>, CallF(one)}, after \in {<<>>, CallF(one), Apply2("h")}, k \in K}

\* Functions called from another one as well, which comes before or after.
Between ==
  {Plain1(CallF(k) \o <<Lct(1, Fn("g")), Call(1, 0)>>, others) :
     k \in K,
     others \in LET g == Blk("g", CallF(one)) IN {<<g, Twice("f")>>, <<Twice("f"), g>>}}

\* Functions that call themselves, through a copy of register 0.
Recursive ==
  {Plain1(<<Lct(1, Fn("f")), Lct(2, k), Call(1, 1)>>,
          <<Branch("f", <<3, 4>>, <<>>),
            Blk("f", <<Mov(2, 0), Add(3, 1, 1), Call(2, 1), Ret(2)>>),
            Blk("f", <<Add(2, 1, 1), Ret(2)>>)>>) : k \in K}

\* Two functions that call each other.
Mutual ==
  {Plain1(CallF(k), <<Branch("f", <<3, 4>>, <<>>),
                      Blk("f", <<Lct(2, Fn("g")), Mov(3, arg), Call(2, 1), Ret(2)>>),
                      Blk("f", <<Add(2, 1, 1), Ret(2)>>),
                      Blk("g", <<Lct(2, Fn("f")), Lct(3, j), Call(2, 1), Ret(2)>>)>>) :
     arg \in {0, 1}, k \in K, j \in K}

\* A function that is returned, or kept in an upvalue, bare or as a closure.
ReturnedAfter(before, k) ==
  {Plain1(before \o <<Lct(1, Fn("g")), Call(1, 0)>> \o way.fetch \o <<Lct(2, k), Call(1, 1)>>,
          <<Blk("g", <<Lct(1, Fn("f"))>> \o bare \o <<way.keep>>), Twice("f")>>) :
     bare \in {<<>>, <<<<"closure", 1, 0, 0>>>>},
     way \in {[keep |-> Ret(1), fetch |-> <<>>],
              [keep |-> <<"sup", upvalue, 1, 0>>, fetch |-> <<<<"lup", 1, upvalue, 0>>>>]}}

Returned == UNION {ReturnedAfter(<<>>, k) : k \in K}

\* Overloaded functions, and a built-in function that calls back.
Overloaded ==
  {Plain1(<<Lct(1, v), Lct(2, x), Call(1, 1)>>, <<Twice("f"), Twice("g")>>) :
     v \in {Meta("fg")}, x \in K}
  \cup
  {Plain1(<<Lct(1, Builtin("map")), Lct(2, Fn("f")), Call(1, 1)>>,
          <<Blk("f", <<Lct(1, one), Ret(1)>>), Twice("g")>>)}

\* Arguments that differ on two ways to a call.
Joined ==
  {Make(<<Branch("main", <<2, 3>>, <<Lct(1, Fn("f"))>>), Branch("main", <<4>>, <<Lct(2, k)>>),
          Branch("main", <<4>>, <<Lct(2, j)>>), Blk("main", <<Call(1, 1)>>)>>,
        <<Twice("f")>>, NoMethods, <<>>) : k \in K \cup {two}, j \in K}

\* Globals with one store or two, of one constant or two, read or not. The
\* first store of a global comes before every load.
Constants ==
  {Make(<<Branch("main", <<2, 3>>, <<Lct(0, k), Sgl(0, gK), Lct(0, j), Sgl(0, gG)>>),
          Branch("main", <<3>>, again),
          Blk("main", <<Lct(1, Fn("f")), Call(1, 0)>> \o read)>>,
        <<Blk("f", <<Lgl(1, g)>> \o store \o <<Ret(1)>>)>>, NoMethods, [f |-> 0]) :
     k \in K, j \in K, g \in {gK, gG}, store \in {<<>>, <<Lct(2, half), Sgl(2, gG)>>},
     again \in {<<>>, <<Lct(0, one), Sgl(0, gK)>>}, read \in {<<>>, <<Lgl(1, gK)>>}}

\* Classes: A and B have an initializer and a method m, of their own or not.
AB == [c \in MCClass |-> CASE c = A -> [init |-> Fn("ai"), m |-> Fn("am")]
                           [] c = B -> [init |-> Fn("bi"), m |-> Fn("bm")]
                           [] OTHER -> <<>>]
AOnly == [c \in MCClass |-> IF c = C THEN <<>> ELSE [init |-> Fn("ai"), m |-> Fn("am")]]
Declare == <<Lct(0, ClassOf(A)), Sgl(0, gA), Lct(0, ClassOf(B)), Sgl(0, gB)>>
ABCode(k) == <<Init1("ai"), BInit(k), Twice("am"), Twice("bm")>>
ACode == <<Init1("ai"), Twice("am")>>

New(g, k) == <<Lgl(1, g), Lct(2, k), Call(1, 1), Sgl(1, gO)>>
Use(k)    == <<Lct(0, Name("m")), Lgl(1, gO), Lct(2, k), Invoke(0)>>
Take(k)   == <<Lgl(0, gO), Lct(2, Name("m")), <<"lpr", 1, 0, 2>>, Lct(2, k), Call(1, 1)>>
Apply(k)  == <<Lgl(0, gO), Lct(2, Name("m")), <<"lpr", 1, 0, 2>>, Mov(3, 1), Lct(2, Name("invoke")),
               Lct(4, k), Invoke(2)>>
Exact(k)  == <<Lct(0, Fn("am")), Lgl(1, gO), Lct(2, k), Method(0)>>

ClassProgram(main, others, methods) ==
  Make(<<Blk("main", Declare \o main)>>, others, methods, <<>>)

Objects ==
  {ClassProgram(New(g, k) \o use, ABCode(j), AB) :
     g \in {gA, gB}, k \in K, j \in K, use \in {<<>>, Use(one), Take(one)}}
  \cup
  {ClassProgram(New(g, one) \o first \o second, ACode, AOnly) :
     g \in {gA, gB}, first \in {Exact(one), Exact(half)},
     second \in {<<>>, Exact(one), Take(half), Apply(half)}}
  \cup
  {ClassProgram(<<Lct(1, Fn("f")), Lct(2, k), Call(1, 1)>>,
                <<Blk("f", <<Mov(3, 1), Lgl(1, g), Mov(2, 3), Call(1, 1), Ret(1)>>)>> \o ABCode(k), AB) :
     g \in {gA, gB}, k \in K}

\* A function kept in a property; operators that run methods; a built-in
\* function that calls back a method.
Operators(op) ==
  [c \in MCClass |-> IF c = C THEN <<>> ELSE (op :> Fn("am")) @@ [init |-> Fn("ai")]]

Indirect ==
  {ClassProgram(New(gA, one) \o <<Lgl(0, gO), Lct(1, Name("p")), Lct(2, Fn("f")),
                                  <<"spr", 0, 1, 2>>, Lgl(0, gO), Lct(2, Name("p")),
                                  <<"lpr", 1, 0, 2>>, Lct(2, k), Call(1, 1)>>,
                ACode \o <<Twice("f")>>, AOnly) : k \in K}
  \cup
  {ClassProgram(New(g, one) \o <<Lgl(1, gO), Lct(2, half)>> \o use[2], ACode, Operators(use[1])) :
     g \in {gA, gB},
     use \in {<<"add", <<Add(3, 1, 2)>>>>, <<"addr", <<Add(3, 2, 1)>>>>,
              <<"tostring", <<<<"cat", 3, 1, 2>>>>>>, <<"index", <<<<"lix", 1, 2, 2>>>>>>,
              <<"m", <<Mov(3, 1), Lct(2, Builtin("map")), Call(2, 1)>>>>}}

\* A function that is called directly and by another way too.
MCUnseen == ReturnedAfter(CallF(one), half) \cup {Calls(Lgl(1, gF), Lct(1, Fn("f")), one, half)}

MCPrograms ==
  Direct \cup PassedOn \cup Between \cup Recursive \cup Mutual \cup Returned \cup Overloaded \cup Joined
    \cup Constants \cup Objects \cup Indirect
=============================================================================
