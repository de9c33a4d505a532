------------------------------ MODULE Program ------------------------------
(***************************************************************************)
(* A whole compiled program, and the machine that runs it: functions that  *)
(* call each other as constants, through globals, arguments, results,      *)
(* properties, upvalues, methods, operators and built-in functions.        *)
(*                                                                         *)
(* Neither the compiler nor the machine is part of the repository; both    *)
(* are as the optimizer (src/src/optimize.c) relies on them. An entry of a *)
(* constant table is named by its value. A class has at most one object at *)
(* a time, a branch may go either way, and a program runs to a depth of    *)
(* MaxDepth calls.                                                         *)
(***************************************************************************)
EXTENDS Reginfo, SequencesExt

CONSTANTS
  Programs,     \* the programs
  Class,        \* their classes; Lin says which inherit from which
  Label,        \* names of methods and properties
  Glob,         \* globals
  None,         \* no class, no function
  MaxDepth,     \* most calls in progress
  IntType, FloatType, StringType, FunctionType, ClosureType, CallableType, ClassType

\* Values: functions, closures and methods bound to an object of a class, sets of
\* overloaded functions, classes and their objects, built-in functions, names
\* and numbers.
Fn(f)       == <<"fn", f>>
Closure(f)  == <<"closure", f>>
Bound(f, c) == <<"bound", f, c>>
Meta(m)     == <<"meta", m>>
ClassOf(c)  == <<"class", c>>
Obj(c)      == <<"obj", c>>
Builtin(b)  == <<"builtin", b>>
Name(l)     == <<"name", l>>
Num(n)      == <<"num", n>>
Nil         == <<"nil", "nil">>

Kind(v) == v[1]

TypeOf(v) ==                                                      \* value_type
  CASE Kind(v) \in {"fn", "meta", "builtin", "bound"} -> FunctionType
    [] Kind(v) = "closure" -> ClosureType
    [] Kind(v) = "class"   -> ClassType
    [] Kind(v) = "obj"     -> v[2]
    [] Kind(v) = "name"    -> StringType
    [] Kind(v) = "num"     -> IF v[2] = "half" THEN FloatType ELSE IntType
    [] OTHER               -> NoType

ASSUME ProgramAssumption ==
  /\ Class \subseteq Type
  /\ {IntType, FloatType, StringType, FunctionType, ClosureType, CallableType, ClassType}
       \subseteq Type \ Class
  /\ MaxDepth \in Nat \ {0}
  /\ None \notin Class
\* A program: its blocks in the order of their code, each with its function, code
\* and successors; the constant table, the number of parameters and the class of
\* each function; the methods of each class, inherited ones included; the
\* functions of each metafunction; the built-in functions that may call back.
ASSUME CodeAssumption ==
  \A p \in Programs :
    /\ \A b \in DOMAIN p.blocks : ToSet(p.blocks[b].to) \subseteq DOMAIN p.blocks
    /\ {p.blocks[b].func : b \in DOMAIN p.blocks} = DOMAIN p.konst
    /\ {DOMAIN p.nargs, DOMAIN p.klass} = {DOMAIN p.konst}
    /\ "main" \in DOMAIN p.konst
    /\ DOMAIN p.methods = Class
    /\ \A c \in Class : DOMAIN p.methods[c] \subseteq Label

VARIABLES
  prog,         \* the program
  code          \* the code of its blocks, as the optimizer leaves it

Funcs  == DOMAIN prog.konst
Blocks == DOMAIN prog.blocks
FuncOf(b) == prog.blocks[b].func
BlocksOf(f) == SelectSeq([b \in Blocks |-> b], LAMBDA b : FuncOf(b) = f)
Entry(f) == Head(BlocksOf(f))
Preds(b) == SelectSeq([s \in Blocks |-> s], LAMBDA s : b \in ToSet(prog.blocks[s].to))

\* morpho_lookupmethod.
Lookup(c, l) == IF l \in DOMAIN prog.methods[c] THEN prog.methods[c][l] ELSE Nil

Children(c) == {d \in Class : Len(Lin[d]) > 1 /\ Lin[d][2] = c}

\* The functions that value v, a function or a metafunction, stands for.
FunctionsOf(v) == CASE Kind(v) = "fn"   -> {v[2]}
                    [] Kind(v) = "meta" -> ToSet(prog.metas[v[2]])
                    [] OTHER            -> {}

Methods(c) == {prog.methods[c][l] : l \in DOMAIN prog.methods[c]}

-----------------------------------------------------------------------------
(***************************************************************************)
(* Instructions, <<op, a, b, c>>: those that call take their n arguments   *)
(* from the registers after the callee, or after the receiver.             *)
(***************************************************************************)
IsCallLike(i) == i[1] \in {"call", "method", "invoke"}

\* The first register a call overwrites, which is given its result.
ResultOf(i) == CASE i[1] = "call"                -> i[2]
                 [] i[1] \in {"method", "invoke"} -> i[2] + 1
                 [] i[1] = "lix"                 -> i[3]
                 [] OTHER                        -> i[2]

NArgs(i) == IF IsCallLike(i) THEN i[3] ELSE 0

-----------------------------------------------------------------------------
(***************************************************************************)
(* The machine.                                                            *)
(***************************************************************************)
Frame(f, self, args, makes) ==
  [func |-> f, blk |-> Entry(f), at |-> 1, makes |-> makes,
   regs |-> [r \in Reg |-> IF r = 0 THEN self ELSE IF r <= Len(args) THEN args[r] ELSE Nil]]

Boot ==
  [frames |-> <<Frame("main", Fn("main"), <<>>, FALSE)>>,
   globs  |-> [g \in Glob |-> Nil],
   fields |-> [x \in Class \X Label |-> Nil],
   cell   |-> Nil,
   status |-> "running"]

Top(m) == Last(m.frames)
SetTop(m, fr) == [m EXCEPT !.frames[Len(m.frames)] = fr]
Halt(m) == [m EXCEPT !.status = "halted"]

\* The result v of instruction i; the registers of the arguments are the callee's.
Finish(fr, i, v) ==
  [fr EXCEPT !.at = @ + 1,
             !.regs = [r \in Reg |-> IF r = ResultOf(i) THEN v
                                     ELSE IF r \in ResultOf(i) + 1 .. ResultOf(i) + NArgs(i)
                                     THEN Nil ELSE @[r]]]

\* A call of value v, of which k picks among overloaded functions.
CallOf(v, k, self, args, makes) ==
  LET fns == IF Kind(v) = "meta" THEN prog.metas[v[2]] ELSE <<v[2]>>
      own == IF Kind(v) = "bound" THEN Obj(v[3]) ELSE self
  IN  IF Kind(v) \in {"fn", "closure", "bound", "meta"}
      THEN {Frame(fns[1 + (k % Len(fns))], own, args, makes)}
      ELSE {}

\* What a built-in function calls back: its argument, or method l of it.
CallBack(v, k, l) ==
  IF Kind(v) = "obj" THEN CallOf(Lookup(v[2], l), k, v, <<>>, FALSE)
                     ELSE CallOf(v, k, v, <<>>, FALSE)

ObjectMethod(v, l) == IF Kind(v) = "obj" THEN Lookup(v[2], l) ELSE Nil

\* The frame instruction i of frame fr enters, if it runs code of the program.
Entered(fr, i, k, l) ==
  LET R(r)    == fr.regs[r]
      Args(s) == [j \in 1 .. i[3] |-> R(s + j)]
  IN  CASE i[1] = "call" /\ Kind(R(i[2])) = "class" ->
             CallOf(Lookup(R(i[2])[2], "init"), k, Obj(R(i[2])[2]), Args(i[2]), TRUE)
        [] i[1] = "call" /\ Kind(R(i[2])) = "builtin" ->
             IF i[3] = 0 THEN {} ELSE CallBack(R(i[2] + 1), k, l)
        [] i[1] = "call" /\ Kind(R(i[2])) \notin {"class", "builtin"} ->
             CallOf(R(i[2]), k, R(i[2]), Args(i[2]), FALSE)
        [] i[1] = "method" -> CallOf(R(i[2]), k, R(i[2] + 1), Args(i[2] + 1), FALSE)
        [] i[1] = "invoke" /\ Kind(R(i[2] + 1)) = "bound" /\ R(i[2]) = Name("invoke") ->
             CallOf(R(i[2] + 1), k, Nil, Args(i[2] + 1), FALSE)
        [] i[1] = "invoke" /\ Kind(R(i[2] + 1)) = "obj" -> CallOf(ObjectMethod(R(i[2] + 1), R(i[2])[2]), k, R(i[2] + 1),
                                     Args(i[2] + 1), FALSE)
        [] i[1] = "add" /\ ObjectMethod(R(i[3]), "add") # Nil ->
             CallOf(ObjectMethod(R(i[3]), "add"), k, R(i[3]), <<R(i[4])>>, FALSE)
        [] i[1] = "add" /\ ObjectMethod(R(i[3]), "add") = Nil ->
             CallOf(ObjectMethod(R(i[4]), "addr"), k, R(i[4]), <<R(i[3])>>, FALSE)
        [] i[1] = "cat" -> CallOf(ObjectMethod(R(i[3]), "tostring"), k, R(i[3]), <<>>, FALSE)
        [] i[1] = "lix" -> CallOf(ObjectMethod(R(i[2]), "index"), k, R(i[2]), <<R(i[3])>>, FALSE)
        [] OTHER -> {}

\* A call of a class makes an object of it.
Construct(m, i) ==
  LET v == Top(m).regs[i[2]]
  IN  IF i[1] = "call" /\ Kind(v) = "class"
      THEN [m EXCEPT !.fields = [x \in Class \X Label |-> IF x[1] = v[2] THEN Nil ELSE @[x]]]
      ELSE m

Property(m, v, l) ==
  CASE Kind(v) = "obj" /\ m.fields[<<v[2], l>>] # Nil -> m.fields[<<v[2], l>>]
    [] Kind(v) = "obj" /\ m.fields[<<v[2], l>>] = Nil /\ Kind(Lookup(v[2], l)) = "fn" ->
         Bound(Lookup(v[2], l)[2], v[2])
    [] OTHER -> Nil

Sum2(v, w) == IF Num("half") \in {v, w} THEN Num("half") ELSE Num("two")

\* Instruction i where it runs no code of the program; None if it is an error.
Plain(m, i) ==
  LET fr     == Top(m)
      R(r)   == fr.regs[r]
      Put(v) == SetTop(m, Finish(fr, i, v))
      Skip   == SetTop(m, [fr EXCEPT !.at = @ + 1])
  IN  CASE i[1] = "lct" -> Put(i[3])
        [] i[1] = "mov" -> Put(R(i[3]))
        [] i[1] = "lgl" -> Put(m.globs[i[3]])
        [] i[1] = "sgl" -> [Skip EXCEPT !.globs[i[3]] = R(i[2])]
        [] i[1] = "lup" -> Put(m.cell)
        [] i[1] = "sup" -> [Skip EXCEPT !.cell = R(i[3])]
        [] i[1] = "closure" -> Put(Closure(R(i[2])[2]))
        [] i[1] = "lpr" -> Put(Property(m, R(i[3]), R(i[4])[2]))
        [] i[1] = "spr" -> IF Kind(R(i[2])) = "obj"
                           THEN [Skip EXCEPT !.fields[<<R(i[2])[2], R(i[3])[2]>>] = R(i[4])]
                           ELSE Halt(m)
        [] i[1] = "add" -> IF {Kind(R(i[3])), Kind(R(i[4]))} = {"num"}
                           THEN Put(Sum2(R(i[3]), R(i[4]))) ELSE Halt(m)
        [] i[1] = "cat" -> Put(Name("text"))
        [] i[1] = "call" /\ Kind(R(i[2])) = "class"   -> Put(Obj(R(i[2])[2]))
        [] i[1] = "call" /\ Kind(R(i[2])) = "builtin" -> Put(Nil)
        [] i[1] = "nop" -> Skip
        [] OTHER -> Halt(m)

Return(bodies, m, v) ==
  LET fr     == Top(m)
      caller == m.frames[Len(m.frames) - 1]
      result == IF fr.makes THEN fr.regs[0] ELSE v
  IN  IF Len(m.frames) = 1 THEN Halt(m)
      ELSE SetTop([m EXCEPT !.frames = Front(@)],
                  Finish(caller, bodies[caller.blk][caller.at], result))

\* One step of machine m on the code of bodies.
Step(bodies, m, k, l) ==
  LET fr   == Top(m)
      body == bodies[fr.blk]
      to   == prog.blocks[fr.blk].to
      i    == body[fr.at]
      enter == Entered(fr, i, k, l)
  IN  CASE m.status = "halted" -> m
        [] m.status # "halted" /\ fr.at > Len(body) ->
             IF to = <<>> THEN Return(bodies, m, Nil)
             ELSE SetTop(m, [fr EXCEPT !.blk = to[1 + (k % Len(to))], !.at = 1])
        [] OTHER ->
             CASE i[1] = "ret" -> Return(bodies, m, IF i[2] = 1 THEN fr.regs[i[3]] ELSE Nil)
               [] i[1] # "ret" /\ enter = {} -> Plain(Construct(m, i), i)
               [] i[1] # "ret" /\ enter # {} /\ Len(m.frames) = MaxDepth -> Halt(m)
               [] OTHER -> [Construct(m, i) EXCEPT !.frames = Append(@, CHOOSE f \in enter : TRUE)]
=============================================================================
