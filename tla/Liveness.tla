------------------------------ MODULE Liveness ------------------------------
(***************************************************************************)
(* Which classes and functions of a program are in use, and the pruning of *)
(* the others (src/src/optimize.c): before the passes, the methods of      *)
(* classes that no code could make an object of; after them, the functions *)
(* that no code could call. Both look for the values that reach registers  *)
(* by going over the code of a function once, in the order of its blocks.  *)
(*                                                                         *)
(* Then the program runs, as it was compiled and as it was left, side by   *)
(* side.                                                                   *)
(***************************************************************************)
EXTENDS Inputs

VARIABLES
  components,   \* what is left to search for classes, first to last
  seen,         \* what has been searched
  built,        \* classes whose construction was seen (classinfo.constructed)
  live,         \* functions found in use
  work,         \* those whose code is still to be scanned, last first
  keepmethods,  \* disablemethodpruning
  regs, todo,   \* the constants thought to be in registers, and the code left to scan
  was, now      \* the machines

scanvars  == <<regs, todo>>
classvars == <<components, seen, built>>
livevars  == <<live, work, keepmethods>>
vars == <<prog, code, phase, kept, known, pass, flow, classvars, livevars, scanvars, was, now>>

-----------------------------------------------------------------------------
(***************************************************************************)
(* What the scans share (_optimize_ipascanfunction): a scan of a function  *)
(* takes an instruction at a time from todo, and puts what it finds into   *)
(* the registers and known.glist.                                          *)
(***************************************************************************)
\* Only constants a call could reach are told apart.
Stored(gl, g, v) ==
  LET one == [gl EXCEPT ![g].nstore = @ + 1]
  IN  IF Kind(v) \in {"fn", "meta", "class", "name"} THEN SetConstant(one, g, v)
                                                    ELSE SetValue(one, g)

GlobalConstant(gl, g) == IF gl[g].contents = "constant" THEN gl[g].val ELSE Nil

\* The registers and globals after instruction i.
After(i) ==
  CASE i[1] = "lct" -> [regs EXCEPT ![i[2]] = i[3]]
    [] i[1] = "mov" -> [regs EXCEPT ![i[2]] = regs[i[3]]]
    [] i[1] = "lgl" -> [regs EXCEPT ![i[2]] = GlobalConstant(known.glist, i[3])]
    [] i[1] \in {"call", "method", "invoke", "lpr", "lup", "add", "cat", "lix"} ->
         [r \in Reg |-> IF r \in ResultOf(i) .. ResultOf(i) + NArgs(i) THEN Nil ELSE regs[r]]
    [] OTHER -> regs

Globals(i, stores) ==
  CASE i[1] = "lgl" -> [known.glist EXCEPT ![i[3]].nread = @ + 1]
    [] i[1] = "sgl" /\ stores -> Stored(known.glist, i[3], regs[i[2]])
    [] OTHER -> known.glist

\* The scan of a function begins, and goes over an instruction.
StartScan(f) ==
  /\ regs' = [r \in Reg |-> Nil]
  /\ todo' = IF f \in kept
             THEN FlattenSeq([j \in DOMAIN BlocksOf(f) |-> code[BlocksOf(f)[j]]]) ELSE <<>>

Scan(stores) ==
  /\ todo # <<>>
  /\ regs' = After(Head(todo))
  /\ known' = [known EXCEPT !.glist = Globals(Head(todo), stores)]
  /\ todo' = Tail(todo)

-----------------------------------------------------------------------------
(***************************************************************************)
(* Classes.                                                                *)
(***************************************************************************)
ClassesIn(V) == {v[2] : v \in {w \in V : Kind(w) = "class"}}

\* Classes that instruction i loads from a global, calls or passes on.
Uses(i) ==
  CASE i[1] = "lgl" -> ClassesIn({GlobalConstant(known.glist, i[3])})
    [] IsCallLike(i) -> ClassesIn({regs[r] : r \in ResultOf(i) .. ResultOf(i) + NArgs(i)})
    [] OTHER -> {}

\* _optimize_classinfo_processcomponent. Every class among the constants of a
\* function other than the program's own counts as used.
TakeComponent ==
  /\ phase = "classes" /\ components # <<>> /\ todo = <<>>
  /\ LET v == Head(components)
         Declared == IF v[2] = "main" THEN {} ELSE ClassesIn(ToSet(prog.konst[v[2]]))
     IN  CASE v \in seen \/ Kind(v) \notin {"fn", "meta"} ->
                components' = Tail(components) /\ UNCHANGED <<seen, built, scanvars>>
           [] v \notin seen /\ Kind(v) = "fn" ->
                /\ components' = prog.konst[v[2]] \o Tail(components)
                /\ seen' = seen \cup {v}
                /\ built' = built \cup Declared
                /\ StartScan(v[2])
           [] OTHER ->
                /\ components' = [j \in DOMAIN prog.metas[v[2]] |-> Fn(prog.metas[v[2]][j])]
                                   \o Tail(components)
                /\ seen' = seen \cup {v}
                /\ UNCHANGED <<built, scanvars>>
  /\ UNCHANGED <<prog, code, phase, kept, known, pass, flow, livevars, was, now>>

\* The program's own code is the first that is scanned, and the only one whose
\* stores of globals count here.
ScanForClasses ==
  /\ phase = "classes"
  /\ Scan(seen = {Fn("main")})
  /\ built' = built \cup Uses(Head(todo))
  /\ UNCHANGED <<prog, code, phase, kept, pass, flow, components, seen, livevars, was, now>>

\* Mutant: the classes derived from a class are not asked.
IsDeadAlone(c) == c \notin built

\* A class is dead if no object of it or of a class derived from it is made.
IsDeadClass(c) == \A d \in Class : c \in Ancestors(d) => d \notin built

PruneClasses ==
  /\ phase = "classes" /\ components = <<>> /\ todo = <<>>
  /\ kept' = {f \in kept : IsMethod(f) => ~IsDeadClass(prog.klass[f])}
  /\ phase' = "pass"
  /\ UNCHANGED <<prog, code, known, pass, flow, classvars, livevars, scanvars, was, now>>

-----------------------------------------------------------------------------
(***************************************************************************)
(* Functions. S holds live, work and keepmethods. Functions that are found *)
(* at once are queued in the order of their code; the source queues them   *)
(* in the order of the classes and of the methods in their dictionaries.   *)
(***************************************************************************)
FuncOrder ==
  LET first == SelectSeq([b \in Blocks |-> b], LAMBDA b : b = Entry(FuncOf(b)))
  IN  [j \in DOMAIN first |-> FuncOf(first[j])]

\* Mutant: a function that was found is not noted.
MarkUnnoted(S, F) ==
  [S EXCEPT !.work = @ \o SelectSeq(FuncOrder, LAMBDA f : f \in F \ S.live)]

Mark(S, F) ==
  [S EXCEPT !.live = @ \cup F,
            !.work = @ \o SelectSeq(FuncOrder, LAMBDA f : f \in F \ S.live)]

\* _optimize_marklivecallable, for all values of V.
Callable(V) ==
  UNION {IF Kind(v) = "class" THEN FunctionsOf(Lookup(v[2], "init")) ELSE FunctionsOf(v) : v \in V}

AllMethods == UNION {Methods(c) : c \in Class}
Named(l)   == {Lookup(c, l) : c \in Class}

\* Any method may be called by name, or a property of that name be called.
MarkLabel(S, v) ==
  CASE Kind(v) # "name" -> S
    [] Kind(v) = "name" /\ v[2] = "invoke" ->
         [Mark(S, Callable(AllMethods)) EXCEPT !.keepmethods = TRUE]
    [] OTHER -> Mark(S, Callable(Named(v[2])))

IsUntrusted(v) == Kind(v) = "builtin" /\ v[2] \in prog.untrusted

\* A built-in function that may call back could call any method.
Preserve(S, v) ==
  IF /\ ~S.keepmethods
     /\ \/ IsUntrusted(v)
        \/ Kind(v) = "name" /\ \E m \in Named(v[2]) : IsUntrusted(m)
  THEN [Mark(S, Callable(AllMethods)) EXCEPT !.keepmethods = TRUE]
  ELSE S

\* The functions that instruction i calls, passes on or lets escape
\* (_optimize_functionscansteps, and the store of a global).
FunctionUses(S, i) ==
  LET R(r) == regs[r]
      Passed1(lo) == {R(r) : r \in lo .. lo + i[3] - 1}
      Called(v)   == Preserve(S, v)
      resolved    == i[1] = "method" /\ Kind(R(i[2])) # "name"
  IN  CASE i[1] = "call" ->
             Mark(Called(R(i[2])), Callable({R(i[2])} \cup Passed1(i[2] + 1)))
        [] IsCallLike(i) /\ resolved ->
             Mark(Called(R(i[2])), Callable({R(i[2])} \cup Passed1(i[2] + 2)))
        [] i[1] \in {"invoke", "method"} /\ ~resolved ->
             Mark(MarkLabel(Called(R(i[2])), R(i[2])), Callable(Passed1(i[2] + 2)))
        [] i[1] = "ret" /\ i[2] > 0 -> Mark(S, Callable({R(i[3])}))
        [] i[1] \in {"sgl", "closure"} -> Mark(S, Callable({R(i[2])}))
        [] i[1] = "spr" -> Mark(S, Callable({R(i[4])}))
        [] i[1] = "sup" -> Mark(S, Callable({R(i[3])}))
        [] i[1] = "lpr" -> MarkLabel(S, R(i[4]))
        [] i[1] = "lix" -> MarkLabel(S, Name("index"))
        [] i[1] = "cat" -> Mark(S, Callable(Named("tostring")))
        [] i[1] = "add" -> Mark(S, Callable(Named("add") \cup Named("addr")))
        [] OTHER -> S

\* Escaped functions count as live from the start.
BeginFunctions ==
  /\ phase = "functions" /\ live = {}
  /\ LET escaped == {f \in kept \ {"main"} : "escapes" \in known.flags[f]}
     IN  /\ live' = {"main"} \cup escaped
         /\ work' = <<"main">> \o SelectSeq(FuncOrder, LAMBDA f : f \in escaped)
  /\ known' = [known EXCEPT !.glist = StartPass(@)]
  /\ UNCHANGED <<prog, code, phase, kept, pass, flow, classvars, keepmethods, scanvars, was, now>>

TakeFunction ==
  /\ phase = "functions" /\ work # <<>> /\ todo = <<>>
  /\ work' = Front(work)
  /\ StartScan(Last(work))
  /\ UNCHANGED <<prog, code, phase, kept, known, pass, flow, classvars, live, keepmethods, was, now>>

ScanForFunctions ==
  /\ phase = "functions"
  /\ Scan(TRUE)
  /\ LET found == FunctionUses([live |-> live, work |-> work, keepmethods |-> keepmethods],
                               Head(todo))
     IN  live' = found.live /\ work' = found.work /\ keepmethods' = found.keepmethods
  /\ UNCHANGED <<prog, code, phase, kept, pass, flow, classvars, was, now>>

\* optimize_prunedeadfunctionblocks.
Stays(f) ==
  \/ f \in live
  \/ "escapes" \in known.flags[f]
  \/ keepmethods /\ IsMethod(f)

PruneFunctions ==
  /\ phase = "functions" /\ live # {} /\ work = <<>> /\ todo = <<>>
  /\ kept' = {f \in kept : f = "main" \/ Stays(f)}
  /\ phase' = "run"
  /\ UNCHANGED <<prog, code, known, pass, flow, classvars, livevars, scanvars, was, now>>

\* Both machines run on. Where the program may go on in several ways, both do the
\* same.
Run ==
  /\ phase = "run"
  /\ \E k \in 0 .. 1, l \in Label :
       /\ was' = Step([b \in Blocks |-> prog.blocks[b].body], was, k, l)
       /\ now' = Step(code, now, k, l)
  /\ UNCHANGED <<prog, code, phase, kept, known, pass, flow, classvars, livevars, scanvars>>

-----------------------------------------------------------------------------
Init ==
  /\ prog \in Programs
  /\ code = [b \in Blocks |-> prog.blocks[b].body]
  /\ phase = "classes"
  /\ kept = Funcs
  /\ known = Known0
  /\ pass = 0
  /\ worklist = <<>> /\ visited = {} /\ changes = 0 /\ claims = {}
  /\ rin = [b \in Blocks |-> NoInput] /\ rout = rin
  /\ current = NoBlock /\ pos = 1 /\ rlist = NoInput
  /\ components = <<Fn("main")>> /\ seen = {} /\ built = {}
  /\ live = {} /\ work = <<>> /\ keepmethods = FALSE
  /\ regs = [r \in Reg |-> Nil] /\ todo = <<>>
  /\ was = Boot /\ now = Boot

Optimize ==
  \/ TakeComponent \/ ScanForClasses \/ PruneClasses
  \/ PassNext /\ UNCHANGED <<classvars, livevars, scanvars, was, now>>
  \/ BeginFunctions \/ TakeFunction \/ ScanForFunctions \/ PruneFunctions

Next == Optimize \/ Run

Spec == Init /\ [][Next]_vars /\ WF_vars(Optimize)

-----------------------------------------------------------------------------
(***************************************************************************)
(* Properties.                                                             *)
(***************************************************************************)
TypeOK ==
  /\ phase \in {"classes", "pass", "flow", "rewrite", "functions", "run"}
  /\ kept \subseteq Funcs /\ live \subseteq Funcs /\ built \subseteq Class
  /\ ToSet(work) \subseteq live
  /\ known.flags \in [Funcs -> SUBSET Flag]
  /\ \A f \in Funcs : known.inputs[f] \in RegInfoList
  /\ \A g \in Glob : known.glist[g].contents = "constant" => known.glist[g].val \in Index
  /\ rlist \in RegInfoList
  /\ \A b \in Blocks : rin[b] \in RegInfoList /\ rout[b] \in RegInfoList
  /\ DOMAIN code = Blocks
  /\ \A b \in Blocks : Len(code[b]) = Len(prog.blocks[b].body)

\* No function the program enters, by whatever way the function's value got
\* there, was pruned: neither as a method of a class nobody makes objects of
\* (optimize_prunedeadclassblocks) nor as one nobody calls
\* (optimize_prunedeadfunctionblocks).
KeepsCalled ==
  phase = "run" => \A j \in DOMAIN was.frames : was.frames[j].func \in kept

\* Value v is what fact f says, as far as it speaks of constants and types.
True(f, v) ==
  /\ f.contents = "constant" => v = f.indx
  /\ f.type # NoType => \/ f.typeinfo = EXACT   /\ TypeOf(v) = f.type
                        \/ f.typeinfo = SUBTYPE /\ f.type \in Ancestors(TypeOf(v))

\* What any pass concluded of the arguments of a function and of what reaches
\* its blocks is true each time the program enters one of them: every call was
\* seen, or the function was known to escape.
InputsHold ==
  phase = "run" /\ was.status = "running" /\ Top(was).at = 1 =>
    \A facts \in claims, r \in Reg : True(facts[Top(was).blk][r], Top(was).regs[r])

\* With loads of globals made constants and stores deleted, the program goes the
\* same way, with the same values in its registers, properties and upvalues.
BehaviourKept == phase = "run" => [was EXCEPT !.globs = now.globs] = now

\* The analyses of the passes and the search for live functions end, though each
\* function wakes all others when something is learnt of it.
Completes == <>(phase = "run")
=============================================================================
