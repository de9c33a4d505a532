------------------------------- MODULE Frames -------------------------------
(***************************************************************************)
(* Registers of functions: how a call is replaced by the function's body   *)
(* (strategy_inline_function, src/src/strategy.c), what becomes of a call  *)
(* whose caller has too few registers for that, and how the registers of   *)
(* each function are numbered anew at the end (optimize_compactframes,     *)
(* src/src/optimize.c).                                                    *)
(*                                                                         *)
(* A function is a sequence of blocks that run one after the other, those  *)
(* that can be reached. Where the new instructions go is the subject of    *)
(* Insertions, the facts that tell which function is called that of        *)
(* Tracking; here a call whose register was just loaded is resolved.       *)
(***************************************************************************)
EXTENDS Integers, SequencesExt

CONSTANTS
  Programs,          \* programs to optimize, see below
  Order,             \* the functions, in the order of their code
  Nil,               \* the constant that a function returns that returns nothing
  MaxInstructions,   \* size of a function that is inlined (12)
  Passes             \* number of passes (6)

ASSUME PassesAssumption == Passes \in Nat \ {0}

VARIABLES
  before,     \* the program as it was compiled
  prog,       \* the program
  required,   \* registers each function was found to need (requirednregs), or 0
  counted,    \* instructions of each function when the pass began (functioninfo)
  pass,       \* the pass; after the last one, frames are compacted
  at,         \* what is being optimized: function, block, instruction
  compacted   \* the functions whose registers were numbered anew

fvars == <<before, prog, required, counted, pass, at, compacted>>

Instr(id, op, a, b, c) == [id |-> id, op |-> op, a |-> a, b |-> b, c |-> c]

-----------------------------------------------------------------------------
(***************************************************************************)
(* The registers an instruction refers to.                                 *)
(***************************************************************************)
Calls == {"call", "invoke", "method"}

\* The registers of a call: what is called, the receiver of a method, the arguments.
Window(i) ==
  IF i.op = "call" THEN i.a .. i.a + i.b + 2 * i.c
  ELSE IF i.op \in {"invoke", "method"} THEN i.a .. i.a + i.b + 2 * i.c + 1
  ELSE {}

\* The operands that are registers by the flags of the opcode table; range: b to c.
\* What a closure captures (here c) is told by the function's upvalues.
Fields(i) ==
  CASE i.op \in {"lct", "print", "closure"} \cup Calls -> {"a"}
    [] i.op = "mov"                                    -> {"a", "b"}
    [] i.op = "add"                                    -> {"a", "b", "c"}
    [] i.op = "cat"                                    -> {"a", "range"}
    [] i.op = "lix"                                    -> {"a", "b", "range"}
    [] i.op = "return" /\ i.a > 0                      -> {"b"}
    [] OTHER                                           -> {}

\* opcode_usageforinstruction.
Uses(i) ==
  CASE i.op \in Calls                              -> Window(i)
    [] i.op = "print"                              -> {i.a}
    [] i.op = "mov" \/ (i.op = "return" /\ i.a > 0) -> {i.b}
    [] i.op = "add"                                -> {i.b, i.c}
    [] i.op = "cat"                                -> i.b .. i.c
    [] i.op = "lix"                                -> {i.a} \cup i.b .. i.c
    [] i.op = "closure"                            -> {i.a, i.c}
    [] OTHER                                       -> {}

\* opcode_overwritesforinstruction.
Overwrites(i) ==
  CASE i.op \in {"mov", "lct", "add", "cat", "call", "closure"} -> {i.a}
    [] i.op \in {"invoke", "method"}                           -> {i.a + 1}
    [] i.op = "lix"                                            -> {i.b}
    [] OTHER                                                   -> {}

Refs(i) == Uses(i) \cup Overwrites(i)

-----------------------------------------------------------------------------
(***************************************************************************)
(* Programs.                                                               *)
(***************************************************************************)
\* The operands of an instruction that name registers, and that count some.
IsInstruction(i) ==
  /\ i = Instr(i.id, i.op, i.a, i.b, i.c)
  /\ "a" \in Fields(i) \/ i.op = "return" => i.a \in Nat
  /\ Fields(i) \cap {"b", "range"} # {} \/ i.op \in Calls => i.b \in Nat
  /\ Fields(i) \cap {"c", "range"} # {} \/ i.op \in Calls \cup {"closure"} => i.c \in Nat
  /\ "range" \in Fields(i) => i.b <= i.c

IsSequence(s) == s \in Seq(ToSet(s))

\* A function has registers (nregs), parameters (nargs), optional parameters (nopt) and
\* blocks (code), of which some can be reached (live); plotfield: its name is the one
\* compaction makes an exception for. Its code stays within its registers. What
\* is called lies above the parameters, and a range of registers is among them or
\* above them: the compiler gathers both in registers of their own.
IsFunction(fn) ==
  /\ DOMAIN fn = {"nregs", "nargs", "nopt", "code", "live", "plotfield"}
  /\ fn.nregs \in Nat /\ fn.nargs \in 0 .. fn.nregs - 1
  /\ IsSequence(fn.code) /\ 1 \in fn.live /\ fn.live \subseteq DOMAIN fn.code
  /\ \A k \in DOMAIN fn.code :
       /\ IsSequence(fn.code[k])
       /\ \A n \in DOMAIN fn.code[k] :
            LET i == fn.code[k][n]
            IN  /\ IsInstruction(i) /\ Refs(i) \subseteq 0 .. fn.nregs - 1
                /\ i.op \in Calls => fn.nargs < i.a
                /\ "range" \in Fields(i) => i.c <= fn.nargs \/ fn.nargs < i.b

ASSUME FramesAssumption ==
  /\ IsSequence(Order)
  /\ \A p \in Programs : DOMAIN p = ToSet(Order) /\ \A f \in DOMAIN p : IsFunction(p[f])

-----------------------------------------------------------------------------
(***************************************************************************)
(* Instructions with other registers.                                      *)
(***************************************************************************)
\* Both rewrites leave operands alone that are not registers; map: a function of them.
MapRegisters(i, map) ==
  [i EXCEPT !.a = IF "a" \in Fields(i) THEN map[@] ELSE @,
            !.b = IF Fields(i) \cap {"b", "range"} # {} THEN map[@] ELSE @,
            !.c = IF Fields(i) \cap {"c", "range"} # {} THEN map[@] ELSE @]

-----------------------------------------------------------------------------
(***************************************************************************)
(* Inlining.                                                               *)
(***************************************************************************)
At(f, k, n) == prog[f].code[k][n]

\* The function that is called, if it is known (optimize_isconstant): it was loaded in
\* this block.
Callee(f, k, n) ==
  LET i == At(f, k, n)
      loads == {m \in 1 .. n - 1 : i.a \in Overwrites(At(f, k, m))}
      last == At(f, k, CHOOSE m \in loads : \A l \in loads : l <= m)
  IN  IF loads # {} /\ last.op = "lct" /\ last.c \in DOMAIN prog THEN {last.c} ELSE {}

\* Mutant: blocks that cannot be reached, too.
LaterAny(f, k) == {j \in DOMAIN prog[f].code : j > k}

\* The blocks after one, in order of their code, that can be reached.
Later(f, k) == {j \in prog[f].live : j > k}

\* r is used in the instructions of s before it is overwritten, or not overwritten.
UsedFirst(s, r) == \E m \in DOMAIN s : r \in Uses(s[m]) /\ \A l \in 1 .. m - 1 : r \notin Overwrites(s[l])
Kills(s, r) == \E m \in DOMAIN s : r \in Overwrites(s[m])

\* optimize_isused: whether register r is used after place n of block k.
IsUsed(f, k, n, r) ==
  LET rest == SubSeq(prog[f].code[k], n + 1, Len(prog[f].code[k]))
  IN  \/ UsedFirst(rest, r)
      \/ /\ ~Kills(rest, r)
         /\ \E h \in Later(f, k) :
              /\ UsedFirst(prog[f].code[h], r)
              /\ \A j \in Later(f, k) : j < h => ~Kills(prog[f].code[j], r)

\* Mutant: what is used after the call may be overwritten.
HighestOfWindow(f, k, n) ==
  LET i == At(f, k, n) IN i.a + i.b + (IF i.op = "method" THEN 1 ELSE 0)

\* The last register that the locals of the callee must not take.
Highest(f, k, n) ==
  LET i == At(f, k, n)
      used == {r \in 0 .. prog[f].nregs - 1 : IsUsed(f, k, n, r)}
  IN  Max(used \cup {i.a + i.b + (IF i.op = "method" THEN 1 ELSE 0)})

\* _strategy_inlinebase: registers needed to inline g at the site.
Needs(f, k, n, g) == Highest(f, k, n) + Max({prog[g].nregs - At(f, k, n).b - 1, 0}) + 1

\* The register that holds what is passed as r0, and later the result.
Base(i) == IF i.op \in {"invoke", "method"} THEN i.a + 1 ELSE i.a

\* Mutant: the locals of the callee begin one register too low.
InlineRegisterFromHighest(i, highest, r) == IF r <= i.b THEN Base(i) + r ELSE highest + (r - i.b - 1)

\* _strategy_inlineregister: the parameters are where the arguments are.
InlineRegister(i, highest, r) == IF r <= i.b THEN Base(i) + r ELSE highest + 1 + (r - i.b - 1)

\* _strategy_inlineinstruction: instruction j of the callee, in the place of call i.
InlineInstruction(i, highest, j) ==
  LET map == [r \in Uses(j) \cup Overwrites(j) |-> InlineRegister(i, highest, r)]
  IN  CASE j.op = "return" /\ j.a = 0                        -> Instr(j.id, "lct", Base(i), 0, Nil)
        [] j.op = "return" /\ j.a > 0 /\ map[j.b] = Base(i) -> Instr(j.id, "nop", 0, 0, 0)
        [] j.op = "return" /\ j.a > 0 /\ map[j.b] # Base(i) -> Instr(j.id, "mov", Base(i), map[j.b], 0)
        [] OTHER                                             -> MapRegisters(j, map)

\* The functions strategy_inline_function accepts for call i in f: one block, without
\* what needs a frame of its own, that returns.
Inlinable(f, i, g) ==
  LET body == prog[g].code[1]
  IN  /\ g # f /\ i.op \in {"call", "method"}
      /\ i.c = 0 /\ prog[g].nopt = 0 /\ i.b = prog[g].nargs
      /\ prog[g].live = {1} /\ counted[g] <= MaxInstructions
      /\ \A m \in DOMAIN body : body[m].op \notin {"closure", "invoke", "method"}
      /\ \E m \in DOMAIN body : body[m].op = "return"

\* The calls of a block from place n on that strategy_inline_function accepts.
Sites(f, k, n) ==
  {m \in n .. Len(prog[f].code[k]) : \E g \in Callee(f, k, m) : Inlinable(f, At(f, k, m), g)}

\* The body of function g, for the call at place n.
Inlined(f, k, n, g) ==
  LET body == prog[g].code[1]
  IN  [m \in DOMAIN body |-> InlineInstruction(At(f, k, n), Highest(f, k, n), body[m])]

Replaced(s, n, t) == SubSeq(s, 1, n - 1) \o t \o SubSeq(s, n + 1, Len(s))

-----------------------------------------------------------------------------
(***************************************************************************)
(* The passes.                                                             *)
(***************************************************************************)
Here == Order[at.f]
Scanning == pass <= Passes /\ at.f <= Len(Order)
Site == Min(Sites(Here, at.k, at.n))

\* strategy_inline_function, with registers enough: the block starts again.
Inline ==
  /\ Scanning /\ Sites(Here, at.k, at.n) # {}
  /\ \E g \in Callee(Here, at.k, Site) :
       /\ Needs(Here, at.k, Site, g) <= prog[Here].nregs
       /\ prog' = [prog EXCEPT ![Here].code[at.k] = Replaced(@, Site, Inlined(Here, at.k, Site, g))]
  /\ at' = [at EXCEPT !.n = 1]
  /\ UNCHANGED <<before, required, counted, pass, compacted>>

\* strategy_inline_function, with too few: optimize_requirenregs notes how many would
\* do, the most if there are several such calls.
PutOff ==
  /\ Scanning /\ Sites(Here, at.k, at.n) # {}
  /\ \E g \in Callee(Here, at.k, Site) :
       LET needs == Needs(Here, at.k, Site, g)
       IN  /\ needs > prog[Here].nregs
           /\ required' = [required EXCEPT ![Here] = Max({@, needs})]
  /\ at' = [at EXCEPT !.n = Site + 1]
  /\ UNCHANGED <<before, prog, counted, pass, compacted>>

\* The next block that can be reached (optimize_pass).
NextBlock ==
  /\ Scanning /\ Sites(Here, at.k, at.n) = {}
  /\ at' = LET next == Later(Here, at.k)
           IN  IF next # {} THEN [f |-> at.f, k |-> Min(next), n |-> 1]
                            ELSE [f |-> at.f + 1, k |-> 1, n |-> 1]
  /\ UNCHANGED <<before, prog, required, counted, pass, compacted>>

\* Reachable instructions of each function (optimize_functionstructure_visitblock).
CountInstructions(p) ==
  [f \in DOMAIN p |->
     LET size[k \in 0 .. Len(p[f].code)] ==
           IF k = 0 THEN 0 ELSE size[k - 1] + (IF k \in p[f].live THEN Len(p[f].code[k]) ELSE 0)
     IN  size[Len(p[f].code)]]

\* Mutant: only the first function gets more registers.
EnlargedFirst == [prog EXCEPT ![Order[1]].nregs = Max({@, required[Order[1]]})]

\* optimize_applyrequirednregs.
Enlarged == [f \in DOMAIN prog |-> [prog[f] EXCEPT !.nregs = Max({@, required[f]})]]

NextPass ==
  /\ pass <= Passes /\ at.f > Len(Order)
  /\ pass' = pass + 1
  /\ IF pass < Passes
     THEN /\ prog' = Enlarged
          /\ required' = [f \in DOMAIN prog |-> 0]
          /\ counted' = CountInstructions(prog)
          /\ at' = [f |-> 1, k |-> 1, n |-> 1]
     ELSE UNCHANGED <<prog, required, counted, at>>
  /\ UNCHANGED <<before, compacted>>

-----------------------------------------------------------------------------
(***************************************************************************)
(* Numbering registers anew (optimize_compactframes).                      *)
(***************************************************************************)
Code(f) == UNION {ToSet(prog[f].code[k]) : k \in prog[f].live}

\* The registers that are kept: the entry window and those the code refers to.
Used(f) == (0 .. prog[f].nargs) \cup UNION {Uses(i) \cup Overwrites(i) : i \in Code(f)}

\* _optimize_requiredinstructionregs: room for the arguments of every call.
Room(f) == Max({prog[f].nargs + 1} \cup UNION {{r + 1 : r \in Window(i)} : i \in Code(f)})

\* The upvalues of a closure name registers, and have to stay.
CanRemap(f) == ~prog[f].plotfield /\ \A i \in Code(f) : i.op # "closure"

\* Every register goes to the first that is free. The ranges of instructions stay
\* ranges, so that _optimize_iscontiguousrange finds no other.
Dense(f, r) == Cardinality({q \in Used(f) : q < r})

\* _optimize_remapinstruction, in the blocks that can be reached.
Remapped(f) ==
  LET dense == [r \in Used(f) |-> Dense(f, r)]
  IN  [k \in DOMAIN prog[f].code |->
         [n \in DOMAIN prog[f].code[k] |-> MapRegisters(At(f, k, n), dense)]]

\* A function with a block that cannot be reached is left as it is.
Compact(f) ==
  /\ pass > Passes /\ f \notin compacted
  /\ compacted' = compacted \cup {f}
  /\ prog' =
       IF prog[f].live # DOMAIN prog[f].code THEN prog
       ELSE IF CanRemap(f)
       THEN [prog EXCEPT ![f].code = Remapped(f), ![f].nregs = Max({Cardinality(Used(f)), Room(f)})]
       ELSE [prog EXCEPT ![f].nregs = Max({Max(Used(f)) + 1, Room(f)})]
  /\ UNCHANGED <<before, required, counted, pass, at>>

Init ==
  /\ prog \in Programs
  /\ before = prog
  /\ required = [f \in DOMAIN prog |-> 0]
  /\ counted = CountInstructions(prog)
  /\ pass = 1
  /\ at = [f |-> 1, k |-> 1, n |-> 1]
  /\ compacted = {}

Next == Inline \/ PutOff \/ NextBlock \/ NextPass \/ \E f \in ToSet(Order) : Compact(f)

Spec == Init /\ [][Next]_fvars /\ WF_fvars(Next)

-----------------------------------------------------------------------------
(***************************************************************************)
(* Properties.                                                             *)
(***************************************************************************)
TypeOK ==
  /\ DOMAIN prog = ToSet(Order) /\ \A f \in DOMAIN prog : IsFunction(prog[f])
  /\ required \in [ToSet(Order) -> Nat]
  /\ \A f \in DOMAIN prog : required[f] = 0 \/ required[f] > prog[f].nregs
  /\ pass \in 1 .. Passes + 1 /\ compacted \subseteq ToSet(Order)
  /\ at \in [f : 1 .. Len(Order) + 1, k : Nat \ {0}, n : Nat \ {0}]
  /\ at.f <= Len(Order) => at.k \in prog[Here].live

\* The registers at the same places of instructions i and j, those of windows and ranges
\* included.
Pairs(i, j) ==
  {<<i.a, j.a>> : x \in Fields(i) \cap {"a"}}
    \cup {<<i.b, j.b>> : x \in Fields(i) \cap {"b"}}
    \cup {<<i.c, j.c>> : x \in Fields(i) \cap {"c"}}
    \cup {<<r, r + j.a - i.a>> : r \in Window(i)}
    \cup {<<r, r + j.b - i.b>> : r \in IF "range" \in Fields(i) THEN i.b .. i.c ELSE {}}

OneToOne(P) == \A p, q \in P : p[1] = q[1] <=> p[2] = q[2]

\* What the callee's registers have become, those of its parameters included.
InlinedPairs(i, body, new) ==
  {<<r, Base(i) + r>> : r \in 0 .. i.b}
    \cup UNION {Pairs(body[m], new[m]) : m \in {x \in DOMAIN body : body[x].op # "return"}}

RenumberedPairs(fn, code) ==
  {<<r, r>> : r \in 0 .. fn.nargs}
    \cup UNION {UNION {Pairs(fn.code[k][n], code[k][n]) : n \in DOMAIN fn.code[k]} : k \in fn.live}

\* When a call is inlined, the callee's registers stay apart, its parameters are where
\* the call had put them, and the others are not used any more by the caller; all of
\* them are within its frame.
InliningApart ==
  \A g \in Callee(Here, at.k, Site) :
    LET i    == At(Here, at.k, Site)
        body == prog[g].code[1]
        new  == SubSeq(prog'[Here].code[at.k], Site, Site + Len(body) - 1)
    IN  /\ OneToOne(InlinedPairs(i, body, new))
        /\ \A p \in InlinedPairs(i, body, new) :
             /\ p[2] \in 0 .. prog[Here].nregs - 1
             /\ p[2] \in Window(i) \/ ~IsUsed(Here, at.k, Site, p[2])

\* When the registers of a function are numbered anew, they stay apart, parameters stay
\* where they are, and all are within the smaller frame.
CompactionApart ==
  \A f \in compacted' \ compacted :
    LET P == RenumberedPairs(prog[f], prog'[f].code)
    IN  /\ OneToOne(P)
        /\ \A p \in P : p[2] \in 0 .. prog'[f].nregs - 1
        /\ prog'[f].nregs <= prog[f].nregs

\* No two registers become one.
RegistersApart == [][(Inline => InliningApart) /\ CompactionApart]_fvars

\* A call that was put off for want of registers is inlined in a later pass.
NothingPutOff ==
  pass > Passes => \A f \in DOMAIN prog : \A k \in prog[f].live : Sites(f, k, 1) = {}
=============================================================================
