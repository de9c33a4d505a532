------------------------------ MODULE Tracking ------------------------------
(***************************************************************************)
(* The inside of a basic block: the forward walk of optimize_block and     *)
(* optimize_transferblock (src/src/optimize.c), which for each instruction *)
(* records its uses, lets a strategy rewrite it, and then runs the opcode's*)
(* tracking function (src/src/opcodes.c) to update what is known about     *)
(* each register.                                                          *)
(*                                                                         *)
(* The walk is run side by side with the program it describes: `source' is *)
(* a machine that executes every instruction as the compiler emitted it,   *)
(* `target' one that executes what the strategies left in its place. A     *)
(* fact is right if it is true of the source machine, and a rewrite is     *)
(* right if the two machines stay the same.                                *)
(*                                                                         *)
(* Use counts, and the deletion of earlier instructions they allow, are    *)
(* left out here.                                                          *)
(***************************************************************************)
EXTENDS Strategies

CONSTANTS
  Here,         \* the index of an instruction of this block: a fact is told
                \* by it from one that another block made
  BlockInput,   \* the facts a block may start from (block.rin)
  Prototypes,   \* the local registers each closure of this function captures
  Reassigned,   \* those that code outside this function assigns to
  Overloads,    \* values whose class gives operators and indexing a method
  Modified,     \* globals and upvalues those methods assign to
  AllowSelfMove \* whether the compiler's code holds moves onto themselves

ASSUME HereAssumption == Here \in Pc
ASSUME FrameAssumption ==
  /\ Prototypes \subseteq SUBSET Reg
  /\ Reassigned \subseteq Reg
  /\ Overloads \subseteq {v \in Val : TypeOf[v] \notin {IntType, FloatType}}
  /\ Modified \subseteq Glob \cup Upv
  /\ AllowSelfMove \in BOOLEAN
\* Aliases are dropped where a block begins (_resolvejoinfact).
ASSUME InputAssumption ==
  /\ BlockInput \subseteq RegInfoList
  /\ \A rl \in BlockInput, r \in Reg : InRange(rl[r]) /\ rl[r].alias = NoReg

VARIABLES
  source,     \* the machine running the compiler's instructions
  target,     \* the machine running the rewritten instructions
  rlist,      \* opt->rlist
  captured    \* registers an open upvalue of some closure points at

vars == <<source, target, rlist, captured>>

-----------------------------------------------------------------------------
(***************************************************************************)
(* Steps: one for each kind of instruction.                                *)
(***************************************************************************)
\* The block starts with facts that are true of the machine that enters it, and
\* with the locals captured that earlier blocks made closures over.
Init ==
  /\ rlist \in BlockInput
  /\ source \in Machine
  /\ Mirrors(rlist, source) /\ Types(rlist, source)
  /\ GlobalsOK(source.glob)
  /\ target = source
  /\ captured \in SUBSET UNION Prototypes

\* One turn of the loop over a block, for an instruction the strategies above
\* look at. No rewrite is made when the block is only simulated, and none can
\* be when an earlier instruction is deleted in this turn.
Turn(i) ==
  \E new \in {i} \cup (IF Returning(rlist, i) THEN {Rewrite(rlist, i, {Here})} ELSE {}) :
    /\ source' = Exec(source, i)
    /\ target' = Exec(target, new)
    /\ rlist'  = Track(rlist, Here, new)
    /\ UNCHANGED captured

Move(a, b)         == (a # b \/ AllowSelfMove) /\ Turn(Mov(a, b))
LoadConstant(a, k) == Turn(Lct(a, k))
LoadGlobal(a, g)   == Turn(<<"lgl", a, g, 0>>)
LoadUpvalue(a, u)  == Turn(<<"lup", a, u, 0>>)
StoreUpvalue(u, b) == Turn(<<"sup", u, b, 0>>)
PrintValue(a)      == Turn(<<"print", a, 0, 0>>)

Operator(op, a, b, c) ==
  /\ {source.regs[b], source.regs[c]} \cap Overloads = {}
  /\ Turn(<<op, a, b, c>>)

StoreGlobal(a, g) ==
  LET Store(m) == [m EXCEPT !.glob[g] = m.regs[a]]
  IN  /\ Satisfies(source.regs[a], GlobalType[g].type, GlobalType[g].typeinfo)
      /\ source' = Store(source)
      /\ target' = Store(target)
      /\ rlist'  = Invalidate(rlist, "global", g)
      /\ UNCHANGED captured

\* Instructions with a result about which nothing is assumed (lpr, lix, lixl).
LoadElement(a, b) ==
  \E v \in Val :
    /\ source.regs[b] \notin Overloads
    /\ source' = SetReg(source, a, v)
    /\ target' = SetReg(target, a, v)
    /\ rlist'  = WriteValues(rlist, Here, {a})
    /\ UNCHANGED captured

\* An operator or an index whose first operand's class has a method for it:
\* the method runs and gives the result. The tracking functions are those of
\* any operator (arith) and index (lix).
Overloaded(a, b, c, index) ==
  /\ source.regs[b] \in Overloads
  /\ \E v \in Val, o \in Outcomes(captured \cap Reassigned, Modified) :
       /\ source' = SetReg(After(source, o), a, v)
       /\ target' = SetReg(After(target, o), a, v)
  /\ rlist' = IF index THEN WriteValues(rlist, Here, {a}) ELSE TrackArith(rlist, Here, a, b, c)
  /\ UNCHANGED captured

\* A call overwrites its window, globals, upvalues and what closures captured
\* of this frame. The tracker takes the callee from a constant in a where the
\* instruction is call or method; invoke looks its method up.
Call(a, d, n, resolved) ==
  /\ d + n < NReg
  /\ \E o \in Outcomes((d .. d + n) \cup (captured \cap Reassigned), Glob \cup Upv) :
       /\ resolved => Satisfies(o.regs[d], Returns[source.regs[a]].type,
                                           Returns[source.regs[a]].typeinfo)
       /\ source' = After(source, o)
       /\ target' = After(target, o)
  /\ rlist' = TrackCall(rlist, Here, a, d, n, resolved)
  /\ UNCHANGED captured

\* closure: opens an upvalue on every local register of the prototype.
MakeClosure(a, P) ==
  \E v \in {v \in Val : TypeOf[v] = ClosureType} :
    /\ source'   = SetReg(source, a, v)
    /\ target'   = SetReg(target, a, v)
    /\ rlist'    = WriteTyped(rlist, Here, a, ClosureType)
    /\ captured' = captured \cup P

\* closeup: the upvalues from register a on no longer point at the frame.
CloseUpvalues(a) ==
  /\ captured \cap (a .. NReg - 1) # {}
  /\ captured' = {r \in captured : r < a}
  /\ UNCHANGED <<source, target, rlist>>

Next ==
  \/ \E a, b \in Reg : Move(a, b)
  \/ \E a \in Reg, k \in Val : LoadConstant(a, k)
  \/ \E a \in Reg, g \in Glob : LoadGlobal(a, g) \/ StoreGlobal(a, g)
  \/ \E a \in Reg, u \in Upv : LoadUpvalue(a, u) \/ StoreUpvalue(u, a)
  \/ \E a, b, c \in Reg : Operator("arith", a, b, c) \/ Operator("compare", a, b, c)
  \/ \E a \in Reg : PrintValue(a)
  \/ \E a, b \in Reg : LoadElement(a, b)
  \/ \E a, b, c \in Reg, index \in BOOLEAN : Overloaded(a, b, c, index)
  \/ \E a \in Reg, n \in 0 .. NReg : Call(a, a, n, TRUE)
  \/ \E a \in Reg, n \in 0 .. NReg, resolved \in BOOLEAN : Call(a, a + 1, n, resolved)
  \/ \E a \in Reg, P \in Prototypes : MakeClosure(a, P)
  \/ \E a \in Reg : CloseUpvalues(a)

Spec == Init /\ [][Next]_vars

-----------------------------------------------------------------------------
(***************************************************************************)
(* Properties.                                                             *)
(***************************************************************************)
TypeOK ==
  /\ source \in Machine
  /\ target \in Machine
  /\ rlist \in RegInfoList
  /\ \A r \in Reg : InRange(rlist[r])
  /\ captured \subseteq Reg

\* A register whose fact names a constant, global or upvalue holds what that
\* location holds now: strategy_duplicate_load, constant folding and call
\* resolution read the location through the register (opcodes.c:63-358).
MirrorsSound == Mirrors(rlist, source)

\* Two registers recorded as aliases hold the same value, however many copies,
\* stores and calls lie between the copy and now (reginfo.c:292-328).
AliasesSound == Aliases(rlist, source)

\* A register holds a value of the class on record, and exactly of that class
\* where the fact says so; method resolution picks its callee by it.
TypesSound == Types(rlist, source)

\* What the strategies leave of a block leaves every register, global and
\* upvalue as the compiler's instructions do.
RewritesPreserve == target = source

\* The register that stands in for another as an operand holds its value
\* (strategy_register_replacement, strategy.c:266-310).
OriginalsSound ==
  \A r \in Reg : \A x \in WalkEnds(rlist, r) : source.regs[x] = source.regs[r]

\* Tracing a register back through its aliases comes to an end
\* (optimize_findoriginalregister, optimize.c:567-576).
AliasWalksEnd == \A r \in Reg : WalkEnds(rlist, r) # {}
=============================================================================
