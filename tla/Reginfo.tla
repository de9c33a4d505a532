------------------------------ MODULE Reginfo ------------------------------
(***************************************************************************)
(* What the optimizer knows about the contents of a register: the fact     *)
(* record of src/src/reginfo.h and the operations of src/src/reginfo.c.    *)
(*                                                                         *)
(* A list of facts (reginfolist) is a function on Reg, so the bounds       *)
(* checks `rindx>=rlist->nreg' of the C become the domain of the function. *)
(* The pair (hasalias, alias) is one field that is NoReg when hasalias is  *)
(* false, and the index of a fact whose contents carry no index is         *)
(* NoIndex (the C stores 0 there and never reads it).                      *)
(***************************************************************************)
EXTENDS Integers, Sequences

CONSTANTS
  NReg,       \* registers in the frame (objectfunction.nregs)
  Index,      \* constant table entries, globals and upvalues
  NoIndex,
  Pc,         \* instruction indices
  Type,       \* classes
  NoType,     \* MORPHO_NIL in a type field
  Lin         \* Lin[t]: the linearization of class t, t itself first

Reg   == 0 .. NReg - 1
NoReg == -1
NoPc  == -1                                   \* INSTRUCTIONINDX_EMPTY

\* regcontents, regusage and regtypeinfo; the last is ordered, as the enum is.
Contents == {"nofact", "value", "typedvalue", "constant", "global", "upvalue"}
Usage    == {"none", "read", "written", "readwritten"}

UNKNOWN == 0
EXACT   == 1
SUBTYPE == 2
TypeInfo == {UNKNOWN, EXACT, SUBTYPE}

RegInfo == [contents : Contents,
            indx     : Index \cup {NoIndex},
            usage    : Usage,
            iindx    : Pc \cup {NoPc},
            type     : Type \cup {NoType},
            typeinfo : TypeInfo,
            alias    : Reg \cup {NoReg}]

RegInfoList == [Reg -> RegInfo]

Ancestors(t) == {Lin[t][i] : i \in DOMAIN Lin[t]}

ASSUME RegAssumption == NReg \in Nat \ {0}
ASSUME IndexAssumption == NoIndex \notin Index /\ Pc \subseteq Nat
\* A linearization starts with its class, names classes only, names none twice,
\* and holds the linearizations of the classes it names.
ASSUME TypeAssumption ==
  /\ NoType \notin Type
  /\ Lin \in [Type -> Seq(Type)]
  /\ \A t \in Type : Len(Lin[t]) > 0 /\ Lin[t][1] = t
  /\ \A t \in Type : \A i, j \in DOMAIN Lin[t] : Lin[t][i] = Lin[t][j] => i = j
  /\ \A t \in Type : \A u \in Ancestors(t) : Ancestors(u) \subseteq Ancestors(t)

(***************************************************************************)
(* Operations on one fact.                                                 *)
(***************************************************************************)
InitFact ==                                                  \* reginfo_init
  [contents |-> "nofact", indx |-> NoIndex, usage |-> "none", iindx |-> NoPc,
   type |-> NoType, typeinfo |-> UNKNOWN, alias |-> NoReg]

HasIndexedContents(f) == f.contents \in {"constant", "global", "upvalue"}

\* The contents of a register of which at most the type is known.
ValueOf(type) == IF type = NoType THEN "value" ELSE "typedvalue"

ClearSource(f) == [f EXCEPT !.indx = NoIndex, !.iindx = NoPc]
ClearAlias(f)  == [f EXCEPT !.alias = NoReg]

Generalize(f) ==
  ClearAlias(ClearSource([f EXCEPT !.contents = ValueOf(f.type)]))

\* The canonical form of a fact: no field claims more than its contents allow.
Normalize(f) ==
  LET ti == IF f.type = NoType THEN UNKNOWN ELSE f.typeinfo
      ct == IF f.contents = "typedvalue" THEN ValueOf(f.type) ELSE f.contents
      g  == [f EXCEPT !.typeinfo = ti, !.contents = ct]
      h  == IF HasIndexedContents(g) THEN g ELSE ClearSource(g)
  IN  IF ct = "nofact" THEN [ClearAlias(h) EXCEPT !.usage = "none"] ELSE h

Weaken(f) == Normalize(Generalize(f))

Equal(f, g) ==                                              \* reginfo_equal
  /\ [f EXCEPT !.indx = NoIndex] = [g EXCEPT !.indx = NoIndex]
  /\ HasIndexedContents(f) => f.indx = g.indx

(***************************************************************************)
(* Joining the types of two predecessors.                                  *)
(***************************************************************************)
\* value_typematch(t, u): a value of class u is accepted where t is asked for.
TypeMatch(t, u) == t \in Ancestors(u)

Position(t, u) == CHOOSE i \in DOMAIN Lin[u] : Lin[u][i] = t

\* The candidates are compared by the later of their two positions, then by
\* the sum of both; the first in the linearization of a wins a draw.
CommonAncestor(a, b) ==
  LET Candidates == {i \in DOMAIN Lin[a] : Lin[a][i] \in Ancestors(b)}
      Other(i)   == Position(Lin[a][i], b)
      Score(i)   == IF i > Other(i) THEN i ELSE Other(i)
      Depth(i)   == i + Other(i)
      NotWorse(i, k) == \/ Score(i) < Score(k)
                        \/ Score(i) = Score(k) /\ Depth(i) < Depth(k)
                        \/ Score(i) = Score(k) /\ Depth(i) = Depth(k) /\ i <= k
  IN  IF \E i \in Candidates : \A k \in Candidates : NotWorse(i, k)
      THEN Lin[a][CHOOSE i \in Candidates : \A k \in Candidates : NotWorse(i, k)]
      ELSE NoType

\* The (type, typeinfo) pair of the join of facts f and g.
JoinType(f, g) ==
  LET Known(t, ti) == [type |-> t, typeinfo |-> ti]
  IN  CASE f.type = NoType \/ g.type = NoType -> Known(NoType, UNKNOWN)
        [] OTHER ->
           CASE f.type = g.type ->
                  Known(f.type, IF g.typeinfo > f.typeinfo THEN g.typeinfo ELSE f.typeinfo)
             [] f.type # g.type /\ TypeMatch(f.type, g.type) -> Known(f.type, SUBTYPE)
             [] f.type # g.type /\ ~TypeMatch(f.type, g.type)
                                /\ TypeMatch(g.type, f.type) -> Known(g.type, SUBTYPE)
             [] OTHER ->
                  LET c == CommonAncestor(f.type, g.type)
                  IN  Known(c, IF c = NoType THEN UNKNOWN ELSE SUBTYPE)

MergeUsage(u, w) ==                                       \* regusage_merge
  CASE u = "none" -> w
    [] w = "none" \/ u = w -> u
    [] OTHER -> "readwritten"

LostIdentity(f, g) ==
  \/ f.contents # g.contents
  \/ HasIndexedContents(f) /\ f.indx # g.indx

Merged(dest, src) ==                                         \* reginfo_join
  LET f == Normalize(dest)
      g == Normalize(src)
      t == JoinType(f, g)
      j == [f EXCEPT !.iindx    = IF f.iindx = g.iindx THEN @ ELSE NoPc,
                     !.type     = t.type,
                     !.typeinfo = t.typeinfo,
                     !.alias    = IF f.alias = g.alias THEN @ ELSE NoReg,
                     !.usage    = MergeUsage(f.usage, g.usage)]
  IN  Normalize(IF LostIdentity(f, g) THEN Generalize(j) ELSE j)

\* The same as a function, whose arguments TLC evaluates once: joins are nested.
JoinOf == [p \in RegInfo \X RegInfo |-> Merged(p[1], p[2])]
Join(dest, src) == JoinOf[<<dest, src>>]

(***************************************************************************)
(* Operations on a list of facts.                                          *)
(***************************************************************************)
InvalidateAliases(rl, r) ==
  [i \in Reg |-> IF rl[i].alias = r THEN ClearAlias(rl[i]) ELSE rl[i]]

\* What reginfolist_write stores, with the write it counts.
WrittenFact(pc, contents, indx) ==
  [InitFact EXCEPT !.contents = contents, !.indx = indx,
                   !.iindx = pc, !.usage = "written"]

\* Mutant: the aliases of the register that is written are kept.
WriteKeepsAliases(rl, pc, r, contents, indx) ==
  [rl EXCEPT ![r] = WrittenFact(pc, contents, indx)]

Write(rl, pc, r, contents, indx) ==
  [InvalidateAliases(rl, r) EXCEPT ![r] = WrittenFact(pc, contents, indx)]

\* Mutant: the aliases of the destination are kept.
CopyKeepsAliases(rl, pc, dest, src) ==
  [rl EXCEPT ![dest] = [rl[src] EXCEPT !.usage = "written", !.iindx = pc, !.alias = src]]

\* The aliases of dest are dropped before the fact of src is read, so a copy
\* of a register onto itself records that it is an alias of itself.
CopyRegister(rl, pc, dest, src) ==
  LET cleared == InvalidateAliases(rl, dest)
  IN  [cleared EXCEPT ![dest] = [cleared[src] EXCEPT !.usage = "written",
                                                    !.iindx = pc,
                                                    !.alias = src]]

TypedFact(f, type, info) ==
  [f EXCEPT !.type     = type,
            !.typeinfo = IF type = NoType THEN UNKNOWN ELSE info,
            !.contents = IF f.contents = "value" THEN ValueOf(type) ELSE f.contents]

SetTypeInfo(rl, r, type, info) == [rl EXCEPT ![r] = TypedFact(rl[r], type, info)]

\* Facts that mirror one location become values of their type.
Invalidate(rl, contents, indx) ==
  [i \in Reg |-> IF rl[i].contents = contents /\ rl[i].indx = indx
                 THEN Generalize(rl[i]) ELSE rl[i]]

\* Facts that mirror any location of a kind become values of their type.
GeneralizeContent(rl, contents) ==
  [i \in Reg |-> IF rl[i].contents = contents THEN Generalize(rl[i]) ELSE rl[i]]
=============================================================================
