---------------------------- MODULE FramesProofs ----------------------------
(***************************************************************************)
(* Theorems about Frames: code stays within the registers of its function, *)
(* and neither inlining nor compaction makes one register of two.          *)
(***************************************************************************)
EXTENDS Frames, FiniteSetTheorems, SequenceTheorems, WellFoundedInduction, TLAPS

-----------------------------------------------------------------------------
(***************************************************************************)
(* The least and the greatest of some numbers.                             *)
(***************************************************************************)
\* A set of numbers with a member has a least one.
LEMMA SomeLeast ==
  ASSUME NEW T \in SUBSET Nat, T # {}
  PROVE  \E x \in T : \A y \in T : x <= y
  <1>1. PICK x \in T : \A y \in T : <<y, x>> \notin OpToRel(<, Nat)
    BY WFMin, NatLessThanWellFounded, Zenon
  <1>2. \A y \in T : ~(y < x)
    BY <1>1, Zenon DEF OpToRel
  <1> QED BY <1>2

\* Min is the least of some numbers.
LEMMA MinRight ==
  ASSUME NEW T \in SUBSET Nat, T # {}
  PROVE  Min(T) \in T /\ \A y \in T : Min(T) <= y
  BY SomeLeast, Zenon DEF Min

\* Max is the greatest of some numbers, if there is a bound.
LEMMA MaxRight ==
  ASSUME NEW n \in Nat, NEW T \in SUBSET (0 .. n), T # {}
  PROVE  Max(T) \in T /\ \A y \in T : y <= Max(T)
  <1> DEFINE U == {k \in Nat : n - k \in T}
  <1>1. U # {} /\ U \subseteq Nat
    <2> PICK x \in T : TRUE
      OBVIOUS
    <2>1. n - x \in Nat /\ n - (n - x) = x
      OBVIOUS
    <2> QED BY <2>1
  <1>2. PICK k \in U : \A y \in U : k <= y
    BY <1>1, SomeLeast
  <1>3. \A y \in T : n - y \in U
    OBVIOUS
  <1>4. n - k \in T /\ \A y \in T : n - k >= y
    BY <1>2, <1>3
  <1>5. Max(T) \in T /\ \A y \in T : Max(T) >= y
    BY <1>4, Zenon DEF Max
  <1> QED BY <1>5

\* The greater of two numbers.
LEMMA MaxOfTwo ==
  ASSUME NEW x \in Nat, NEW y \in Nat
  PROVE  Max({x, y}) \in {x, y} /\ x <= Max({x, y}) /\ y <= Max({x, y})
  BY MaxRight, x + y \in Nat, {x, y} \in SUBSET (0 .. x + y), {x, y} # {}

-----------------------------------------------------------------------------
(***************************************************************************)
(* Instructions with other registers.                                      *)
(***************************************************************************)
\* A map moves the registers lo to hi as a whole.
Moved(map, lo, hi) == \A r \in lo .. hi : map[r] = map[lo] + (r - lo)

\* What registers become that are moved as a whole.
LEMMA MovedInterval ==
  ASSUME NEW map, NEW lo \in Nat, NEW hi \in Nat, lo <= hi, Moved(map, lo, hi), map[lo] \in Nat
  PROVE  {map[r] : r \in lo .. hi} = map[lo] .. map[lo] + (hi - lo)
  <1>1. ASSUME NEW y \in map[lo] .. map[lo] + (hi - lo) PROVE \E r \in lo .. hi : y = map[r]
    <2>1. lo + (y - map[lo]) \in lo .. hi
      OBVIOUS
    <2>2. map[lo + (y - map[lo])] = map[lo] + (lo + (y - map[lo]) - lo)
      BY <2>1 DEF Moved
    <2>3. map[lo + (y - map[lo])] = y
      BY <2>2
    <2> QED BY <2>1, <2>3
  <1>2. ASSUME NEW r \in lo .. hi PROVE map[r] \in map[lo] .. map[lo] + (hi - lo)
    BY DEF Moved
  <1> QED BY <1>1, <1>2

\* A map that gives every register of an instruction a number, and moves what is called
\* and what is a range as a whole.
Moves(map, i) ==
  /\ \A r \in Refs(i) : map[r] \in Nat
  /\ i.op \in {"call"} => Moved(map, i.a, i.a + i.b + 2 * i.c)
  /\ i.op \in {"invoke", "method"} => Moved(map, i.a, i.a + i.b + 2 * i.c + 1)
  /\ i.op \in {"cat", "lix"} => Moved(map, i.b, i.c)

\* What MapRegisters makes of an instruction, operand by operand.
LEMMA MappedFields ==
  ASSUME NEW i, IsInstruction(i), NEW map
  PROVE  MapRegisters(i, map) =
           Instr(i.id, i.op, IF "a" \in Fields(i) THEN map[i.a] ELSE i.a,
                 IF Fields(i) \cap {"b", "range"} # {} THEN map[i.b] ELSE i.b,
                 IF Fields(i) \cap {"c", "range"} # {} THEN map[i.c] ELSE i.c)
  <1> DEFINE x == IF "a" \in Fields(i) THEN map[i.a] ELSE i.a
             y == IF Fields(i) \cap {"b", "range"} # {} THEN map[i.b] ELSE i.b
             z == IF Fields(i) \cap {"c", "range"} # {} THEN map[i.c] ELSE i.c
  <1>1. MapRegisters(i, map) = [i EXCEPT !.a = x, !.b = y, !.c = z]
    BY Zenon DEF MapRegisters
  <1> HIDE DEF x, y, z
  <1>2. \E id, op, a, b, c : i = [id |-> id, op |-> op, a |-> a, b |-> b, c |-> c]
    BY Zenon DEF IsInstruction, Instr
  <1>3. [i EXCEPT !.a = x, !.b = y, !.c = z] = [id |-> i.id, op |-> i.op, a |-> x, b |-> y, c |-> z]
    <2> PICK id, op, a, b, c : i = [id |-> id, op |-> op, a |-> a, b |-> b, c |-> c]
      BY <1>2
    <2>1. [i EXCEPT !.a = x, !.b = y, !.c = z] = [[[i EXCEPT !.a = x] EXCEPT !.b = y] EXCEPT !.c = z]
      OBVIOUS
    <2>2. [i EXCEPT !.a = x] = [id |-> id, op |-> op, a |-> x, b |-> b, c |-> c]
      OBVIOUS
    <2>3. [[id |-> id, op |-> op, a |-> x, b |-> b, c |-> c] EXCEPT !.b = y]
          = [id |-> id, op |-> op, a |-> x, b |-> y, c |-> c]
      OBVIOUS
    <2>4. [[id |-> id, op |-> op, a |-> x, b |-> y, c |-> c] EXCEPT !.c = z]
          = [id |-> id, op |-> op, a |-> x, b |-> y, c |-> z]
      OBVIOUS
    <2>5. i.id = id /\ i.op = op
      OBVIOUS
    <2> QED BY <2>1, <2>2, <2>3, <2>4, <2>5, Zenon
  <1>4. MapRegisters(i, map) = Instr(i.id, i.op, x, y, z)
    BY <1>1, <1>3, Zenon DEF Instr
  <1> QED BY <1>4, Zenon DEF x, y, z

\* The registers of each kind of instruction.
LEMMA Operands ==
  ASSUME NEW i
  PROVE  /\ i.op \in {"lct", "print"} => Fields(i) = {"a"} /\ Refs(i) = {i.a} /\ Window(i) = {}
         /\ i.op = "mov" => Fields(i) = {"a", "b"} /\ Refs(i) = {i.a, i.b} /\ Window(i) = {}
         /\ i.op = "add" => Fields(i) = {"a", "b", "c"} /\ Refs(i) = {i.a, i.b, i.c} /\ Window(i) = {}
         /\ i.op = "cat" => Fields(i) = {"a", "range"} /\ Refs(i) = {i.a} \cup i.b .. i.c /\ Window(i) = {}
         /\ i.op = "lix" => Fields(i) = {"a", "b", "range"} /\ Refs(i) = {i.a, i.b} \cup i.b .. i.c /\ Window(i) = {}
         /\ i.op = "return" /\ i.a > 0 => Fields(i) = {"b"} /\ Refs(i) = {i.b} /\ Window(i) = {}
         /\ i.op = "call" => /\ Fields(i) = {"a"} /\ Window(i) = i.a .. i.a + i.b + 2 * i.c
                             /\ Refs(i) = Window(i) \cup {i.a}
         /\ i.op \in {"invoke", "method"} =>
              /\ Fields(i) = {"a"} /\ Window(i) = i.a .. i.a + i.b + 2 * i.c + 1
              /\ Refs(i) = Window(i) \cup {i.a + 1}
         /\ i.op = "closure" => Fields(i) = {"a"} /\ Refs(i) = {i.a, i.c} /\ Window(i) = {}
         /\ \/ i.op \notin {"lct", "print", "mov", "add", "cat", "lix", "return", "call", "invoke", "method", "closure"}
            \/ i.op = "return" /\ ~(i.a > 0)
            => Fields(i) = {} /\ Refs(i) = {} /\ Window(i) = {}
  <1> USE DEF Fields, Refs, Uses, Overwrites, Window, Calls
  <1>1. i.op \in {"lct", "print"} => Fields(i) = {"a"} /\ Refs(i) = {i.a} /\ Window(i) = {}
    OBVIOUS
  <1>2. i.op = "mov" => Fields(i) = {"a", "b"} /\ Refs(i) = {i.a, i.b} /\ Window(i) = {}
    OBVIOUS
  <1>3. i.op = "add" => Fields(i) = {"a", "b", "c"} /\ Refs(i) = {i.a, i.b, i.c} /\ Window(i) = {}
    OBVIOUS
  <1>4. i.op = "cat" => Fields(i) = {"a", "range"} /\ Refs(i) = {i.a} \cup i.b .. i.c /\ Window(i) = {}
    OBVIOUS
  <1>5. i.op = "lix" => Fields(i) = {"a", "b", "range"} /\ Refs(i) = {i.a, i.b} \cup i.b .. i.c /\ Window(i) = {}
    OBVIOUS
  <1>6. i.op = "return" /\ i.a > 0 => Fields(i) = {"b"} /\ Refs(i) = {i.b} /\ Window(i) = {}
    OBVIOUS
  <1>7. i.op = "call" => /\ Fields(i) = {"a"} /\ Window(i) = i.a .. i.a + i.b + 2 * i.c
                         /\ Refs(i) = Window(i) \cup {i.a}
    OBVIOUS
  <1>8. i.op \in {"invoke", "method"} =>
              /\ Fields(i) = {"a"} /\ Window(i) = i.a .. i.a + i.b + 2 * i.c + 1
              /\ Refs(i) = Window(i) \cup {i.a + 1}
    OBVIOUS
  <1>9. i.op = "closure" => Fields(i) = {"a"} /\ Refs(i) = {i.a, i.c} /\ Window(i) = {}
    OBVIOUS
  <1>10. \/ i.op \notin {"lct", "print", "mov", "add", "cat", "lix", "return", "call", "invoke", "method", "closure"}
         \/ i.op = "return" /\ ~(i.a > 0)
         => Fields(i) = {} /\ Refs(i) = {} /\ Window(i) = {}
    OBVIOUS
  <1> HIDE DEF Fields, Refs, Uses, Overwrites, Window, Calls
  <1> QED BY <1>1, <1>2, <1>3, <1>4, <1>5, <1>6, <1>7, <1>8, <1>9, <1>10, Zenon

\* The operands of an instruction are numbers.
LEMMA OperandTypes ==
  ASSUME NEW i, IsInstruction(i)
  PROVE  /\ i.op \in {"lct", "print", "mov", "add", "cat", "lix", "return", "call", "invoke", "method", "closure"} /\ i.op # "return"
              => i.a \in Nat
         /\ i.op = "return" => i.a \in Nat
         /\ i.op = "return" /\ i.a > 0 => i.b \in Nat
         /\ i.op \in {"mov", "add", "cat", "lix", "call", "invoke", "method"} => i.b \in Nat
         /\ i.op \in {"add", "cat", "lix", "call", "invoke", "method", "closure"} => i.c \in Nat
         /\ i.op \in {"cat", "lix"} => i.b <= i.c
  BY Operands DEF IsInstruction, Calls

\* Instruction j is instruction i with the registers map gives.
IsMapped(map, i, j) ==
  /\ IsInstruction(j) /\ j.op = i.op
  /\ Refs(j) = {map[r] : r \in Refs(i)}
  /\ Window(j) = {map[r] : r \in Window(i)} /\ Window(i) \subseteq Refs(i)
  /\ \A p \in Pairs(i, j) : p[1] \in Refs(i) /\ p[2] = map[p[1]]
  /\ i.op \in Calls => i.a \in Refs(i) /\ j.a = map[i.a]
  /\ "range" \in Fields(i) => i.b \in Refs(i) /\ j.b = map[i.b] /\ i.c \in Refs(i) /\ j.c = map[i.c]

\* MapRegisters replaces the registers of an instruction.
LEMMA Mapped ==
  ASSUME NEW i, IsInstruction(i), i.op # "closure", NEW map, Moves(map, i)
  PROVE  IsMapped(map, i, MapRegisters(i, map))
  <1> DEFINE j == MapRegisters(i, map)
  <1>1. j = Instr(i.id, i.op, IF "a" \in Fields(i) THEN map[i.a] ELSE i.a,
                  IF Fields(i) \cap {"b", "range"} # {} THEN map[i.b] ELSE i.b,
                  IF Fields(i) \cap {"c", "range"} # {} THEN map[i.c] ELSE i.c)
    BY MappedFields, Zenon
  <1>2. /\ j.id = i.id /\ j.op = i.op
        /\ j.a = IF "a" \in Fields(i) THEN map[i.a] ELSE i.a
        /\ j.b = IF Fields(i) \cap {"b", "range"} # {} THEN map[i.b] ELSE i.b
        /\ j.c = IF Fields(i) \cap {"c", "range"} # {} THEN map[i.c] ELSE i.c
    BY <1>1 DEF Instr
  <1>3. j = Instr(j.id, j.op, j.a, j.b, j.c)
    BY <1>1, <1>2, Zenon
  <1> SUFFICES IsMapped(map, i, j)
    OBVIOUS
  <1> HIDE DEF j
  <1>4. CASE i.op \in {"lct", "print"}
    <2>1. Fields(i) = {"a"} /\ Refs(i) = {i.a} /\ Window(i) = {}
      BY <1>4, Operands
    <2>3. j.a = map[i.a] /\ j.a \in Nat
      BY <1>2, <2>1 DEF Moves
    <2>2. Fields(j) = {"a"} /\ Refs(j) = {j.a} /\ Window(j) = {}
      BY <1>4, <1>2, <2>1, Operands
    <2>4. IsInstruction(j)
      BY <1>2, <1>3, <1>4, <2>2, <2>3 DEF IsInstruction, Calls
    <2>5. \A p \in Pairs(i, j) : p[1] \in Refs(i) /\ p[2] = map[p[1]]
      BY <2>1, <2>3 DEF Pairs
    <2> QED BY <1>2, <1>4, <2>1, <2>2, <2>3, <2>4, <2>5 DEF IsMapped, Calls
  <1>5. CASE i.op = "mov"
    <2>1. Fields(i) = {"a", "b"} /\ Refs(i) = {i.a, i.b} /\ Window(i) = {}
      BY <1>5, Operands
    <2>3. j.a = map[i.a] /\ j.a \in Nat /\ j.b = map[i.b] /\ j.b \in Nat
      BY <1>2, <2>1 DEF Moves
    <2>2. Fields(j) = {"a", "b"} /\ Refs(j) = {j.a, j.b} /\ Window(j) = {}
      BY <1>5, <1>2, <2>1, Operands
    <2>4. IsInstruction(j)
      BY <1>2, <1>3, <1>5, <2>2, <2>3 DEF IsInstruction, Calls
    <2>5. \A p \in Pairs(i, j) : p[1] \in Refs(i) /\ p[2] = map[p[1]]
      BY <2>1, <2>3 DEF Pairs
    <2> QED BY <1>2, <1>5, <2>1, <2>2, <2>3, <2>4, <2>5 DEF IsMapped, Calls
  <1>6. CASE i.op = "add"
    <2>1. Fields(i) = {"a", "b", "c"} /\ Refs(i) = {i.a, i.b, i.c} /\ Window(i) = {}
      BY <1>6, Operands
    <2>3. j.a = map[i.a] /\ j.a \in Nat /\ j.b = map[i.b] /\ j.b \in Nat /\ j.c = map[i.c] /\ j.c \in Nat
      BY <1>2, <2>1 DEF Moves
    <2>2. Fields(j) = {"a", "b", "c"} /\ Refs(j) = {j.a, j.b, j.c} /\ Window(j) = {}
      BY <1>6, <1>2, <2>1, Operands
    <2>4. IsInstruction(j)
      BY <1>2, <1>3, <1>6, <2>2, <2>3 DEF IsInstruction, Calls
    <2>5. \A p \in Pairs(i, j) : p[1] \in Refs(i) /\ p[2] = map[p[1]]
      BY <2>1, <2>3 DEF Pairs
    <2> QED BY <1>2, <1>6, <2>1, <2>2, <2>3, <2>4, <2>5 DEF IsMapped, Calls
  <1>7. CASE i.op = "cat"
    <2>1. Fields(i) = {"a", "range"} /\ Refs(i) = {i.a} \cup i.b .. i.c /\ Window(i) = {}
      BY <1>7, Operands
    <2>2. Fields(j) = {"a", "range"} /\ Refs(j) = {j.a} \cup j.b .. j.c /\ Window(j) = {}
      BY <1>7, <1>2, Operands
    <2>3. i.a \in Nat /\ i.b \in Nat /\ i.c \in Nat /\ i.b <= i.c
      BY <1>7, OperandTypes
    <2>4. /\ j.a = map[i.a] /\ j.a \in Nat /\ j.b = map[i.b] /\ j.b \in Nat
          /\ j.c = map[i.c] /\ j.c \in Nat
      BY <1>2, <2>1, <2>3 DEF Moves
    <2>5. Moved(map, i.b, i.c)
      BY <1>7 DEF Moves
    <2>6. j.c = j.b + (i.c - i.b)
      BY <2>3, <2>4, <2>5 DEF Moved
    <2>7. {map[r] : r \in i.b .. i.c} = j.b .. j.c
      <3>1. {map[r] : r \in i.b .. i.c} = map[i.b] .. map[i.b] + (i.c - i.b)
        BY <2>3, <2>4, <2>5, MovedInterval
      <3> QED BY <3>1, <2>4, <2>6
    <2>8. IsInstruction(j)
      BY <1>2, <1>3, <1>7, <2>2, <2>3, <2>4, <2>6 DEF IsInstruction, Calls
    <2>9. \A p \in Pairs(i, j) : p[1] \in Refs(i) /\ p[2] = map[p[1]]
      BY <2>1, <2>3, <2>4, <2>5 DEF Pairs, Moved
    <2>10. Refs(j) = {map[r] : r \in Refs(i)}
      <3>1. {map[r] : r \in Refs(i)} = {map[i.a]} \cup {map[r] : r \in i.b .. i.c}
        BY <2>1
      <3> QED BY <3>1, <2>2, <2>4, <2>7
    <2> QED BY <1>2, <1>7, <2>1, <2>2, <2>3, <2>4, <2>8, <2>9, <2>10 DEF IsMapped, Calls
  <1>8. CASE i.op = "lix"
    <2>1. Fields(i) = {"a", "b", "range"} /\ Refs(i) = {i.a, i.b} \cup i.b .. i.c /\ Window(i) = {}
      BY <1>8, Operands
    <2>2. Fields(j) = {"a", "b", "range"} /\ Refs(j) = {j.a, j.b} \cup j.b .. j.c /\ Window(j) = {}
      BY <1>8, <1>2, Operands
    <2>3. i.a \in Nat /\ i.b \in Nat /\ i.c \in Nat /\ i.b <= i.c
      BY <1>8, OperandTypes
    <2>4. /\ j.a = map[i.a] /\ j.a \in Nat /\ j.b = map[i.b] /\ j.b \in Nat
          /\ j.c = map[i.c] /\ j.c \in Nat
      BY <1>2, <2>1, <2>3 DEF Moves
    <2>5. Moved(map, i.b, i.c)
      BY <1>8 DEF Moves
    <2>6. j.c = j.b + (i.c - i.b)
      BY <2>3, <2>4, <2>5 DEF Moved
    <2>7. {map[r] : r \in i.b .. i.c} = j.b .. j.c
      <3>1. {map[r] : r \in i.b .. i.c} = map[i.b] .. map[i.b] + (i.c - i.b)
        BY <2>3, <2>4, <2>5, MovedInterval
      <3> QED BY <3>1, <2>4, <2>6
    <2>8. IsInstruction(j)
      BY <1>2, <1>3, <1>8, <2>2, <2>3, <2>4, <2>6 DEF IsInstruction, Calls
    <2>9. \A p \in Pairs(i, j) : p[1] \in Refs(i) /\ p[2] = map[p[1]]
      BY <2>1, <2>3, <2>4, <2>5 DEF Pairs, Moved
    <2>10. Refs(j) = {map[r] : r \in Refs(i)}
      <3>1. {map[r] : r \in Refs(i)} = {map[i.a], map[i.b]} \cup {map[r] : r \in i.b .. i.c}
        BY <2>1
      <3> QED BY <3>1, <2>2, <2>4, <2>7
    <2> QED BY <1>2, <1>8, <2>1, <2>2, <2>3, <2>4, <2>8, <2>9, <2>10 DEF IsMapped, Calls
  <1>9. CASE i.op = "return" /\ i.a > 0
    <2>1. Fields(i) = {"b"} /\ Refs(i) = {i.b} /\ Window(i) = {}
      BY <1>9, Operands
    <2>3. j.b = map[i.b] /\ j.b \in Nat
      BY <1>2, <2>1 DEF Moves
    <2>6. j.a = i.a /\ i.a \in Nat
      BY <1>2, <1>9, <2>1, OperandTypes
    <2>2. Fields(j) = {"b"} /\ Refs(j) = {j.b} /\ Window(j) = {}
      BY <1>9, <1>2, <2>6, Operands
    <2>4. IsInstruction(j)
      BY <1>2, <1>3, <1>9, <2>2, <2>3, <2>6 DEF IsInstruction, Calls
    <2>5. \A p \in Pairs(i, j) : p[1] \in Refs(i) /\ p[2] = map[p[1]]
      BY <2>1, <2>3 DEF Pairs
    <2> QED BY <1>2, <1>9, <2>1, <2>2, <2>3, <2>4, <2>5 DEF IsMapped, Calls
  <1>10. CASE i.op = "call"
    <2>1. Fields(i) = {"a"} /\ Window(i) = i.a .. i.a + i.b + 2 * i.c /\ Refs(i) = Window(i) \cup {i.a}
      BY <1>10, Operands
    <2>2. Fields(j) = {"a"} /\ Window(j) = j.a .. j.a + j.b + 2 * j.c /\ Refs(j) = Window(j) \cup {j.a}
      BY <1>10, <1>2, Operands
    <2>3. i.a \in Nat /\ i.b \in Nat /\ i.c \in Nat /\ i.a \in Window(i) /\ i.a \in Window(i) /\ Refs(i) = Window(i)
      BY <1>10, <2>1, OperandTypes
    <2>4. j.a = map[i.a] /\ j.a \in Nat /\ j.b = i.b /\ j.c = i.c
      BY <1>2, <2>1, <2>3 DEF Moves
    <2>5. Moved(map, i.a, i.a + i.b + 2 * i.c)
      BY <1>10 DEF Moves
    <2>6. Refs(j) = Window(j)
      BY <2>2, <2>3, <2>4
    <2>7. Window(j) = {map[r] : r \in Window(i)}
      <3> DEFINE hi == i.a + i.b + 2 * i.c
      <3>1. hi \in Nat /\ i.a <= hi
        BY <2>3
      <3>2. hi - i.a = i.b + 2 * i.c
        BY <2>3
      <3>3. Moved(map, i.a, hi) /\ Window(i) = i.a .. hi
        BY <2>5, <2>1
      <3>4. Window(j) = map[i.a] .. map[i.a] + (hi - i.a)
        BY <2>2, <2>3, <2>4, <3>2
      <3> HIDE DEF hi
      <3>5. {map[r] : r \in i.a .. hi} = map[i.a] .. map[i.a] + (hi - i.a)
        BY <2>3, <2>4, <3>1, <3>3, MovedInterval
      <3> QED BY <3>3, <3>4, <3>5
    <2>8. IsInstruction(j)
      BY <1>2, <1>3, <1>10, <2>2, <2>3, <2>4 DEF IsInstruction, Calls
    <2>9. \A p \in Pairs(i, j) : p[1] \in Refs(i) /\ p[2] = map[p[1]]
      BY <2>1, <2>3, <2>4, <2>5 DEF Pairs, Moved
    <2> QED BY <1>2, <1>10, <2>1, <2>3, <2>4, <2>6, <2>7, <2>8, <2>9 DEF IsMapped, Calls
  <1>11. CASE i.op \in {"invoke", "method"}
    <2>1. Fields(i) = {"a"} /\ Window(i) = i.a .. i.a + i.b + 2 * i.c + 1 /\ Refs(i) = Window(i) \cup {i.a + 1}
      BY <1>11, Operands
    <2>2. Fields(j) = {"a"} /\ Window(j) = j.a .. j.a + j.b + 2 * j.c + 1 /\ Refs(j) = Window(j) \cup {j.a + 1}
      BY <1>11, <1>2, Operands
    <2>3. i.a \in Nat /\ i.b \in Nat /\ i.c \in Nat /\ i.a \in Window(i) /\ i.a + 1 \in Window(i) /\ Refs(i) = Window(i)
      BY <1>11, <2>1, OperandTypes
    <2>4. j.a = map[i.a] /\ j.a \in Nat /\ j.b = i.b /\ j.c = i.c
      BY <1>2, <2>1, <2>3 DEF Moves
    <2>5. Moved(map, i.a, i.a + i.b + 2 * i.c + 1)
      BY <1>11 DEF Moves
    <2>6. Refs(j) = Window(j)
      <3>1. i.b + 2 * i.c \in Nat
        BY <2>3
      <3>2. j.a + 1 \in j.a .. j.a + i.b + 2 * i.c + 1
        BY <2>3, <2>4, <3>1
      <3> QED BY <2>2, <2>4, <3>2
    <2>7. Window(j) = {map[r] : r \in Window(i)}
      <3> DEFINE hi == i.a + i.b + 2 * i.c + 1
      <3>1. hi \in Nat /\ i.a <= hi
        BY <2>3
      <3>2. hi - i.a = i.b + 2 * i.c + 1
        BY <2>3
      <3>3. Moved(map, i.a, hi) /\ Window(i) = i.a .. hi
        BY <2>5, <2>1
      <3>4. Window(j) = map[i.a] .. map[i.a] + (hi - i.a)
        BY <2>2, <2>3, <2>4, <3>2
      <3> HIDE DEF hi
      <3>6. map[i.a] \in Nat /\ i.a \in Nat /\ hi \in Nat /\ i.a <= hi /\ Moved(map, i.a, hi)
        BY <2>3, <2>4, <3>1, <3>3
      <3>5. {map[r] : r \in i.a .. hi} = map[i.a] .. map[i.a] + (hi - i.a)
        BY ONLY <3>6, MovedInterval
      <3> QED BY <3>3, <3>4, <3>5
    <2>8. IsInstruction(j)
      BY <1>2, <1>3, <1>11, <2>2, <2>3, <2>4 DEF IsInstruction, Calls
    <2>9. \A p \in Pairs(i, j) : p[1] \in Refs(i) /\ p[2] = map[p[1]]
      BY <2>1, <2>3, <2>4, <2>5 DEF Pairs, Moved
    <2> QED BY <1>2, <1>11, <2>1, <2>3, <2>4, <2>6, <2>7, <2>8, <2>9 DEF IsMapped, Calls
  <1>12. CASE \/ i.op \notin {"lct", "print", "mov", "add", "cat", "lix", "return", "call", "invoke", "method", "closure"}
              \/ i.op = "return" /\ ~(i.a > 0)
    <2>1. Fields(i) = {} /\ Refs(i) = {} /\ Window(i) = {}
      BY <1>12, Operands
    <2>2. j.a = i.a
      BY <1>2, <2>1
    <2>3. Fields(j) = {} /\ Refs(j) = {} /\ Window(j) = {}
      BY <1>12, <1>2, <2>2, Operands
    <2>4. IsInstruction(j)
      BY <1>2, <1>3, <1>12, <2>2, <2>3, OperandTypes DEF IsInstruction, Calls
    <2>5. Pairs(i, j) = {}
      BY <2>1 DEF Pairs
    <2> QED BY <1>2, <1>12, <2>1, <2>3, <2>4, <2>5 DEF IsMapped, Calls
  <1> QED BY <1>4, <1>5, <1>6, <1>7, <1>8, <1>9, <1>10, <1>11, <1>12

\* What is called, the receiver and the arguments are among the registers of a call.
LEMMA WindowFacts ==
  ASSUME NEW i, IsInstruction(i), i.op \in Calls
  PROVE  /\ i.a \in Nat /\ i.b \in Nat /\ i.c \in Nat
         /\ i.a \in Window(i) /\ Window(i) \subseteq Refs(i) /\ Window(i) \subseteq Nat
         /\ Base(i) \in Nat /\ i.a <= Base(i) /\ \A r \in 0 .. i.b : Base(i) + r \in Window(i)
  <1>1. i.a \in Nat /\ i.b \in Nat /\ i.c \in Nat
    BY OperandTypes DEF Calls
  <1> DEFINE d == 2 * i.c
  <1>2. d \in Nat
    BY <1>1
  <1>3. CASE i.op = "call"
    <2>1. Window(i) = i.a .. i.a + i.b + d /\ Window(i) \subseteq Refs(i)
      BY <1>3, Operands
    <2>2. Base(i) = i.a
      BY <1>3 DEF Base
    <2> HIDE DEF d
    <2> QED BY <1>1, <1>2, <2>1, <2>2
  <1>4. CASE i.op \in {"invoke", "method"}
    <2>1. Window(i) = i.a .. i.a + i.b + d + 1 /\ Window(i) \subseteq Refs(i)
      BY <1>4, Operands
    <2>2. Base(i) = i.a + 1
      BY <1>4 DEF Base
    <2> HIDE DEF d
    <2> QED BY <1>1, <1>2, <2>1, <2>2
  <1> QED BY <1>3, <1>4 DEF Calls

\* An instruction that is left alone has its registers where they were.
LEMMA Unmoved ==
  ASSUME NEW i, IsInstruction(i), NEW p \in Pairs(i, i)
  PROVE  p[1] \in Refs(i) /\ p[2] = p[1]
  <1>1. CASE i.op \in {"lct", "print", "mov", "add", "return", "closure"}
    BY <1>1, Operands DEF Pairs
  <1>2. CASE i.op \in {"cat", "lix"}
    <2>1. i.b \in Nat /\ i.c \in Nat /\ i.a \in Nat /\ i.b <= i.c
      BY <1>2, OperandTypes
    <2> QED BY <1>2, <2>1, Operands DEF Pairs
  <1>3. CASE i.op \in {"call", "invoke", "method"}
    <2>1. i.b \in Nat /\ i.c \in Nat /\ i.a \in Nat
      BY <1>3, OperandTypes
    <2>2. i.a \in Window(i) /\ Window(i) \subseteq Refs(i) /\ \A r \in Window(i) : r \in Int
      BY <1>3, WindowFacts DEF Calls
    <2>3. Fields(i) = {"a"}
      BY <1>3, Operands
    <2>4. Pairs(i, i) = {<<i.a, i.a>>} \cup {<<r, r + i.a - i.a>> : r \in Window(i)}
      BY <2>3 DEF Pairs
    <2>5. \A r \in Window(i) : r + i.a - i.a = r
      BY <2>1, <2>2
    <2> QED BY <2>2, <2>4, <2>5
  <1>4. CASE i.op \notin {"lct", "print", "mov", "add", "cat", "lix", "return", "call", "invoke", "method", "closure"}
    <2>1. Pairs(i, i) = {}
      BY <1>4, Operands DEF Pairs
    <2> QED BY <2>1
  <1> QED BY <1>1, <1>2, <1>3, <1>4

-----------------------------------------------------------------------------
(***************************************************************************)
(* Functions whose code stays within their registers.                      *)
(***************************************************************************)
\* An instruction of a function with these registers and parameters.
InFrame(i, nregs, nargs) ==
  /\ IsInstruction(i) /\ Refs(i) \subseteq 0 .. nregs - 1
  /\ i.op \in Calls => nargs < i.a
  /\ "range" \in Fields(i) => i.c <= nargs \/ nargs < i.b

\* The instructions of a block.
BlockInFrame(s, nregs, nargs) ==
  /\ IsSequence(s)
  /\ \A n \in DOMAIN s : InFrame(s[n], nregs, nargs)

\* IsFunction, block by block.
LEMMA FunctionBlocks ==
  ASSUME NEW fn
  PROVE  IsFunction(fn) <=>
           /\ DOMAIN fn = {"nregs", "nargs", "nopt", "code", "live", "plotfield"}
           /\ fn.nregs \in Nat /\ fn.nargs \in 0 .. fn.nregs - 1
           /\ IsSequence(fn.code) /\ 1 \in fn.live /\ fn.live \subseteq DOMAIN fn.code
           /\ \A k \in DOMAIN fn.code : BlockInFrame(fn.code[k], fn.nregs, fn.nargs)
  BY Zenon DEF IsFunction, BlockInFrame, InFrame

\* More registers do no harm.
LEMMA MoreRegisters ==
  ASSUME NEW i, NEW m \in Nat, NEW n \in Nat, m <= n, NEW nargs, InFrame(i, m, nargs)
  PROVE  InFrame(i, n, nargs)
  BY DEF InFrame

\* A sequence of some values is one of its own.
LEMMA OwnSequence ==
  ASSUME NEW S, NEW s \in Seq(S)
  PROVE  /\ IsSequence(s) /\ Len(s) \in Nat /\ DOMAIN s = 1 .. Len(s)
         /\ \A n \in DOMAIN s : s[n] \in S
  <1>1. Len(s) \in Nat /\ DOMAIN s = 1 .. Len(s) /\ \A n \in DOMAIN s : s[n] \in S
    OBVIOUS
  <1>2. s = [n \in 1 .. Len(s) |-> s[n]]
    OBVIOUS
  <1>3. \A n \in 1 .. Len(s) : s[n] \in ToSet(s)
    BY <1>1 DEF ToSet
  <1>4. s \in [1 .. Len(s) -> ToSet(s)]
    BY <1>2, <1>3
  <1>5. s \in Seq(ToSet(s))
    BY <1>1, <1>4, SeqDef
  <1> QED BY <1>1, <1>5 DEF IsSequence

\* The places of a sequence.
LEMMA SequencePlaces ==
  ASSUME NEW s, IsSequence(s)
  PROVE  Len(s) \in Nat /\ DOMAIN s = 1 .. Len(s)
  BY DEF IsSequence

\* The instructions that lie within a frame.
FrameCode(S, nregs, nargs) == {x \in S : InFrame(x, nregs, nargs)}

\* A block within its frame is a sequence of instructions within it.
LEMMA BlockSequence ==
  ASSUME NEW nregs, NEW nargs, NEW s
  PROVE  /\ \A S : s \in Seq(FrameCode(S, nregs, nargs)) => BlockInFrame(s, nregs, nargs)
         /\ BlockInFrame(s, nregs, nargs) => \A S : ToSet(s) \subseteq S => s \in Seq(FrameCode(S, nregs, nargs))
  <1>1. ASSUME NEW S, s \in Seq(FrameCode(S, nregs, nargs)) PROVE BlockInFrame(s, nregs, nargs)
    BY <1>1, OwnSequence DEF BlockInFrame, FrameCode
  <1>2. ASSUME BlockInFrame(s, nregs, nargs), NEW S, ToSet(s) \subseteq S
        PROVE  s \in Seq(FrameCode(S, nregs, nargs))
    <2> DEFINE T == FrameCode(S, nregs, nargs)
    <2>1. s \in Seq(ToSet(s)) /\ Len(s) \in Nat /\ DOMAIN s = 1 .. Len(s)
      BY <1>2, SequencePlaces DEF BlockInFrame, IsSequence
    <2>2. \A n \in 1 .. Len(s) : s[n] \in T
      BY <1>2, <2>1 DEF BlockInFrame, FrameCode, ToSet
    <2>3. s = [n \in 1 .. Len(s) |-> s[n]]
      BY <2>1
    <2> HIDE DEF T
    <2>4. s \in [1 .. Len(s) -> T]
      BY <2>2, <2>3
    <2>5. s \in Seq(T)
      BY <2>1, <2>4, SeqDef
    <2> QED BY <2>5 DEF T
  <1> QED BY <1>1, <1>2

\* A function whose block k is replaced.
WithBlock(fn, k, s) == [fn EXCEPT !.code[k] = s]

\* It stays within its registers if the new block does.
LEMMA BlockReplaced ==
  ASSUME NEW fn, IsFunction(fn), NEW k \in DOMAIN fn.code, NEW s, BlockInFrame(s, fn.nregs, fn.nargs)
  PROVE  /\ IsFunction(WithBlock(fn, k, s))
         /\ WithBlock(fn, k, s).nregs = fn.nregs /\ WithBlock(fn, k, s).live = fn.live
         /\ DOMAIN WithBlock(fn, k, s).code = DOMAIN fn.code /\ WithBlock(fn, k, s).code[k] = s
  <1> DEFINE new == WithBlock(fn, k, s)
  <1>1. /\ DOMAIN fn = {"nregs", "nargs", "nopt", "code", "live", "plotfield"}
        /\ fn.nregs \in Nat /\ fn.nargs \in 0 .. fn.nregs - 1
        /\ IsSequence(fn.code) /\ 1 \in fn.live /\ fn.live \subseteq DOMAIN fn.code
        /\ \A h \in DOMAIN fn.code : BlockInFrame(fn.code[h], fn.nregs, fn.nargs)
    BY FunctionBlocks
  <1> DEFINE code == [fn.code EXCEPT ![k] = s]
  <1>2. /\ DOMAIN new = {"nregs", "nargs", "nopt", "code", "live", "plotfield"}
        /\ new.nregs = fn.nregs /\ new.nargs = fn.nargs /\ new.live = fn.live /\ new.code = code
    BY <1>1 DEF WithBlock
  <1>3. DOMAIN code = DOMAIN fn.code /\ code[k] = s /\ \A h \in DOMAIN fn.code \ {k} : code[h] = fn.code[h]
    OBVIOUS
  <1>4. IsSequence(code)
    <2>1. fn.code \in Seq(ToSet(fn.code)) /\ Len(fn.code) \in Nat /\ DOMAIN fn.code = 1 .. Len(fn.code)
      BY <1>1, SequencePlaces DEF IsSequence
    <2>2. code \in [1 .. Len(fn.code) -> ToSet(fn.code) \cup {s}]
      BY <2>1 DEF ToSet
    <2> HIDE DEF code
    <2>3. code \in Seq(ToSet(fn.code) \cup {s})
      BY <2>1, <2>2, SeqDef
    <2> QED BY <2>3, OwnSequence
  <1> HIDE DEF code, new
  <1>5. \A h \in DOMAIN code : BlockInFrame(code[h], fn.nregs, fn.nargs)
    BY <1>1, <1>3
  <1>6. IsFunction(new)
    BY <1>1, <1>2, <1>3, <1>4, <1>5, FunctionBlocks
  <1> QED BY <1>2, <1>3, <1>6 DEF new

-----------------------------------------------------------------------------
(***************************************************************************)
(* Inlining.                                                               *)
(***************************************************************************)
\* A call of a function with gregs registers, in one with nregs registers and nargs
\* parameters: the locals of the callee have room above the register highest.
SiteFits(i, highest, nregs, nargs, gregs) ==
  /\ nregs \in Nat /\ nargs \in Nat /\ gregs \in Nat
  /\ InFrame(i, nregs, nargs) /\ i.op \in {"call", "method"}
  /\ highest \in Nat /\ Base(i) + i.b <= highest
  /\ highest + (gregs - i.b - 1) < nregs

\* Registers of the callee: parameters are where the call had put them, the others
\* above the register highest.
LEMMA InlineRegisterRange ==
  ASSUME NEW i, NEW highest, NEW nregs, NEW nargs, NEW gregs, SiteFits(i, highest, nregs, nargs, gregs),
         NEW r \in 0 .. gregs - 1
  PROVE  /\ InlineRegister(i, highest, r) \in 0 .. nregs - 1 /\ InlineRegister(i, highest, r) > nargs
         /\ r <= i.b => /\ InlineRegister(i, highest, r) = Base(i) + r
                        /\ InlineRegister(i, highest, r) \in Window(i)
                        /\ InlineRegister(i, highest, r) <= highest
         /\ r > i.b => /\ InlineRegister(i, highest, r) = highest + (r - i.b)
                       /\ InlineRegister(i, highest, r) > highest
  <1>1. IsInstruction(i) /\ i.op \in Calls /\ nargs < i.a /\ Refs(i) \subseteq 0 .. nregs - 1
    BY DEF SiteFits, InFrame, Calls
  <1>2. /\ i.a \in Nat /\ i.b \in Nat /\ Base(i) \in Nat /\ i.a <= Base(i)
        /\ \A q \in 0 .. i.b : Base(i) + q \in Window(i)
        /\ Window(i) \subseteq 0 .. nregs - 1
    BY <1>1, WindowFacts
  <1>3. /\ nregs \in Nat /\ nargs \in Nat /\ gregs \in Nat /\ highest \in Nat
        /\ Base(i) + i.b <= highest /\ highest + (gregs - i.b - 1) < nregs
    BY DEF SiteFits
  <1>4. CASE r <= i.b
    <2>1. InlineRegister(i, highest, r) = Base(i) + r
      BY <1>4 DEF InlineRegister
    <2>2. Base(i) + r \in Window(i)
      BY <1>2, <1>4
    <2>3. Base(i) + r \in 0 .. nregs - 1
      BY <1>2, <2>2
    <2> QED BY <1>1, <1>2, <1>3, <1>4, <2>1, <2>2, <2>3
  <1>5. CASE r > i.b
    <2>1. InlineRegister(i, highest, r) = highest + 1 + (r - i.b - 1)
      BY <1>2, <1>5 DEF InlineRegister
    <2> QED BY <1>1, <1>2, <1>3, <1>5, <2>1
  <1> QED BY <1>2, <1>4, <1>5

\* No two registers of the callee become one.
LEMMA InlineRegisterApart ==
  ASSUME NEW i, NEW highest, NEW nregs, NEW nargs, NEW gregs, SiteFits(i, highest, nregs, nargs, gregs),
         NEW r \in 0 .. gregs - 1, NEW q \in 0 .. gregs - 1,
         InlineRegister(i, highest, r) = InlineRegister(i, highest, q)
  PROVE  r = q
  <1>1. i.b \in Nat /\ Base(i) \in Nat /\ highest \in Nat /\ gregs \in Nat
    BY WindowFacts DEF SiteFits, InFrame, Calls
  <1>2. CASE r <= i.b /\ q <= i.b
    BY <1>1, <1>2, InlineRegisterRange
  <1>3. CASE r > i.b /\ q > i.b
    BY <1>1, <1>3, InlineRegisterRange
  <1>4. CASE r <= i.b /\ q > i.b
    BY <1>1, <1>4, InlineRegisterRange
  <1>5. CASE r > i.b /\ q <= i.b
    BY <1>1, <1>5, InlineRegisterRange
  <1> QED BY <1>1, <1>2, <1>3, <1>4, <1>5

\* What an instruction of the callee refers to.
InlineMap(i, highest, j) == [r \in Uses(j) \cup Overwrites(j) |-> InlineRegister(i, highest, r)]

\* What the callee calls, and its ranges of registers, are moved as a whole.
LEMMA InlineMoves ==
  ASSUME NEW i, NEW highest, NEW nregs, NEW nargs, NEW gregs, SiteFits(i, highest, nregs, nargs, gregs),
         NEW j, InFrame(j, gregs, i.b), j.op \notin {"closure", "invoke", "method"}
  PROVE  Moves(InlineMap(i, highest, j), j)
  <1> DEFINE map == InlineMap(i, highest, j)
  <1>1. IsInstruction(j) /\ Refs(j) \subseteq 0 .. gregs - 1
    BY DEF InFrame
  <1>2. \A r \in Refs(j) : map[r] = InlineRegister(i, highest, r)
    BY Zenon DEF InlineMap, Refs
  <1> SUFFICES Moves(map, j)
    OBVIOUS
  <1>3. i.b \in Nat /\ Base(i) \in Nat /\ highest \in Nat /\ gregs \in Nat /\ nregs \in Nat
    BY WindowFacts DEF SiteFits, InFrame, Calls
  <1> HIDE DEF map
  <1>4. \A r \in Refs(j) : map[r] \in Nat
    <2> TAKE r \in Refs(j)
    <2>1. InlineRegister(i, highest, r) \in 0 .. nregs - 1
      BY <1>1, InlineRegisterRange
    <2> QED BY <1>2, <1>3, <2>1
  \* Registers that are all above the parameters, or all among them.
  <1>5. ASSUME NEW lo \in Nat, NEW hi \in Nat, lo .. hi \subseteq Refs(j), lo > i.b \/ hi <= i.b
        PROVE  Moved(map, lo, hi)
    <2> SUFFICES ASSUME NEW r \in lo .. hi
                 PROVE  map[r] = map[lo] + (r - lo)
      BY DEF Moved
    <2>1. r \in Refs(j) /\ lo \in Refs(j) /\ r \in 0 .. gregs - 1 /\ lo \in 0 .. gregs - 1
      BY <1>1, <1>5
    <2>2. map[r] = InlineRegister(i, highest, r) /\ map[lo] = InlineRegister(i, highest, lo)
      BY <1>2, <2>1
    <2>3. CASE lo > i.b
      <3>1. InlineRegister(i, highest, r) = highest + (r - i.b) /\ InlineRegister(i, highest, lo) = highest + (lo - i.b)
        BY <1>3, <2>1, <2>3, InlineRegisterRange
      <3> QED BY <1>3, <2>2, <3>1
    <2>4. CASE hi <= i.b
      <3>1. InlineRegister(i, highest, r) = Base(i) + r /\ InlineRegister(i, highest, lo) = Base(i) + lo
        BY <1>3, <2>1, <2>4, InlineRegisterRange
      <3> QED BY <1>3, <2>2, <3>1
    <2> QED BY <1>5, <2>3, <2>4
  <1>6. CASE j.op = "call"
    <2>1. j.a \in Nat /\ j.b \in Nat /\ j.c \in Nat /\ i.b < j.a
      BY <1>1, <1>6, WindowFacts DEF Calls, InFrame
    <2> DEFINE d == 2 * j.c
               hi == j.a + j.b + d
    <2>2. j.a .. hi \subseteq Refs(j)
      BY <1>6, Operands
    <2>3. hi \in Nat
      BY <2>1
    <2> HIDE DEF hi
    <2>4. Moved(map, j.a, hi)
      BY <1>3, <1>5, <2>1, <2>2, <2>3
    <2> QED BY <1>4, <1>6, <2>4 DEF Moves, hi
  <1>7. CASE j.op \in {"cat", "lix"}
    <2>1. j.b \in Nat /\ j.c \in Nat /\ j.b .. j.c \subseteq Refs(j)
      BY <1>1, <1>7, Operands, OperandTypes
    <2>2. j.c <= i.b \/ i.b < j.b
      BY <1>7, Operands DEF InFrame
    <2>3. Moved(map, j.b, j.c)
      BY <1>3, <1>5, <2>1, <2>2
    <2> QED BY <1>4, <1>7, <2>3 DEF Moves
  <1>8. CASE j.op \notin {"call", "cat", "lix"}
    BY <1>4, <1>8 DEF Moves
  <1> QED BY <1>6, <1>7, <1>8

\* An instruction of the callee in the place of the call refers to the registers that
\* InlineRegister gives, which lie within the frame of the caller.
LEMMA InlinedInstruction ==
  ASSUME NEW i, NEW highest, NEW nregs, NEW nargs, NEW gregs, SiteFits(i, highest, nregs, nargs, gregs),
         NEW j, InFrame(j, gregs, i.b), j.op \notin {"closure", "invoke", "method"}
  PROVE  /\ InFrame(InlineInstruction(i, highest, j), nregs, nargs)
         /\ j.op # "return" =>
              \A p \in Pairs(j, InlineInstruction(i, highest, j)) :
                p[1] \in 0 .. gregs - 1 /\ p[2] = InlineRegister(i, highest, p[1])
  <1> DEFINE map == InlineMap(i, highest, j)
             new == InlineInstruction(i, highest, j)
  <1>1. IsInstruction(j) /\ Refs(j) \subseteq 0 .. gregs - 1
    BY DEF InFrame
  <1>2. \A r \in Refs(j) : map[r] = InlineRegister(i, highest, r)
    BY Zenon DEF InlineMap, Refs
  <1>3. i.b \in Nat /\ Base(i) \in Nat /\ gregs \in Nat /\ nregs \in Nat /\ nargs \in Nat
    BY WindowFacts DEF SiteFits, InFrame, Calls
  <1>4. \A r \in Refs(j) : map[r] \in 0 .. nregs - 1 /\ map[r] > nargs
    BY <1>1, <1>2, InlineRegisterRange
  <1>5. Base(i) \in 0 .. nregs - 1 /\ Base(i) > nargs
    <2>1. IsInstruction(i) /\ i.op \in Calls /\ nargs < i.a /\ Refs(i) \subseteq 0 .. nregs - 1
      BY DEF SiteFits, InFrame, Calls
    <2>2. i.a \in Nat /\ i.a <= Base(i) /\ Base(i) + 0 \in Window(i) /\ Window(i) \subseteq Refs(i)
      BY <1>3, <2>1, WindowFacts
    <2> QED BY <1>3, <2>1, <2>2
  <1>6. new = CASE j.op = "return" /\ j.a = 0                        -> Instr(j.id, "lct", Base(i), 0, Nil)
                [] j.op = "return" /\ j.a > 0 /\ map[j.b] = Base(i) -> Instr(j.id, "nop", 0, 0, 0)
                [] j.op = "return" /\ j.a > 0 /\ map[j.b] # Base(i) -> Instr(j.id, "mov", Base(i), map[j.b], 0)
                [] OTHER                                             -> MapRegisters(j, map)
    BY Zenon DEF InlineInstruction, InlineMap
  <1>7. Moves(map, j)
    BY InlineMoves
  <1> SUFFICES /\ InFrame(new, nregs, nargs)
               /\ j.op # "return" =>
                    \A p \in Pairs(j, new) : p[1] \in 0 .. gregs - 1 /\ p[2] = InlineRegister(i, highest, p[1])
    OBVIOUS
  <1> HIDE DEF map, new
  <1>8. CASE j.op # "return"
    <2>1. new = MapRegisters(j, map)
      BY <1>6, <1>8
    <2>2. IsMapped(map, j, new)
      BY <1>1, <1>7, <2>1, Mapped
    <2>3. IsInstruction(new) /\ Refs(new) = {map[r] : r \in Refs(j)} /\ new.op = j.op
      BY <2>2 DEF IsMapped
    <2>4. Refs(new) \subseteq 0 .. nregs - 1
      BY <1>4, <2>3
    <2>5. new.op \in Calls => nargs < new.a
      BY <1>4, <2>2, <2>3 DEF IsMapped
    <2>6. "range" \in Fields(new) => nargs < new.b
      <3>1. "range" \in Fields(new) => "range" \in Fields(j)
        BY <1>8, <2>3, Operands
      <3> QED BY <1>4, <2>2, <3>1 DEF IsMapped
    <2>7. \A p \in Pairs(j, new) : p[1] \in 0 .. gregs - 1 /\ p[2] = InlineRegister(i, highest, p[1])
      BY <1>1, <1>2, <2>2 DEF IsMapped
    <2> QED BY <2>3, <2>4, <2>5, <2>6, <2>7 DEF InFrame
  <1>9. CASE j.op = "return" /\ j.a > 0 /\ map[j.b] # Base(i)
    <2>1. new = Instr(j.id, "mov", Base(i), map[j.b], 0)
      BY <1>6, <1>9
    <2>2. j.b \in Refs(j)
      BY <1>9, Operands
    <2>3. /\ new.id = j.id /\ new.op = "mov" /\ new.a = Base(i) /\ new.b = map[j.b] /\ new.c = 0
          /\ new = Instr(new.id, new.op, new.a, new.b, new.c)
      BY <2>1 DEF Instr
    <2>4. Fields(new) = {"a", "b"} /\ Refs(new) = {new.a, new.b}
      BY <2>3, Operands
    <2>5. new.a \in 0 .. nregs - 1 /\ new.b \in 0 .. nregs - 1
      BY <1>4, <1>5, <2>2, <2>3
    <2>6. IsInstruction(new)
      BY <1>3, <2>3, <2>4, <2>5 DEF IsInstruction, Calls
    <2> QED BY <1>9, <2>3, <2>4, <2>5, <2>6 DEF InFrame, Calls
  <1>10. CASE j.op = "return" /\ j.a > 0 /\ map[j.b] = Base(i)
    <2>1. new = Instr(j.id, "nop", 0, 0, 0)
      BY <1>6, <1>10
    <2>2. new.op = "nop" /\ new = Instr(new.id, new.op, new.a, new.b, new.c)
      BY <2>1 DEF Instr
    <2>3. Fields(new) = {} /\ Refs(new) = {}
      BY <2>2, Operands
    <2>4. IsInstruction(new)
      BY <2>2, <2>3 DEF IsInstruction, Calls
    <2> QED BY <1>10, <2>2, <2>3, <2>4 DEF InFrame, Calls
  <1>11. CASE j.op = "return" /\ ~(j.a > 0)
    <2>1. j.a = 0
      BY <1>1, <1>11, OperandTypes
    <2>2. new = Instr(j.id, "lct", Base(i), 0, Nil)
      BY <1>6, <1>11, <2>1
    <2>3. new.op = "lct" /\ new.a = Base(i) /\ new = Instr(new.id, new.op, new.a, new.b, new.c)
      BY <2>2 DEF Instr
    <2>4. Fields(new) = {"a"} /\ Refs(new) = {new.a}
      BY <2>3, Operands
    <2>5. IsInstruction(new)
      BY <1>3, <2>3, <2>4 DEF IsInstruction, Calls
    <2> QED BY <1>5, <1>11, <2>3, <2>4, <2>5 DEF InFrame, Calls
  <1> QED BY <1>8, <1>9, <1>10, <1>11

\* Sequence t stands in r from place n on.
StandsAt(t, r, n) == \A m \in DOMAIN t : SubSeq(r, n, n + Len(t) - 1)[m] = t[m]

\* Where the second part of a sequence is.
LEMMA ElementAfter ==
  ASSUME NEW T, NEW s \in Seq(T), NEW t \in Seq(T), NEW m \in 1 .. Len(t)
  PROVE  (s \o t)[Len(s) + m] = t[m]
  <1>1. Len(s) \in Nat /\ Len(t) \in Nat
    OBVIOUS
  <1> PICK l, w, c : l = Len(s) /\ w = Len(t) /\ c = s \o t
    OBVIOUS
  <1>2. \A k \in 1 .. l + w : c[k] = IF k <= l THEN s[k] ELSE t[k - l]
    BY ONLY s \in Seq(T), t \in Seq(T), l = Len(s), w = Len(t), c = s \o t, ConcatProperties
  <1>3. l \in Nat /\ w \in Nat /\ m \in 1 .. w
    BY ONLY <1>1, m \in 1 .. Len(t), l = Len(s), w = Len(t)
  <1>4. l + m \in 1 .. l + w /\ ~(l + m <= l) /\ l + m - l = m
    BY ONLY <1>3
  <1>5. c[l + m] = t[m]
    BY ONLY <1>2, <1>3, <1>4
  <1> QED BY ONLY <1>5, l = Len(s), c = s \o t

\* An element of the first of two sequences joined.
LEMMA ElementBefore ==
  ASSUME NEW T, NEW s \in Seq(T), NEW t \in Seq(T), NEW m \in 1 .. Len(s)
  PROVE  (s \o t)[m] = s[m]
  <1>1. Len(s) \in Nat /\ Len(t) \in Nat
    OBVIOUS
  <1> PICK l, w, c : l = Len(s) /\ w = Len(t) /\ c = s \o t
    OBVIOUS
  <1>2. \A k \in 1 .. l + w : c[k] = IF k <= l THEN s[k] ELSE t[k - l]
    BY ONLY s \in Seq(T), t \in Seq(T), l = Len(s), w = Len(t), c = s \o t, ConcatProperties
  <1>3. m \in 1 .. l + w /\ m <= l
    BY ONLY <1>1, m \in 1 .. Len(s), l = Len(s), w = Len(t)
  <1>4. c[m] = s[m]
    BY ONLY <1>2, <1>3
  <1> QED BY ONLY <1>4, c = s \o t

\* A block with a sequence of instructions in the place of instruction n.
LEMMA ReplacedRight ==
  ASSUME NEW nregs, NEW nargs, NEW s, BlockInFrame(s, nregs, nargs), NEW n \in DOMAIN s,
         NEW t, BlockInFrame(t, nregs, nargs)
  PROVE  /\ BlockInFrame(Replaced(s, n, t), nregs, nargs)
         /\ StandsAt(t, Replaced(s, n, t), n)
  <1> DEFINE T == FrameCode(ToSet(s) \cup ToSet(t), nregs, nargs)
             before_n == SubSeq(s, 1, n - 1)
             after_n == SubSeq(s, n + 1, Len(s))
             r == Replaced(s, n, t)
  <1>1. s \in Seq(T) /\ t \in Seq(T)
    BY BlockSequence
  <1> HIDE DEF T
  <1>2. /\ Len(s) \in Nat /\ DOMAIN s = 1 .. Len(s) /\ Len(t) \in Nat /\ DOMAIN t = 1 .. Len(t)
        /\ n \in 1 .. Len(s)
    BY <1>1
  <1>3. before_n \in Seq(T) /\ Len(before_n) = n - 1
    BY <1>1, <1>2, SubSeqProperties
  <1>4. after_n \in Seq(T) /\ Len(after_n) = Len(s) - n
    BY <1>1, <1>2, SubSeqProperties
  <1>5. r = before_n \o t \o after_n
    BY Zenon DEF Replaced
  <1> HIDE DEF before_n, after_n, r
  <1>6. before_n \o t \in Seq(T) /\ Len(before_n \o t) = n - 1 + Len(t)
    BY <1>1, <1>3, ConcatProperties
  <1>7. r \in Seq(T) /\ Len(r) = n - 1 + Len(t) + (Len(s) - n)
    BY <1>4, <1>5, <1>6, ConcatProperties
  <1>8. BlockInFrame(r, nregs, nargs)
    BY <1>7, BlockSequence DEF T
  <1>9. ASSUME NEW m \in DOMAIN t PROVE SubSeq(r, n, n + Len(t) - 1)[m] = t[m]
    <2>1. m \in 1 .. Len(t)
      BY <1>2
    <2>2. r[n + m - 1] = (before_n \o t)[n + m - 1]
      <3>1. n + m - 1 \in 1 .. Len(before_n \o t)
        BY ONLY <1>2, <1>6, <2>1
      <3>2. ((before_n \o t) \o after_n)[n + m - 1] = (before_n \o t)[n + m - 1]
        BY ONLY <1>4, <1>6, <3>1, ElementBefore
      <3> QED BY ONLY <1>5, <3>2
    <2>3. (before_n \o t)[n + m - 1] = t[m]
      <3>1. (before_n \o t)[Len(before_n) + m] = t[m]
        BY ONLY <1>1, <1>3, <2>1, ElementAfter
      <3>2. Len(before_n) + m = n + m - 1
        BY ONLY <1>2, <1>3, <2>1
      <3> QED BY ONLY <3>1, <3>2
    <2>4. SubSeq(r, n, n + Len(t) - 1)[m] = r[n + m - 1]
      <3> DEFINE e == n + Len(t) - 1
      <3>1. n \in Int /\ e \in Int /\ m \in 1 .. e - n + 1
        BY ONLY <1>2, <2>1
      <3>2. n .. e \subseteq 1 .. Len(r)
        BY ONLY <1>2, <1>7
      <3>3. \A j \in n .. e : r[j] \in T
        BY ONLY <1>7, <3>2
      <3> HIDE DEF e
      <3>4. \A j \in 1 .. e - n + 1 : SubSeq(r, n, e)[j] = r[n + j - 1]
        BY ONLY <3>1, <3>3, SubSeqProperties
      <3>5. SubSeq(r, n, e)[m] = r[n + m - 1]
        BY ONLY <3>1, <3>4
      <3> QED BY <3>5 DEF e
    <2> QED BY <2>2, <2>3, <2>4
  <1> QED BY <1>8, <1>9 DEF r, StandsAt

\* The last register the callee must not take is a register of the caller. Those above
\* are not used after the call.
LEMMA HighestRight ==
  ASSUME NEW f, IsFunction(prog[f]), NEW k \in DOMAIN prog[f].code, NEW n \in DOMAIN prog[f].code[k],
         At(f, k, n).op \in {"call", "method"}
  PROVE  /\ InFrame(At(f, k, n), prog[f].nregs, prog[f].nargs)
         /\ Highest(f, k, n) \in 0 .. prog[f].nregs - 1
         /\ Base(At(f, k, n)) + At(f, k, n).b <= Highest(f, k, n)
         /\ \A r \in 0 .. prog[f].nregs - 1 : r > Highest(f, k, n) => ~IsUsed(f, k, n, r)
  <1> DEFINE i == At(f, k, n)
             N == prog[f].nregs
             used == {r \in 0 .. N - 1 : IsUsed(f, k, n, r)}
             last == i.a + i.b + (IF i.op = "method" THEN 1 ELSE 0)
  <1>1. N \in Nat /\ prog[f].nargs \in 0 .. N - 1 /\ BlockInFrame(prog[f].code[k], N, prog[f].nargs)
    BY FunctionBlocks
  <1>2. InFrame(i, N, prog[f].nargs)
    BY <1>1 DEF BlockInFrame, At
  <1>3. i.op \in {"call", "method"} /\ i.op \in Calls
    BY DEF Calls
  <1>4. Highest(f, k, n) = Max(used \cup {last})
    BY Zenon DEF Highest
  <1> HIDE DEF i, N, used
  <1>5. /\ i.a \in Nat /\ i.b \in Nat /\ Base(i) \in Nat
        /\ \A r \in 0 .. i.b : Base(i) + r \in Window(i)
        /\ Window(i) \subseteq 0 .. N - 1
    BY <1>2, <1>3, WindowFacts DEF InFrame
  <1>6. last = Base(i) + i.b
    BY <1>3, <1>5 DEF Base
  <1>7. last \in 0 .. N - 1
    BY <1>5, <1>6
  <1>8. used \cup {last} \in SUBSET (0 .. N - 1) /\ used \cup {last} # {}
    BY <1>7 DEF used
  <1> HIDE DEF last
  <1>9. N - 1 \in Nat
    BY <1>1
  <1>10. Max(used \cup {last}) \in used \cup {last} /\ \A y \in used \cup {last} : y <= Max(used \cup {last})
    BY ONLY <1>8, <1>9, MaxRight
  <1>11. \A r \in 0 .. N - 1 : r > Highest(f, k, n) => ~IsUsed(f, k, n, r)
    <2> SUFFICES ASSUME NEW r \in 0 .. N - 1, r > Highest(f, k, n), IsUsed(f, k, n, r)
                 PROVE  FALSE
      OBVIOUS
    <2>1. r \in used
      BY DEF used
    <2>2. r <= Highest(f, k, n) /\ Highest(f, k, n) \in 0 .. N - 1
      BY <1>4, <1>8, <1>10, <2>1
    <2> QED BY <1>1, <2>2
  <1> QED BY <1>2, <1>4, <1>6, <1>8, <1>10, <1>11 DEF i, N

\* A site, and the function that is called there.
LEMMA SiteRight ==
  ASSUME NEW f, IsFunction(prog[f]), NEW k \in DOMAIN prog[f].code, NEW n \in Nat \ {0}, Sites(f, k, n) # {}
  PROVE  /\ Min(Sites(f, k, n)) \in DOMAIN prog[f].code[k] /\ n <= Min(Sites(f, k, n))
         /\ \A g \in Callee(f, k, Min(Sites(f, k, n))) :
              /\ g \in DOMAIN prog /\ Inlinable(f, At(f, k, Min(Sites(f, k, n))), g)
              /\ \A h \in Callee(f, k, Min(Sites(f, k, n))) : h = g
  <1> DEFINE m == Min(Sites(f, k, n))
  <1>1. BlockInFrame(prog[f].code[k], prog[f].nregs, prog[f].nargs)
    BY FunctionBlocks
  <1>2. Len(prog[f].code[k]) \in Nat /\ DOMAIN prog[f].code[k] = 1 .. Len(prog[f].code[k])
    BY <1>1, SequencePlaces DEF BlockInFrame
  <1>3. Sites(f, k, n) \in SUBSET Nat
    BY <1>2 DEF Sites
  <1>4. m \in Sites(f, k, n)
    BY <1>3, MinRight
  <1> HIDE DEF m
  <1>5. m \in n .. Len(prog[f].code[k]) /\ \E g \in Callee(f, k, m) : Inlinable(f, At(f, k, m), g)
    BY <1>4, Zenon DEF Sites
  <1>6. \A g, h \in Callee(f, k, m) : g = h /\ g \in DOMAIN prog
    BY Zenon DEF Callee
  <1>7. \A g \in Callee(f, k, m) : g \in DOMAIN prog /\ Inlinable(f, At(f, k, m), g) /\ \A h \in Callee(f, k, m) : h = g
    BY <1>5, <1>6, Zenon
  <1>8. m \in DOMAIN prog[f].code[k] /\ n <= m
    BY <1>2, <1>5
  <1> QED BY <1>7, <1>8 DEF m

\* With as many registers as it needs, the callee fits above what the caller still uses.
LEMMA CallFits ==
  ASSUME NEW f, IsFunction(prog[f]), NEW k \in DOMAIN prog[f].code, NEW n \in DOMAIN prog[f].code[k],
         NEW g, IsFunction(prog[g]), Inlinable(f, At(f, k, n), g)
  PROVE  /\ Needs(f, k, n, g) \in Nat
         /\ Needs(f, k, n, g) <= prog[f].nregs =>
              SiteFits(At(f, k, n), Highest(f, k, n), prog[f].nregs, prog[f].nargs, prog[g].nregs)
         /\ BlockInFrame(prog[g].code[1], prog[g].nregs, At(f, k, n).b)
         /\ \A m \in DOMAIN prog[g].code[1] : prog[g].code[1][m].op \notin {"closure", "invoke", "method"}
         /\ At(f, k, n).b < prog[g].nregs
  <1> DEFINE i == At(f, k, n)
             d == prog[g].nregs - i.b - 1
  <1>1. /\ i.op \in {"call", "method"} /\ i.b = prog[g].nargs
        /\ \A m \in DOMAIN prog[g].code[1] : prog[g].code[1][m].op \notin {"closure", "invoke", "method"}
    BY Zenon DEF Inlinable
  <1>2. /\ InFrame(i, prog[f].nregs, prog[f].nargs)
        /\ Highest(f, k, n) \in 0 .. prog[f].nregs - 1
        /\ Base(i) + i.b <= Highest(f, k, n)
    BY <1>1, HighestRight
  <1>3. /\ prog[g].nregs \in Nat /\ prog[g].nargs \in 0 .. prog[g].nregs - 1
        /\ BlockInFrame(prog[g].code[1], prog[g].nregs, prog[g].nargs)
    BY FunctionBlocks
  <1>4. prog[f].nregs \in Nat /\ prog[f].nargs \in Nat
    BY FunctionBlocks
  <1>5. Needs(f, k, n, g) = Highest(f, k, n) + Max({d, 0}) + 1
    BY Zenon DEF Needs
  <1> HIDE DEF i
  <1>6. d \in Nat /\ i.b < prog[g].nregs
    BY <1>1, <1>3
  <1>7. Max({d, 0}) \in Nat /\ d <= Max({d, 0})
    <2> HIDE DEF d
    <2> QED BY <1>6, MaxOfTwo
  <1>8. Needs(f, k, n, g) \in Nat
    <2> HIDE DEF d
    <2> QED BY <1>2, <1>5, <1>7
  <1>9. ASSUME Needs(f, k, n, g) <= prog[f].nregs
        PROVE  SiteFits(i, Highest(f, k, n), prog[f].nregs, prog[f].nargs, prog[g].nregs)
    <2>1. Highest(f, k, n) \in Nat
      BY <1>2
    <2>2. Highest(f, k, n) + d < prog[f].nregs
      <3> HIDE DEF d
      <3> QED BY <1>4, <1>5, <1>6, <1>7, <1>9, <2>1
    <2> QED BY <1>1, <1>2, <1>3, <1>4, <2>1, <2>2 DEF SiteFits
  <1> QED BY <1>1, <1>3, <1>6, <1>8, <1>9 DEF i

\* The callee's code, in the place of the call, lies within the frame of the caller.
LEMMA BodyInlined ==
  ASSUME NEW f, IsFunction(prog[f]), NEW k \in DOMAIN prog[f].code, NEW n \in DOMAIN prog[f].code[k],
         NEW g, IsFunction(prog[g]), Inlinable(f, At(f, k, n), g), Needs(f, k, n, g) <= prog[f].nregs
  PROVE  /\ BlockInFrame(Inlined(f, k, n, g), prog[f].nregs, prog[f].nargs)
         /\ DOMAIN Inlined(f, k, n, g) = DOMAIN prog[g].code[1]
         /\ Len(Inlined(f, k, n, g)) = Len(prog[g].code[1])
         /\ \A m \in DOMAIN prog[g].code[1] :
              Inlined(f, k, n, g)[m] = InlineInstruction(At(f, k, n), Highest(f, k, n), prog[g].code[1][m])
  <1> DEFINE body == prog[g].code[1]
             nregs == prog[f].nregs
             nargs == prog[f].nargs
             T == FrameCode({InlineInstruction(At(f, k, n), Highest(f, k, n), body[m]) : m \in DOMAIN body}, nregs, nargs)
             new == Inlined(f, k, n, g)
  <1>1. /\ SiteFits(At(f, k, n), Highest(f, k, n), nregs, nargs, prog[g].nregs)
        /\ BlockInFrame(body, prog[g].nregs, At(f, k, n).b)
        /\ \A m \in DOMAIN body : body[m].op \notin {"closure", "invoke", "method"}
    BY CallFits
  <1>2. new = [m \in DOMAIN body |-> InlineInstruction(At(f, k, n), Highest(f, k, n), body[m])]
    BY Zenon DEF Inlined
  <1>3. Len(body) \in Nat /\ DOMAIN body = 1 .. Len(body)
    BY <1>1, SequencePlaces DEF BlockInFrame
  <1> HIDE DEF body, nregs, nargs, new
  <1>4. \A m \in DOMAIN body : InFrame(InlineInstruction(At(f, k, n), Highest(f, k, n), body[m]), nregs, nargs)
    <2> TAKE m \in DOMAIN body
    <2>1. InFrame(body[m], prog[g].nregs, At(f, k, n).b) /\ body[m].op \notin {"closure", "invoke", "method"}
      BY <1>1 DEF BlockInFrame
    <2> QED BY <1>1, <2>1, InlinedInstruction
  <1>5. \A m \in DOMAIN body : InlineInstruction(At(f, k, n), Highest(f, k, n), body[m]) \in T
    BY <1>4 DEF FrameCode
  <1> HIDE DEF T
  <1>6. new \in [1 .. Len(body) -> T]
    BY <1>2, <1>3, <1>5
  <1>7. new \in Seq(T) /\ Len(new) = Len(body)
    BY <1>3, <1>6, SeqDef
  <1>8. BlockInFrame(new, nregs, nargs)
    BY <1>7, BlockSequence DEF T
  <1> QED BY <1>2, <1>7, <1>8 DEF new, body, nregs, nargs

\* Where the passes are.
LEMMA HereRight ==
  ASSUME TypeOK, Scanning
  PROVE  /\ Here \in DOMAIN prog /\ Here \in ToSet(Order) /\ IsFunction(prog[Here])
         /\ at.k \in prog[Here].live /\ at.k \in DOMAIN prog[Here].code /\ at.n \in Nat \ {0}
         /\ at \in [f : 1 .. Len(Order) + 1, k : Nat \ {0}, n : Nat \ {0}]
         /\ at.f \in 1 .. Len(Order)
  <1>1. Len(Order) \in Nat /\ DOMAIN Order = 1 .. Len(Order)
    BY FramesAssumption, SequencePlaces
  <1>2. at \in [f : 1 .. Len(Order) + 1, k : Nat \ {0}, n : Nat \ {0}] /\ at.f <= Len(Order)
    BY DEF TypeOK, Scanning
  <1>3. at.f \in 1 .. Len(Order)
    BY <1>1, <1>2
  <1>4. Here \in ToSet(Order)
    BY <1>1, <1>3 DEF Here, ToSet
  <1>5. Here \in DOMAIN prog /\ IsFunction(prog[Here]) /\ at.k \in prog[Here].live
    BY <1>2, <1>4 DEF TypeOK
  <1>6. at.k \in DOMAIN prog[Here].code
    BY <1>5, FunctionBlocks
  <1> QED BY <1>2, <1>3, <1>4, <1>5, <1>6

\* Inlining a call leaves code within the frame, and registers apart.
LEMMA InlineStep ==
  ASSUME TypeOK, Inline
  PROVE  TypeOK' /\ InliningApart
  <1> DEFINE f == Here
             k == at.k
             n == Site
             i == At(f, k, n)
  <1>1. Scanning /\ Sites(Here, at.k, at.n) # {}
    BY DEF Inline
  <1>2. /\ f \in DOMAIN prog /\ IsFunction(prog[f]) /\ k \in prog[f].live /\ k \in DOMAIN prog[f].code
        /\ at.n \in Nat \ {0} /\ at.f \in 1 .. Len(Order)
        /\ at \in [f : 1 .. Len(Order) + 1, k : Nat \ {0}, n : Nat \ {0}]
    BY <1>1, HereRight
  <1>3. PICK g \in Callee(Here, at.k, Site) :
          /\ Needs(Here, at.k, Site, g) <= prog[Here].nregs
          /\ prog' = [prog EXCEPT ![Here].code[at.k] = Replaced(@, Site, Inlined(Here, at.k, Site, g))]
    BY Zenon DEF Inline
  <1>4. /\ n \in DOMAIN prog[f].code[k] /\ g \in DOMAIN prog /\ Inlinable(f, i, g)
        /\ \A h \in Callee(f, k, n) : h = g
    BY <1>1, <1>2, <1>3, SiteRight DEF Site
  <1>5. IsFunction(prog[g])
    BY <1>4 DEF TypeOK
  <1> DEFINE t == Inlined(f, k, n, g)
             s == prog[f].code[k]
             body == prog[g].code[1]
             highest == Highest(f, k, n)
             new == Replaced(s, n, t)
  <1>6. /\ BlockInFrame(t, prog[f].nregs, prog[f].nargs)
        /\ DOMAIN t = DOMAIN body /\ Len(t) = Len(body)
        /\ \A m \in DOMAIN body : t[m] = InlineInstruction(i, highest, body[m])
    BY <1>2, <1>3, <1>4, <1>5, BodyInlined
  <1>7. BlockInFrame(s, prog[f].nregs, prog[f].nargs)
    BY <1>2, FunctionBlocks
  <1>8. /\ BlockInFrame(new, prog[f].nregs, prog[f].nargs)
        /\ StandsAt(t, new, n)
    <2>1. n \in DOMAIN s /\ BlockInFrame(s, prog[f].nregs, prog[f].nargs) /\ BlockInFrame(t, prog[f].nregs, prog[f].nargs)
      BY <1>4, <1>6, <1>7
    <2> HIDE DEF t, s, n, f
    <2> HIDE DEF k
    <2>2. BlockInFrame(new, prog[f].nregs, prog[f].nargs)
      BY ONLY <2>1, ReplacedRight
    <2>3. StandsAt(t, new, n)
      BY ONLY <2>1, ReplacedRight
    <2> QED BY <2>2, <2>3
  <1>9. /\ DOMAIN prog' = DOMAIN prog /\ prog'[f] = WithBlock(prog[f], k, new)
        /\ \A h \in DOMAIN prog \ {f} : prog'[h] = prog[h]
    <2> HIDE DEF n, t
    <2>1. prog' = [prog EXCEPT ![f].code[k] = Replaced(@, n, t)]
      BY <1>3, Zenon DEF n, t
    <2> HIDE DEF f, k
    <2>2. prog' = [prog EXCEPT ![f] = WithBlock(prog[f], k, new)]
      BY <1>2, <2>1 DEF WithBlock
    <2> HIDE DEF new
    <2> QED BY <1>2, <2>2
  <1> HIDE DEF new, t, i
  <1>10. /\ IsFunction(prog'[f]) /\ prog'[f].nregs = prog[f].nregs /\ prog'[f].live = prog[f].live
         /\ prog'[f].code[k] = new
    BY <1>2, <1>8, <1>9, BlockReplaced
  <1>11. TypeOK'
    <2>1. DOMAIN prog' = ToSet(Order) /\ \A h \in DOMAIN prog' : IsFunction(prog'[h])
      BY <1>9, <1>10 DEF TypeOK
    <2>2. required' = required /\ pass' = pass /\ compacted' = compacted /\ at' = [at EXCEPT !.n = 1]
      BY DEF Inline
    <2>3. \A h \in DOMAIN prog' : prog'[h].nregs = prog[h].nregs
      BY <1>9, <1>10
    <2>4. \A h \in DOMAIN prog' : required'[h] = 0 \/ required'[h] > prog'[h].nregs
      BY <1>9, <2>2, <2>3 DEF TypeOK
    <2>5. /\ at' \in [f : 1 .. Len(Order) + 1, k : Nat \ {0}, n : Nat \ {0}]
          /\ at'.f = at.f /\ at'.k = at.k
      BY <1>2, <2>2
    <2>6. at'.k \in prog'[Here'].live
      <3>1. Here' = Here
        BY <2>5 DEF Here
      <3> QED BY <1>2, <1>10, <2>5, <3>1
    <2> QED BY <2>1, <2>2, <2>4, <2>5, <2>6 DEF TypeOK
  <1>12. InliningApart
    <2>1. SiteFits(i, highest, prog[f].nregs, prog[f].nargs, prog[g].nregs)
      BY <1>2, <1>3, <1>4, <1>5, CallFits DEF i
    <2>2. i.b < prog[g].nregs /\ i.b \in Nat /\ prog[g].nregs \in Nat
      <3>1. i.b < prog[g].nregs
        BY <1>2, <1>4, <1>5, CallFits DEF i
      <3>2. i.b \in Nat /\ prog[g].nregs \in Nat
        BY <2>1, WindowFacts DEF SiteFits, InFrame, Calls
      <3> QED BY <3>1, <3>2
    <2>3. /\ BlockInFrame(body, prog[g].nregs, i.b)
          /\ \A m \in DOMAIN body : body[m].op \notin {"closure", "invoke", "method"}
      BY <1>2, <1>4, <1>5, CallFits DEF i
    <2>4. \A r \in 0 .. prog[f].nregs - 1 : r > highest => ~IsUsed(f, k, n, r)
      <3>1. i.op \in {"call", "method"}
        BY <1>4 DEF Inlinable
      <3> QED BY <1>2, <1>4, <3>1, HighestRight DEF i
    <2> DEFINE seg == SubSeq(prog'[Here].code[at.k], Site, Site + Len(prog[g].code[1]) - 1)
               P == InlinedPairs(i, body, seg)
    <2>5. \A m \in DOMAIN body : seg[m] = InlineInstruction(i, highest, body[m])
      BY <1>6, <1>8, <1>10 DEF StandsAt
    <2>6. \A p \in P : p[1] \in 0 .. prog[g].nregs - 1 /\ p[2] = InlineRegister(i, highest, p[1])
      <3> SUFFICES ASSUME NEW p \in P
                   PROVE  p[1] \in 0 .. prog[g].nregs - 1 /\ p[2] = InlineRegister(i, highest, p[1])
        OBVIOUS
      <3> HIDE DEF f, k, n, body, seg, highest
      <3>1. CASE p \in {<<r, Base(i) + r>> : r \in 0 .. i.b}
        <4>1. PICK r \in 0 .. i.b : p = <<r, Base(i) + r>>
          BY <3>1
        <4>2. r \in 0 .. prog[g].nregs - 1 /\ r <= i.b
          BY <2>2
        <4>3. InlineRegister(i, highest, r) = Base(i) + r
          BY <2>1, <4>2, InlineRegisterRange
        <4> QED BY <4>1, <4>2, <4>3
      <3>2. CASE p \in UNION {Pairs(body[m], seg[m]) : m \in {x \in DOMAIN body : body[x].op # "return"}}
        <4>1. PICK m \in DOMAIN body : body[m].op # "return" /\ p \in Pairs(body[m], seg[m])
          BY <3>2
        <4>2. InFrame(body[m], prog[g].nregs, i.b) /\ body[m].op \notin {"closure", "invoke", "method"}
          BY <2>3 DEF BlockInFrame
        <4>3. p \in Pairs(body[m], InlineInstruction(i, highest, body[m]))
          BY <2>5, <4>1
        <4> QED BY <2>1, <4>1, <4>2, <4>3, InlinedInstruction
      <3> QED BY <3>1, <3>2 DEF InlinedPairs
    <2> HIDE DEF P, seg, body, highest, f, k, n
    <2>7. OneToOne(P)
      <3> SUFFICES ASSUME NEW p \in P, NEW q \in P
                   PROVE  p[1] = q[1] <=> p[2] = q[2]
        BY DEF OneToOne
      <3>1. /\ p[1] \in 0 .. prog[g].nregs - 1 /\ p[2] = InlineRegister(i, highest, p[1])
            /\ q[1] \in 0 .. prog[g].nregs - 1 /\ q[2] = InlineRegister(i, highest, q[1])
        BY <2>6
      <3> QED BY <2>1, <3>1, InlineRegisterApart
    <2>8. ASSUME NEW p \in P
          PROVE  p[2] \in 0 .. prog[f].nregs - 1 /\ (p[2] \in Window(i) \/ ~IsUsed(f, k, n, p[2]))
      <3>1. p[1] \in 0 .. prog[g].nregs - 1 /\ p[2] = InlineRegister(i, highest, p[1])
        BY <2>6
      <3>2. p[2] \in 0 .. prog[f].nregs - 1
        BY <2>1, <3>1, InlineRegisterRange
      <3>3. CASE p[1] <= i.b
        BY <2>1, <3>1, <3>2, <3>3, InlineRegisterRange
      <3>4. CASE p[1] > i.b
        <4>1. p[2] > highest
          BY <2>1, <3>1, <3>4, InlineRegisterRange
        <4> QED BY <2>4, <3>2, <4>1
      <3> QED BY <2>2, <3>1, <3>3, <3>4
    <2> QED BY <1>4, <2>7, <2>8, Zenon DEF InliningApart, P, seg, body, f, k, n, i
  <1> QED BY <1>11, <1>12

-----------------------------------------------------------------------------
(***************************************************************************)
(* The passes.                                                             *)
(***************************************************************************)
\* A call that is put off asks for more registers than there are.
LEMMA PutOffStep ==
  ASSUME TypeOK, PutOff
  PROVE  TypeOK'
  <1>1. Scanning /\ Sites(Here, at.k, at.n) # {}
    BY DEF PutOff
  <1>2. /\ Here \in DOMAIN prog /\ Here \in ToSet(Order) /\ IsFunction(prog[Here])
        /\ at.k \in prog[Here].live /\ at.k \in DOMAIN prog[Here].code
        /\ at.n \in Nat \ {0} /\ at.f \in 1 .. Len(Order)
        /\ at \in [f : 1 .. Len(Order) + 1, k : Nat \ {0}, n : Nat \ {0}]
    BY <1>1, HereRight
  <1>3. PICK g \in Callee(Here, at.k, Site) :
          /\ Needs(Here, at.k, Site, g) > prog[Here].nregs
          /\ required' = [required EXCEPT ![Here] = Max({@, Needs(Here, at.k, Site, g)})]
    BY Zenon DEF PutOff
  <1>4. /\ Site \in DOMAIN prog[Here].code[at.k] /\ at.n <= Site
        /\ g \in DOMAIN prog /\ Inlinable(Here, At(Here, at.k, Site), g)
    BY <1>1, <1>2, <1>3, SiteRight DEF Site
  <1>5. Needs(Here, at.k, Site, g) \in Nat
    <2>1. IsFunction(prog[g])
      BY <1>4 DEF TypeOK
    <2> QED BY <1>2, <1>4, <2>1, CallFits
  <1>6. required \in [ToSet(Order) -> Nat] /\ prog[Here].nregs \in Nat
    BY <1>2, FunctionBlocks DEF TypeOK
  <1>7. /\ Max({required[Here], Needs(Here, at.k, Site, g)}) \in Nat
        /\ Max({required[Here], Needs(Here, at.k, Site, g)}) > prog[Here].nregs
    <2>1. required[Here] \in Nat
      BY <1>2, <1>6
    <2> QED BY <1>3, <1>5, <1>6, <2>1, MaxOfTwo
  <1>8. /\ prog' = prog /\ pass' = pass /\ compacted' = compacted
        /\ at' = [at EXCEPT !.n = Site + 1]
    BY DEF PutOff
  <1>9. /\ required' \in [ToSet(Order) -> Nat]
        /\ \A h \in DOMAIN prog : required'[h] = 0 \/ required'[h] > prog[h].nregs
    <2> DEFINE x == Max({required[Here], Needs(Here, at.k, Site, g)})
    <2>1. required' = [required EXCEPT ![Here] = x] /\ x \in Nat /\ x > prog[Here].nregs
      BY <1>3, <1>7
    <2> HIDE DEF x
    <2>2. required' \in [ToSet(Order) -> Nat]
      BY <1>2, <1>6, <2>1
    <2>3. \A h \in DOMAIN prog : required'[h] = 0 \/ required'[h] > prog[h].nregs
      BY <1>2, <1>6, <2>1 DEF TypeOK
    <2> QED BY <2>2, <2>3
  <1>10. /\ at' \in [f : 1 .. Len(Order) + 1, k : Nat \ {0}, n : Nat \ {0}]
         /\ at'.f = at.f /\ at'.k = at.k
    <2>1. Site + 1 \in Nat \ {0}
      <3>1. BlockInFrame(prog[Here].code[at.k], prog[Here].nregs, prog[Here].nargs)
        BY <1>2, FunctionBlocks
      <3>2. /\ Len(prog[Here].code[at.k]) \in Nat
            /\ DOMAIN prog[Here].code[at.k] = 1 .. Len(prog[Here].code[at.k])
        BY ONLY <3>1, SequencePlaces DEF BlockInFrame
      <3>3. Site \in 1 .. Len(prog[Here].code[at.k])
        BY ONLY <1>4, <3>2
      <3> QED BY ONLY <3>2, <3>3
    <2> QED BY <1>2, <1>8, <2>1
  <1>11. at'.f <= Len(Order) => at'.k \in prog'[Here'].live
    <2>1. Here' = Here
      BY <1>10 DEF Here
    <2> QED BY <1>2, <1>8, <1>10, <2>1
  <1> QED BY <1>8, <1>9, <1>10, <1>11 DEF TypeOK

\* The next block can be reached.
LEMMA NextBlockStep ==
  ASSUME TypeOK, NextBlock
  PROVE  TypeOK'
  <1>1. Scanning
    BY DEF NextBlock
  <1>2. /\ Here \in DOMAIN prog /\ IsFunction(prog[Here])
        /\ at.f \in 1 .. Len(Order)
        /\ at \in [f : 1 .. Len(Order) + 1, k : Nat \ {0}, n : Nat \ {0}]
    BY <1>1, HereRight
  <1>3. Len(Order) \in Nat /\ DOMAIN Order = 1 .. Len(Order)
    BY FramesAssumption, SequencePlaces
  <1> DEFINE later == Later(Here, at.k)
  <1>4. later \in SUBSET (Nat \ {0}) /\ later \subseteq prog[Here].live
    <2>1. prog[Here].live \subseteq 1 .. Len(prog[Here].code) /\ Len(prog[Here].code) \in Nat
      BY <1>2, FunctionBlocks, SequencePlaces
    <2> QED BY <2>1 DEF Later
  <1>5. /\ prog' = prog /\ required' = required /\ pass' = pass /\ compacted' = compacted
        /\ at' = IF later # {} THEN [f |-> at.f, k |-> Min(later), n |-> 1]
                               ELSE [f |-> at.f + 1, k |-> 1, n |-> 1]
    BY Zenon DEF NextBlock
  <1> HIDE DEF later
  <1>6. CASE later # {}
    <2>1. Min(later) \in later
      BY <1>4, <1>6, MinRight
    <2>2. /\ at' \in [f : 1 .. Len(Order) + 1, k : Nat \ {0}, n : Nat \ {0}]
          /\ at'.f = at.f /\ at'.k = Min(later)
      <3> DEFINE least == Min(later)
      <3>1. least \in Nat \ {0} /\ at.f \in 1 .. Len(Order) + 1 /\ at' = [f |-> at.f, k |-> least, n |-> 1]
        BY <1>2, <1>3, <1>4, <1>5, <1>6, <2>1
      <3> HIDE DEF least
      <3>2. /\ at' \in [f : 1 .. Len(Order) + 1, k : Nat \ {0}, n : Nat \ {0}]
            /\ at'.f = at.f /\ at'.k = least
        BY <3>1
      <3> QED BY <3>2 DEF least
    <2>3. at'.k \in prog'[Here'].live
      <3>1. Here' = Here
        BY <2>2 DEF Here
      <3> QED BY <1>4, <1>5, <2>1, <2>2, <3>1
    <2> QED BY <1>5, <2>2, <2>3 DEF TypeOK
  <1>7. CASE later = {}
    <2>1. /\ at' \in [f : 1 .. Len(Order) + 1, k : Nat \ {0}, n : Nat \ {0}]
          /\ at'.f = at.f + 1 /\ at'.k = 1
      BY <1>2, <1>3, <1>5, <1>7
    <2>2. at'.f <= Len(Order) => at'.k \in prog'[Here'].live
      <3> SUFFICES ASSUME at'.f <= Len(Order)
                   PROVE  1 \in prog'[Here'].live
        BY <2>1
      <3>1. at'.f \in 1 .. Len(Order)
        BY <1>2, <1>3, <2>1
      <3>2. Here' \in ToSet(Order)
        BY <1>3, <3>1 DEF Here, ToSet
      <3>3. IsFunction(prog[Here'])
        BY <3>2 DEF TypeOK
      <3> QED BY <1>5, <3>3, FunctionBlocks
    <2> QED BY <1>5, <2>1, <2>2 DEF TypeOK
  <1> QED BY <1>6, <1>7

\* A function with more registers.
WithRegisters(fn, n) == [fn EXCEPT !.nregs = n]

\* Its code stays within them.
LEMMA RegistersAdded ==
  ASSUME NEW fn, IsFunction(fn), NEW n \in Nat, fn.nregs <= n
  PROVE  IsFunction(WithRegisters(fn, n))
  <1> DEFINE new == WithRegisters(fn, n)
  <1>1. /\ DOMAIN fn = {"nregs", "nargs", "nopt", "code", "live", "plotfield"}
        /\ fn.nregs \in Nat /\ fn.nargs \in 0 .. fn.nregs - 1
        /\ IsSequence(fn.code) /\ 1 \in fn.live /\ fn.live \subseteq DOMAIN fn.code
        /\ \A h \in DOMAIN fn.code : BlockInFrame(fn.code[h], fn.nregs, fn.nargs)
    BY FunctionBlocks
  <1>2. /\ DOMAIN new = {"nregs", "nargs", "nopt", "code", "live", "plotfield"}
        /\ new.nregs = n /\ new.nargs = fn.nargs /\ new.live = fn.live /\ new.code = fn.code
    BY <1>1 DEF WithRegisters
  <1> HIDE DEF new
  <1>3. \A h \in DOMAIN fn.code : BlockInFrame(fn.code[h], n, fn.nargs)
    BY <1>1, MoreRegisters DEF BlockInFrame
  <1>4. fn.nargs \in 0 .. n - 1
    BY <1>1
  <1>5. IsFunction(new)
    BY <1>1, <1>2, <1>3, <1>4, FunctionBlocks
  <1> QED BY <1>5 DEF new

\* A pass ends.
LEMMA NextPassStep ==
  ASSUME TypeOK, NextPass
  PROVE  TypeOK'
  <1>1. /\ pass <= Passes /\ at.f > Len(Order) /\ pass' = pass + 1 /\ compacted' = compacted
        /\ pass \in 1 .. Passes + 1
    BY DEF NextPass, TypeOK
  <1>2. pass' \in 1 .. Passes + 1
    BY <1>1, PassesAssumption
  <1>3. Len(Order) \in Nat /\ DOMAIN Order = 1 .. Len(Order)
    BY FramesAssumption, SequencePlaces
  <1>4. CASE ~(pass < Passes)
    <2>1. UNCHANGED <<prog, required, at>>
      BY <1>4 DEF NextPass
    <2>2. Here' = Here
      BY <2>1 DEF Here
    <2> QED BY <1>1, <1>2, <2>1, <2>2 DEF TypeOK
  <1>5. CASE pass < Passes
    <2>1. /\ prog' = Enlarged
          /\ required' = [f \in DOMAIN prog |-> 0]
          /\ at' = [f |-> 1, k |-> 1, n |-> 1]
      BY <1>5 DEF NextPass
    <2>2. DOMAIN prog = ToSet(Order)
      BY DEF TypeOK
    <2>3. DOMAIN prog' = ToSet(Order) /\ \A f \in DOMAIN prog : prog'[f] = WithRegisters(prog[f], Max({prog[f].nregs, required[f]}))
      BY <2>1, <2>2 DEF Enlarged, WithRegisters
    <2>4. \A f \in DOMAIN prog : IsFunction(prog'[f])
      <3> TAKE f \in DOMAIN prog
      <3>1. IsFunction(prog[f]) /\ required[f] \in Nat
        BY <2>2 DEF TypeOK
      <3>2. prog[f].nregs \in Nat
        BY <3>1, FunctionBlocks
      <3>3. Max({prog[f].nregs, required[f]}) \in Nat /\ prog[f].nregs <= Max({prog[f].nregs, required[f]})
        BY <3>1, <3>2, MaxOfTwo
      <3> QED BY <2>3, <3>1, <3>3, RegistersAdded
    <2>5. required' \in [ToSet(Order) -> Nat] /\ \A f \in DOMAIN prog' : required'[f] = 0
      BY <2>1, <2>2, <2>3
    <2>6. at' \in [f : 1 .. Len(Order) + 1, k : Nat \ {0}, n : Nat \ {0}] /\ at'.f = 1 /\ at'.k = 1
      BY <1>3, <2>1
    <2>7. at'.f <= Len(Order) => at'.k \in prog'[Here'].live
      <3> SUFFICES ASSUME 1 <= Len(Order)
                   PROVE  1 \in prog'[Here'].live
        BY <2>6
      <3>1. Here' \in ToSet(Order)
        BY <1>3, <2>6 DEF Here, ToSet
      <3>2. IsFunction(prog'[Here'])
        BY <2>2, <2>4, <3>1
      <3> QED BY <3>2, FunctionBlocks
    <2> QED BY <1>1, <1>2, <2>2, <2>3, <2>4, <2>5, <2>6, <2>7 DEF TypeOK
  <1> QED BY <1>4, <1>5

-----------------------------------------------------------------------------
(***************************************************************************)
(* Numbers of registers, anew.                                             *)
(***************************************************************************)
\* How many members of a set are less than r.
Rank(U, r) == Cardinality({q \in U : q < r})

\* Ranks of members differ, in their order, and are less than the members are many.
LEMMA RankFacts ==
  ASSUME NEW N \in Nat, NEW U \in SUBSET (0 .. N - 1)
  PROVE  /\ Cardinality(U) \in 0 .. N
         /\ \A r \in U : Rank(U, r) \in 0 .. Cardinality(U) - 1
         /\ \A r, q \in U : r < q => Rank(U, r) < Rank(U, q)
  <1>8. \A q \in U : q \in Nat /\ ~(q < q)
    OBVIOUS
  <1>1. IsFiniteSet(0 .. N - 1) /\ Cardinality(0 .. N - 1) = N
    <2>1. 0 \in Int /\ N - 1 \in Int
      OBVIOUS
    <2>2. IsFiniteSet(0 .. N - 1) /\ Cardinality(0 .. N - 1) = IF 0 > N - 1 THEN 0 ELSE N - 1 - 0 + 1
      BY <2>1, FS_Interval
    <2> QED BY <2>2
  <1>2. IsFiniteSet(U) /\ Cardinality(U) <= N
    BY <1>1, FS_Subset
  <1>3. Cardinality(U) \in Nat
    BY <1>2, FS_CardinalityType
  \* A member and those less than it, within a set of members.
  <1>4. ASSUME NEW r \in U, NEW V \in SUBSET U, r \in V, \A q \in U : q < r => q \in V
        PROVE  Rank(U, r) \in Nat /\ Cardinality(V) \in Nat /\ Rank(U, r) + 1 <= Cardinality(V)
    <2> DEFINE S == {q \in U : q < r}
    <2>1. IsFiniteSet(V) /\ Cardinality(V) \in Nat
      BY <1>2, FS_Subset, FS_CardinalityType
    <2>2. S \in SUBSET U /\ r \notin S /\ S \cup {r} \in SUBSET V
      BY <1>4, <1>8
    <2>3. Rank(U, r) = Cardinality(S)
      BY DEF Rank
    <2> HIDE DEF S
    <2>4. IsFiniteSet(S) /\ Cardinality(S) \in Nat
      BY <1>2, <2>2, FS_Subset, FS_CardinalityType
    <2>5. Cardinality(S \cup {r}) = Cardinality(S) + 1
      BY <2>2, <2>4, FS_AddElement
    <2>6. Cardinality(S \cup {r}) <= Cardinality(V)
      BY <2>1, <2>2, FS_Subset
    <2> QED BY <2>1, <2>3, <2>4, <2>5, <2>6
  <1>5. ASSUME NEW r \in U PROVE Rank(U, r) \in 0 .. Cardinality(U) - 1
    <2>1. Rank(U, r) \in Nat /\ Rank(U, r) + 1 <= Cardinality(U)
      BY <1>4
    <2> QED BY <1>3, <2>1
  <1>6. ASSUME NEW r \in U, NEW q \in U, r < q PROVE Rank(U, r) < Rank(U, q)
    <2> DEFINE V == {p \in U : p < q}
    <2>1. V \in SUBSET U /\ r \in V /\ \A p \in U : p < r => p \in V
      BY <1>6
    <2>2. Rank(U, q) = Cardinality(V)
      BY DEF Rank
    <2> HIDE DEF V
    <2>3. Rank(U, r) \in Nat /\ Cardinality(V) \in Nat /\ Rank(U, r) + 1 <= Cardinality(V)
      BY <1>4, <2>1
    <2> QED BY <2>2, <2>3
  <1>7. Cardinality(U) \in 0 .. N
    BY <1>2, <1>3
  <1> QED BY <1>5, <1>6, <1>7

\* Numbers that follow one another have ranks that do.
LEMMA RankInterval ==
  ASSUME NEW N \in Nat, NEW U \in SUBSET (0 .. N - 1), NEW lo \in Nat, NEW hi \in Nat, lo .. hi \subseteq U,
         NEW r \in lo .. hi
  PROVE  Rank(U, r) = Rank(U, lo) + (r - lo)
  <1> DEFINE S == {q \in U : q < lo}
             T == lo .. r - 1
  <1>0. \A q \in U : q \in Nat
    OBVIOUS
  <1>9. T \subseteq U /\ \A q \in T : q < r /\ lo <= q
    OBVIOUS
  <1>1. {q \in U : q < r} = S \cup T
    <2>1. ASSUME NEW q \in U, q < r PROVE q \in S \/ q \in T
      BY <1>0, <2>1
    <2>2. ASSUME NEW q \in S PROVE q \in U /\ q < r
      BY <1>0
    <2> QED BY <1>9, <2>1, <2>2
  <1>2. S \cap T = {} /\ S \in SUBSET (0 .. N - 1)
    <2>1. \A q \in S : q \in Nat /\ q < lo /\ q \in 0 .. N - 1
      BY <1>0
    <2>2. \A q \in S : q \notin T
      BY <1>9, <2>1
    <2> QED BY <2>1, <2>2
  <1>3. IsFiniteSet(0 .. N - 1)
    BY FS_Interval, 0 \in Int, N - 1 \in Int
  <1>4. IsFiniteSet(T) /\ Cardinality(T) = r - lo
    <2>1. lo \in Int /\ r - 1 \in Int
      OBVIOUS
    <2>2. IsFiniteSet(lo .. r - 1) /\ Cardinality(lo .. r - 1) = IF lo > r - 1 THEN 0 ELSE r - 1 - lo + 1
      BY <2>1, FS_Interval
    <2> QED BY <2>2
  <1>5. Rank(U, r) = Cardinality(S \cup T) /\ Rank(U, lo) = Cardinality(S)
    BY <1>1 DEF Rank
  <1> HIDE DEF S, T
  <1>6. IsFiniteSet(S) /\ Cardinality(S) \in Nat
    BY <1>2, <1>3, FS_Subset, FS_CardinalityType
  <1>7. Cardinality(S \cup T) = Cardinality(S) + Cardinality(T) - Cardinality(S \cap T)
    BY <1>4, <1>6, FS_Union
  <1>8. Cardinality(S \cap T) = 0
    BY <1>2, FS_EmptySet
  <1> QED BY <1>4, <1>5, <1>6, <1>7, <1>8

\* The first numbers are their own ranks.
LEMMA RankOfFirst ==
  ASSUME NEW N \in Nat, NEW U \in SUBSET (0 .. N - 1), NEW hi \in Nat, 0 .. hi \subseteq U,
         NEW r \in 0 .. hi
  PROVE  Rank(U, r) = r
  <1>1. Rank(U, r) = Rank(U, 0) + (r - 0)
    BY RankInterval
  <1>2. {q \in U : q < 0} = {}
    <2>1. \A q \in U : q \in Nat /\ ~(q < 0)
      OBVIOUS
    <2> QED BY <2>1
  <1>3. Rank(U, 0) = 0
    BY <1>2, FS_EmptySet DEF Rank
  <1> QED BY <1>1, <1>3

-----------------------------------------------------------------------------
(***************************************************************************)
(* Compaction.                                                             *)
(***************************************************************************)
\* The registers that are kept, and room for calls, lie within the frame.
LEMMA UsedFacts ==
  ASSUME NEW f, IsFunction(prog[f])
  PROVE  /\ prog[f].nregs \in Nat /\ prog[f].nargs \in 0 .. prog[f].nregs - 1
         /\ Used(f) \in SUBSET (0 .. prog[f].nregs - 1)
         /\ 0 .. prog[f].nargs \subseteq Used(f)
         /\ \A k \in prog[f].live : \A n \in DOMAIN prog[f].code[k] :
              /\ InFrame(At(f, k, n), prog[f].nregs, prog[f].nargs)
              /\ Refs(At(f, k, n)) \subseteq Used(f) /\ At(f, k, n) \in Code(f)
         /\ Room(f) \in prog[f].nargs + 1 .. prog[f].nregs
         /\ Max(Used(f)) \in Used(f) /\ \A r \in Used(f) : r <= Max(Used(f))
  <1> DEFINE N == prog[f].nregs
             nargs == prog[f].nargs
  <1>1. /\ N \in Nat /\ nargs \in 0 .. N - 1 /\ prog[f].live \subseteq DOMAIN prog[f].code
        /\ \A k \in DOMAIN prog[f].code : BlockInFrame(prog[f].code[k], N, nargs)
    BY FunctionBlocks
  <1>2. ASSUME NEW i \in Code(f) PROVE InFrame(i, N, nargs)
    <2>1. PICK k \in prog[f].live : i \in ToSet(prog[f].code[k])
      BY Zenon DEF Code
    <2>2. PICK n \in DOMAIN prog[f].code[k] : i = prog[f].code[k][n]
      BY <2>1 DEF ToSet
    <2> QED BY <1>1, <2>2 DEF BlockInFrame
  <1>3. \A i \in Code(f) : Refs(i) \subseteq Used(f)
    BY Zenon DEF Used, Refs
  <1>4. ASSUME NEW k \in prog[f].live, NEW n \in DOMAIN prog[f].code[k]
        PROVE  At(f, k, n) \in Code(f)
    <2>1. At(f, k, n) \in ToSet(prog[f].code[k])
      BY DEF ToSet, At
    <2> QED BY <2>1, Zenon DEF Code
  <1>5. Used(f) \in SUBSET (0 .. N - 1) /\ 0 .. nargs \subseteq Used(f)
    <2> SUFFICES ASSUME NEW r \in Used(f) PROVE r \in 0 .. N - 1
      BY DEF Used
    <2>1. CASE r \in 0 .. nargs
      BY <1>1, <2>1
    <2>2. CASE \E i \in Code(f) : r \in Refs(i)
      BY <1>2, <2>2 DEF InFrame
    <2>3. r \in 0 .. nargs \/ \E i \in Code(f) : r \in Refs(i)
      BY Zenon DEF Used, Refs
    <2> QED BY <2>1, <2>2, <2>3
  <1> DEFINE R == {nargs + 1} \cup UNION {{r + 1 : r \in Window(i)} : i \in Code(f)}
  <1>6. Room(f) = Max(R)
    BY Zenon DEF Room
  <1>7. R \in SUBSET (0 .. N)
    <2>1. ASSUME NEW i \in Code(f), NEW r \in Window(i) PROVE r + 1 \in 0 .. N
      <3>1. Window(i) \subseteq Refs(i)
        <4>1. CASE i.op \in Calls
          BY <1>2, <4>1, WindowFacts DEF InFrame
        <4>2. CASE i.op \notin Calls
          BY <4>2 DEF Window, Calls
        <4> QED BY <4>1, <4>2
      <3>2. r \in 0 .. N - 1
        BY <1>2, <2>1, <3>1 DEF InFrame
      <3> QED BY <1>1, <3>2
    <2>2. nargs + 1 \in 0 .. N
      BY <1>1
    <2>3. ASSUME NEW x \in R PROVE x \in 0 .. N
      <3>1. CASE x = nargs + 1
        BY <2>2, <3>1
      <3>2. CASE \E i \in Code(f) : \E r \in Window(i) : x = r + 1
        BY <2>1, <3>2
      <3>3. x = nargs + 1 \/ \E i \in Code(f) : \E r \in Window(i) : x = r + 1
        OBVIOUS
      <3> QED BY <3>1, <3>2, <3>3
    <2> QED BY <2>3, Zenon
  <1>8. nargs + 1 \in R
    OBVIOUS
  <1> HIDE DEF R
  <1>9. Max(R) \in R /\ \A x \in R : x <= Max(R)
    <2>1. R # {}
      BY <1>8
    <2> HIDE DEF N, nargs
    <2> QED BY ONLY <1>1, <1>7, <2>1, MaxRight
  <1>10. Room(f) \in nargs + 1 .. N
    <2>1. Room(f) \in 0 .. N /\ nargs + 1 <= Room(f)
      BY <1>6, <1>7, <1>8, <1>9
    <2> QED BY <1>1, <2>1
  <1>11. Max(Used(f)) \in Used(f) /\ \A r \in Used(f) : r <= Max(Used(f))
    <2>1. Used(f) # {} /\ N - 1 \in Nat
      BY <1>1, <1>5
    <2> HIDE DEF N, nargs
    <2> QED BY ONLY <1>5, <2>1, MaxRight
  <1> QED BY <1>1, <1>2, <1>3, <1>4, <1>5, <1>10, <1>11

\* The new number of each register.
DenseMap(f) == [r \in Used(f) |-> Dense(f, r)]

\* New numbers differ, in the order of the old ones; parameters keep theirs.
LEMMA DenseFacts ==
  ASSUME NEW f, IsFunction(prog[f])
  PROVE  /\ Cardinality(Used(f)) \in 0 .. prog[f].nregs
         /\ \A r \in Used(f) : /\ DenseMap(f)[r] \in 0 .. Cardinality(Used(f)) - 1
                               /\ DenseMap(f)[r] = Rank(Used(f), r)
         /\ \A r, q \in Used(f) : r < q => DenseMap(f)[r] < DenseMap(f)[q]
         /\ \A r, q \in Used(f) : DenseMap(f)[r] = DenseMap(f)[q] => r = q
         /\ \A r \in 0 .. prog[f].nargs : DenseMap(f)[r] = r
  <1> DEFINE U == Used(f)
             N == prog[f].nregs
             m == prog[f].nargs
             map == DenseMap(f)
  <1>1. N \in Nat /\ m \in 0 .. N - 1 /\ U \in SUBSET (0 .. N - 1) /\ 0 .. m \subseteq U
    BY UsedFacts
  <1>2. \A r \in U : map[r] = Rank(U, r)
    BY Zenon DEF DenseMap, Dense, Rank
  <1> HIDE DEF U, N, m, map
  <1>3. /\ Cardinality(U) \in 0 .. N
        /\ \A r \in U : Rank(U, r) \in 0 .. Cardinality(U) - 1
        /\ \A r, q \in U : r < q => Rank(U, r) < Rank(U, q)
    BY ONLY <1>1, RankFacts
  <1>4. \A r \in U : map[r] \in 0 .. Cardinality(U) - 1 /\ r \in Nat
    BY <1>1, <1>2, <1>3
  <1>5. \A r, q \in U : r < q => map[r] < map[q]
    BY <1>2, <1>3
  <1>6. ASSUME NEW r \in U, NEW q \in U, map[r] = map[q] PROVE r = q
    <2>1. r \in Nat /\ q \in Nat /\ map[r] \in Nat
      BY <1>3, <1>4
    <2> QED BY <1>5, <1>6, <2>1
  <1>7. ASSUME NEW r \in 0 .. m PROVE map[r] = r
    <2>1. r \in U /\ m \in Nat
      BY <1>1
    <2>2. Rank(U, r) = r
      BY ONLY <1>1, <2>1, r \in 0 .. m, RankOfFirst
    <2> QED BY <1>2, <2>1, <2>2
  <1> QED BY <1>2, <1>3, <1>4, <1>5, <1>6, <1>7 DEF U, N, m, map

\* What is called and ranges of registers keep together.
LEMMA DenseMoves ==
  ASSUME NEW f, IsFunction(prog[f]), NEW i, InFrame(i, prog[f].nregs, prog[f].nargs),
         Refs(i) \subseteq Used(f)
  PROVE  Moves(DenseMap(f), i)
  <1> DEFINE U == Used(f)
             N == prog[f].nregs
             map == DenseMap(f)
  <1>1. N \in Nat /\ U \in SUBSET (0 .. N - 1)
    BY UsedFacts
  <1>2. Cardinality(U) \in Nat /\ \A r \in U : map[r] = Rank(U, r) /\ map[r] \in 0 .. Cardinality(U) - 1
    BY DenseFacts
  <1>3. IsInstruction(i) /\ Refs(i) \subseteq U
    BY DEF InFrame
  <1> SUFFICES Moves(map, i)
    OBVIOUS
  <1> HIDE DEF U, N, map
  <1>4. ASSUME NEW lo \in Nat, NEW hi \in Nat, lo .. hi \subseteq U PROVE Moved(map, lo, hi)
    <2> SUFFICES ASSUME NEW r \in lo .. hi PROVE map[r] = map[lo] + (r - lo)
      BY DEF Moved
    <2>1. r \in U /\ lo \in U
      BY <1>4
    <2>2. Rank(U, r) = Rank(U, lo) + (r - lo)
      BY ONLY <1>1, <1>4, r \in lo .. hi, RankInterval
    <2> QED BY <1>2, <2>1, <2>2
  <1>5. \A r \in Refs(i) : map[r] \in Nat
    BY <1>2, <1>3
  <1>6. CASE i.op \in {"call"}
    <2>1. i.a \in Nat /\ i.b \in Nat /\ i.c \in Nat
      BY <1>3, <1>6, WindowFacts DEF Calls
    <2> DEFINE d == 2 * i.c
               hi == i.a + i.b + d
    <2>2. i.a .. hi \subseteq Refs(i)
      BY <1>6, Operands
    <2>3. hi \in Nat
      BY <2>1
    <2> HIDE DEF hi
    <2>4. Moved(map, i.a, hi)
      BY <1>3, <1>4, <2>1, <2>2, <2>3
    <2> QED BY <1>5, <1>6, <2>4 DEF Moves, hi
  <1>7. CASE i.op \in {"invoke", "method"}
    <2>1. i.a \in Nat /\ i.b \in Nat /\ i.c \in Nat
      BY <1>3, <1>7, WindowFacts DEF Calls
    <2> DEFINE d == 2 * i.c
               hi == i.a + i.b + d + 1
    <2>2. i.a .. hi \subseteq Refs(i)
      BY <1>7, Operands
    <2>3. hi \in Nat
      BY <2>1
    <2> HIDE DEF hi
    <2>4. Moved(map, i.a, hi)
      BY <1>3, <1>4, <2>1, <2>2, <2>3
    <2> QED BY <1>5, <1>7, <2>4 DEF Moves, hi
  <1>8. CASE i.op \in {"cat", "lix"}
    <2>1. i.b \in Nat /\ i.c \in Nat /\ i.b .. i.c \subseteq Refs(i)
      BY <1>3, <1>8, Operands, OperandTypes
    <2>2. Moved(map, i.b, i.c)
      BY <1>3, <1>4, <2>1
    <2> QED BY <1>5, <1>8, <2>2 DEF Moves
  <1>9. CASE i.op \notin {"call", "invoke", "method", "cat", "lix"}
    BY <1>5, <1>9 DEF Moves
  <1> QED BY <1>6, <1>7, <1>8, <1>9

\* An instruction with new numbers lies within the new frame.
LEMMA DenseInstruction ==
  ASSUME NEW f, IsFunction(prog[f]), NEW i, InFrame(i, prog[f].nregs, prog[f].nargs),
         Refs(i) \subseteq Used(f), i.op # "closure", NEW nregs \in Nat, Cardinality(Used(f)) <= nregs
  PROVE  /\ InFrame(MapRegisters(i, DenseMap(f)), nregs, prog[f].nargs)
         /\ \A p \in Pairs(i, MapRegisters(i, DenseMap(f))) : p[1] \in Used(f) /\ p[2] = DenseMap(f)[p[1]]
  <1> DEFINE U == Used(f)
             map == DenseMap(f)
             nargs == prog[f].nargs
             new == MapRegisters(i, map)
  <1>1. nargs \in Nat /\ nargs \in U /\ \A r \in U : r \in Nat
    <2>1. U \in SUBSET (0 .. prog[f].nregs - 1) /\ 0 .. nargs \subseteq U /\ nargs \in 0 .. prog[f].nregs - 1
      BY UsedFacts
    <2> QED BY <2>1
  <1>2. /\ Cardinality(U) \in Nat
        /\ \A r \in U : map[r] \in 0 .. Cardinality(U) - 1
        /\ \A r, q \in U : r < q => map[r] < map[q]
        /\ \A r \in 0 .. nargs : map[r] = r
    BY DenseFacts
  <1>3. IsInstruction(i)
    BY DEF InFrame
  <1>4. Moves(map, i)
    BY DenseMoves
  <1>5. IsMapped(map, i, new)
    BY <1>3, <1>4, Mapped
  <1>6. i.op \in Calls => nargs < i.a
    BY DEF InFrame
  <1>7. "range" \in Fields(i) => i.c <= nargs \/ nargs < i.b
    BY DEF InFrame
  <1> SUFFICES InFrame(new, nregs, nargs) /\ \A p \in Pairs(i, new) : p[1] \in U /\ p[2] = map[p[1]]
    OBVIOUS
  <1> HIDE DEF U, map, nargs, new
  <1>8. /\ IsInstruction(new) /\ Refs(new) = {map[r] : r \in Refs(i)} /\ new.op = i.op
        /\ \A p \in Pairs(i, new) : p[1] \in Refs(i) /\ p[2] = map[p[1]]
        /\ i.op \in Calls => i.a \in Refs(i) /\ new.a = map[i.a]
        /\ "range" \in Fields(i) => i.b \in Refs(i) /\ new.b = map[i.b] /\ i.c \in Refs(i) /\ new.c = map[i.c]
    BY <1>5 DEF IsMapped
  <1>9. Refs(i) \subseteq U /\ Cardinality(U) <= nregs
    BY DEF U
  <1>10. Refs(new) \subseteq 0 .. nregs - 1
    <2>1. \A r \in U : map[r] \in 0 .. nregs - 1
      BY <1>2, <1>9
    <2> QED BY <1>8, <1>9, <2>1
  <1>11. \A r \in U : nargs < r => nargs < map[r]
    <2>1. map[nargs] = nargs
      BY <1>1, <1>2
    <2> QED BY <1>1, <1>2, <2>1
  <1>12. new.op \in Calls => nargs < new.a
    BY <1>6, <1>8, <1>9, <1>11
  <1>13. "range" \in Fields(new) => new.c <= nargs \/ nargs < new.b
    <2>1. "range" \in Fields(new) => "range" \in Fields(i)
      BY <1>8, Operands
    <2>2. ASSUME "range" \in Fields(i), i.c <= nargs PROVE new.c <= nargs
      <3>1. i.c \in 0 .. nargs
        <4>1. i.c \in U
          BY <1>8, <1>9, <2>2
        <4>2. i.c \in Nat
          BY <1>1, <4>1
        <4> QED BY <1>1, <2>2, <4>2
      <3> QED BY <1>2, <1>8, <2>2, <3>1
    <2>3. ASSUME "range" \in Fields(i), nargs < i.b PROVE nargs < new.b
      BY <1>8, <1>9, <1>11, <2>3
    <2> QED BY <1>7, <2>1, <2>2, <2>3
  <1> QED BY <1>8, <1>9, <1>10, <1>12, <1>13 DEF InFrame

\* A function with other code and registers.
WithFrame(fn, code, n) == [[fn EXCEPT !.code = code] EXCEPT !.nregs = n]

\* Its parts.
LEMMA FrameParts ==
  ASSUME NEW fn, DOMAIN fn = {"nregs", "nargs", "nopt", "code", "live", "plotfield"}, NEW code, NEW n
  PROVE  /\ DOMAIN WithFrame(fn, code, n) = {"nregs", "nargs", "nopt", "code", "live", "plotfield"}
         /\ WithFrame(fn, code, n).code = code /\ WithFrame(fn, code, n).nregs = n
         /\ WithFrame(fn, code, n).live = fn.live /\ WithFrame(fn, code, n).nargs = fn.nargs
  BY DEF WithFrame

\* Other code for a function, with the registers map gives.
CodeMapped(f, code, map) ==
  /\ \A r \in 0 .. prog[f].nargs : map[r] = r
  /\ \A k \in prog[f].live : \A n \in DOMAIN prog[f].code[k] :
       \A p \in Pairs(At(f, k, n), code[k][n]) : p[1] \in Used(f) /\ p[2] = map[p[1]]

\* The registers at the same places of a function and one with other code.
LEMMA RenumberedRight ==
  ASSUME NEW f, IsFunction(prog[f]), NEW code, NEW map, CodeMapped(f, code, map),
         NEW p \in RenumberedPairs(prog[f], code)
  PROVE  p[1] \in Used(f) /\ p[2] = map[p[1]]
  <1>1. 0 .. prog[f].nargs \subseteq Used(f)
    BY UsedFacts
  <1>2. CASE \E r \in 0 .. prog[f].nargs : p = <<r, r>>
    BY <1>1, <1>2 DEF CodeMapped
  <1>3. CASE \E k \in prog[f].live : \E n \in DOMAIN prog[f].code[k] : p \in Pairs(prog[f].code[k][n], code[k][n])
    BY <1>3 DEF At, CodeMapped
  <1>4. \/ \E r \in 0 .. prog[f].nargs : p = <<r, r>>
        \/ \E k \in prog[f].live : \E n \in DOMAIN prog[f].code[k] : p \in Pairs(prog[f].code[k][n], code[k][n])
    <2>1. \/ p \in {<<r, r>> : r \in 0 .. prog[f].nargs}
          \/ p \in UNION {UNION {Pairs(prog[f].code[k][n], code[k][n]) : n \in DOMAIN prog[f].code[k]} : k \in prog[f].live}
      BY Zenon DEF RenumberedPairs
    <2>2. p \in {<<r, r>> : r \in 0 .. prog[f].nargs} => \E r \in 0 .. prog[f].nargs : p = <<r, r>>
      OBVIOUS
    <2>3. ASSUME p \in UNION {UNION {Pairs(prog[f].code[k][n], code[k][n]) : n \in DOMAIN prog[f].code[k]} : k \in prog[f].live}
          PROVE  \E k \in prog[f].live : \E n \in DOMAIN prog[f].code[k] : p \in Pairs(prog[f].code[k][n], code[k][n])
      <3>1. PICK k \in prog[f].live : p \in UNION {Pairs(prog[f].code[k][n], code[k][n]) : n \in DOMAIN prog[f].code[k]}
        BY <2>3
      <3>2. PICK n \in DOMAIN prog[f].code[k] : p \in Pairs(prog[f].code[k][n], code[k][n])
        BY <3>1
      <3> QED BY <3>2
    <2> QED BY <2>1, <2>2, <2>3
  <1> QED BY <1>2, <1>3, <1>4

\* What compaction is to leave: registers apart, in a frame that is no larger.
FrameApart(fn, new) ==
  /\ OneToOne(RenumberedPairs(fn, new.code))
  /\ \A p \in RenumberedPairs(fn, new.code) : p[2] \in 0 .. new.nregs - 1
  /\ new.nregs <= fn.nregs

\* Code that is left alone, in as large a frame as it uses.
LEMMA FrameCut ==
  ASSUME NEW f, IsFunction(prog[f]), NEW n \in Nat, n <= prog[f].nregs,
         n = prog[f].nregs \/ (prog[f].live = DOMAIN prog[f].code /\ prog[f].nargs < n /\ \A r \in Used(f) : r < n)
  PROVE  IsFunction(WithRegisters(prog[f], n)) /\ FrameApart(prog[f], WithRegisters(prog[f], n))
  <1> DEFINE fn == prog[f]
             new == WithRegisters(fn, n)
  <1>1. /\ DOMAIN fn = {"nregs", "nargs", "nopt", "code", "live", "plotfield"}
        /\ fn.nregs \in Nat /\ fn.nargs \in 0 .. fn.nregs - 1
        /\ IsSequence(fn.code) /\ 1 \in fn.live /\ fn.live \subseteq DOMAIN fn.code
        /\ \A h \in DOMAIN fn.code : BlockInFrame(fn.code[h], fn.nregs, fn.nargs)
    BY FunctionBlocks
  <1>2. /\ DOMAIN new = {"nregs", "nargs", "nopt", "code", "live", "plotfield"}
        /\ new.nregs = n /\ new.nargs = fn.nargs /\ new.live = fn.live /\ new.code = fn.code
    BY <1>1 DEF WithRegisters
  <1>3. /\ Used(f) \in SUBSET (0 .. fn.nregs - 1)
        /\ \A k \in fn.live : \A m \in DOMAIN fn.code[k] :
             InFrame(At(f, k, m), fn.nregs, fn.nargs) /\ Refs(At(f, k, m)) \subseteq Used(f)
    BY UsedFacts
  <1> HIDE DEF new
  <1>4. \A r \in Used(f) : r \in 0 .. n - 1
    BY <1>1, <1>3
  <1>5. IsFunction(new)
    <2>1. fn.nargs \in 0 .. n - 1
      BY <1>1
    <2>2. \A k \in DOMAIN fn.code : BlockInFrame(fn.code[k], n, fn.nargs)
      <3>1. CASE n = fn.nregs
        BY <1>1, <3>1
      <3>2. CASE fn.live = DOMAIN fn.code
        BY <1>1, <1>3, <1>4, <3>2 DEF BlockInFrame, InFrame, At
      <3> QED BY <3>1, <3>2
    <2> QED BY <1>1, <1>2, <2>1, <2>2, FunctionBlocks
  <1>6. ASSUME NEW p \in RenumberedPairs(fn, fn.code) PROVE p[1] \in Used(f) /\ p[2] = p[1]
    <2> DEFINE map == [r \in Used(f) |-> r]
    <2>1. \A r \in Used(f) : map[r] = r
      OBVIOUS
    <2> HIDE DEF map
    <2>2. 0 .. fn.nargs \subseteq Used(f)
      BY UsedFacts
    <2>3. ASSUME NEW k \in fn.live, NEW m \in DOMAIN fn.code[k], NEW q \in Pairs(At(f, k, m), fn.code[k][m])
          PROVE  q[1] \in Used(f) /\ q[2] = map[q[1]]
      <3>1. IsInstruction(At(f, k, m)) /\ Refs(At(f, k, m)) \subseteq Used(f) /\ At(f, k, m) = fn.code[k][m]
        BY <1>3 DEF InFrame, At
      <3>2. q[1] \in Refs(At(f, k, m)) /\ q[2] = q[1]
        BY <3>1, Unmoved
      <3> QED BY <2>1, <3>1, <3>2
    <2>4. \A r \in 0 .. fn.nargs : map[r] = r
      BY <2>1, <2>2
    <2>5. CodeMapped(f, fn.code, map)
      BY <2>3, <2>4 DEF CodeMapped
    <2>6. p[1] \in Used(f) /\ p[2] = map[p[1]]
      BY <2>5, RenumberedRight
    <2> QED BY <2>1, <2>6
  <1>7. FrameApart(fn, new)
    <2>1. \A p \in RenumberedPairs(fn, new.code) : p[1] \in Used(f) /\ p[2] = p[1]
      BY <1>2, <1>6
    <2>2. OneToOne(RenumberedPairs(fn, new.code))
      BY <2>1 DEF OneToOne
    <2> QED BY <1>2, <1>4, <2>1, <2>2 DEF FrameApart
  <1> QED BY <1>5, <1>7 DEF new

\* Code with new numbers.
LEMMA FrameRenumbered ==
  ASSUME NEW f, IsFunction(prog[f]), prog[f].live = DOMAIN prog[f].code, CanRemap(f),
         NEW nregs \in Nat, Cardinality(Used(f)) <= nregs, nregs <= prog[f].nregs, prog[f].nargs < nregs
  PROVE  /\ IsFunction(WithFrame(prog[f], Remapped(f), nregs))
         /\ FrameApart(prog[f], WithFrame(prog[f], Remapped(f), nregs))
  <1> DEFINE fn == prog[f]
             code == Remapped(f)
             new == WithFrame(fn, code, nregs)
             map == DenseMap(f)
  <1>1. /\ DOMAIN fn = {"nregs", "nargs", "nopt", "code", "live", "plotfield"}
        /\ fn.nregs \in Nat /\ fn.nargs \in 0 .. fn.nregs - 1
        /\ IsSequence(fn.code) /\ 1 \in fn.live /\ fn.live \subseteq DOMAIN fn.code
        /\ \A h \in DOMAIN fn.code : BlockInFrame(fn.code[h], fn.nregs, fn.nargs)
    BY FunctionBlocks
  <1>2. \A k \in fn.live : \A n \in DOMAIN fn.code[k] :
          /\ InFrame(At(f, k, n), fn.nregs, fn.nargs)
          /\ Refs(At(f, k, n)) \subseteq Used(f) /\ At(f, k, n) \in Code(f)
    BY UsedFacts
  <1>3. /\ DOMAIN new = {"nregs", "nargs", "nopt", "code", "live", "plotfield"}
        /\ new.code = code /\ new.nregs = nregs /\ new.live = fn.live /\ new.nargs = fn.nargs
    BY <1>1, FrameParts
  <1>4. code = [k \in DOMAIN fn.code |-> [n \in DOMAIN fn.code[k] |-> MapRegisters(At(f, k, n), map)]]
    BY Zenon DEF Remapped, DenseMap
  <1> HIDE DEF code, new, map
  <1>5. ASSUME NEW k \in DOMAIN fn.code, NEW n \in DOMAIN fn.code[k]
        PROVE  /\ code[k][n] = MapRegisters(At(f, k, n), map)
               /\ InFrame(code[k][n], nregs, fn.nargs)
               /\ \A p \in Pairs(At(f, k, n), code[k][n]) : p[1] \in Used(f) /\ p[2] = map[p[1]]
    <2>1. code[k][n] = MapRegisters(At(f, k, n), map)
      BY <1>4
    <2>2. InFrame(At(f, k, n), fn.nregs, fn.nargs) /\ Refs(At(f, k, n)) \subseteq Used(f) /\ At(f, k, n).op # "closure"
      BY <1>2 DEF CanRemap
    <2>3. /\ InFrame(MapRegisters(At(f, k, n), map), nregs, fn.nargs)
          /\ \A p \in Pairs(At(f, k, n), MapRegisters(At(f, k, n), map)) : p[1] \in Used(f) /\ p[2] = map[p[1]]
      BY <2>2, DenseInstruction DEF map
    <2> QED BY <2>1, <2>3
  <1>6. \A k \in DOMAIN fn.code : BlockInFrame(code[k], nregs, fn.nargs)
    <2> TAKE k \in DOMAIN fn.code
    <2> DEFINE T == FrameCode({code[k][n] : n \in DOMAIN fn.code[k]}, nregs, fn.nargs)
    <2>1. Len(fn.code[k]) \in Nat /\ DOMAIN fn.code[k] = 1 .. Len(fn.code[k])
      BY <1>1, SequencePlaces DEF BlockInFrame
    <2>2. code[k] = [n \in 1 .. Len(fn.code[k]) |-> MapRegisters(At(f, k, n), map)]
      BY <1>4, <2>1
    <2>3. \A n \in 1 .. Len(fn.code[k]) : code[k][n] \in T
      BY <1>5, <2>1 DEF FrameCode
    <2> HIDE DEF T
    <2>4. code[k] \in [1 .. Len(fn.code[k]) -> T]
      BY <2>2, <2>3
    <2>5. code[k] \in Seq(T)
      BY <2>1, <2>4, SeqDef
    <2> QED BY <2>5, BlockSequence DEF T
  <1>7. IsSequence(code) /\ DOMAIN code = DOMAIN fn.code
    <2>1. Len(fn.code) \in Nat /\ DOMAIN fn.code = 1 .. Len(fn.code)
      BY <1>1, SequencePlaces
    <2> DEFINE T == {code[k] : k \in DOMAIN fn.code}
    <2>2. code \in [1 .. Len(fn.code) -> T]
      BY <1>4, <2>1
    <2> HIDE DEF T
    <2>3. code \in Seq(T)
      BY <2>1, <2>2, SeqDef
    <2> QED BY <1>4, <2>3, OwnSequence
  <1>8. IsFunction(new)
    <2>1. fn.nargs \in 0 .. nregs - 1
      BY <1>1
    <2> QED BY <1>1, <1>3, <1>6, <1>7, <2>1, FunctionBlocks
  <1>9. /\ Cardinality(Used(f)) \in Nat
        /\ \A r \in Used(f) : map[r] \in 0 .. Cardinality(Used(f)) - 1
        /\ \A r, q \in Used(f) : map[r] = map[q] => r = q
        /\ \A r \in 0 .. fn.nargs : map[r] = r
    BY DenseFacts DEF map
  <1>10. \A p \in RenumberedPairs(fn, code) : p[1] \in Used(f) /\ p[2] = map[p[1]]
    <2>1. \A k \in fn.live : \A n \in DOMAIN fn.code[k] :
            \A p \in Pairs(At(f, k, n), code[k][n]) : p[1] \in Used(f) /\ p[2] = map[p[1]]
      BY <1>1, <1>5
    <2>2. CodeMapped(f, code, map)
      BY <1>9, <2>1 DEF CodeMapped
    <2> QED BY <2>2, RenumberedRight
  <1>11. FrameApart(fn, new)
    <2>1. OneToOne(RenumberedPairs(fn, code))
      <3> SUFFICES ASSUME NEW p \in RenumberedPairs(fn, code), NEW q \in RenumberedPairs(fn, code)
                   PROVE  p[1] = q[1] <=> p[2] = q[2]
        BY DEF OneToOne
      <3>1. p[1] \in Used(f) /\ p[2] = map[p[1]] /\ q[1] \in Used(f) /\ q[2] = map[q[1]]
        BY <1>10
      <3> QED BY <1>9, <3>1
    <2>2. ASSUME NEW p \in RenumberedPairs(fn, code) PROVE p[2] \in 0 .. nregs - 1
      <3>1. p[1] \in Used(f) /\ p[2] = map[p[1]]
        BY <1>10
      <3> QED BY <1>9, <3>1
    <2> QED BY <1>3, <2>1, <2>2 DEF FrameApart
  <1> QED BY <1>8, <1>11 DEF new, code

\* Compaction leaves code within the frame, and registers apart.
LEMMA CompactStep ==
  ASSUME TypeOK, NEW f \in ToSet(Order), Compact(f)
  PROVE  TypeOK' /\ CompactionApart
  <1>1. /\ pass > Passes /\ f \notin compacted /\ compacted' = compacted \cup {f}
        /\ required' = required /\ pass' = pass /\ at' = at
    BY DEF Compact
  <1>2. f \in DOMAIN prog /\ IsFunction(prog[f]) /\ DOMAIN prog = ToSet(Order)
    BY DEF TypeOK
  <1> DEFINE fn == prog[f]
             N == fn.nregs
             d == Cardinality(Used(f))
  <1>3. /\ N \in Nat /\ fn.nargs \in 0 .. N - 1 /\ DOMAIN fn = {"nregs", "nargs", "nopt", "code", "live", "plotfield"}
        /\ Room(f) \in fn.nargs + 1 .. N /\ d \in 0 .. N
        /\ Max(Used(f)) \in 0 .. N - 1 /\ \A r \in Used(f) : r <= Max(Used(f)) /\ r \in 0 .. N - 1
    <2>1. Used(f) \in SUBSET (0 .. N - 1) /\ Max(Used(f)) \in Used(f)
      BY <1>2, UsedFacts
    <2> QED BY <1>2, <2>1, UsedFacts, DenseFacts, FunctionBlocks
  <1>4. \E new : /\ DOMAIN prog' = DOMAIN prog /\ prog'[f] = new
                 /\ \A h \in DOMAIN prog \ {f} : prog'[h] = prog[h]
                 /\ IsFunction(new) /\ FrameApart(fn, new) /\ new.live = fn.live
    <2>1. CASE fn.live # DOMAIN fn.code
      <3>1. prog' = prog
        BY <2>1 DEF Compact
      <3>2. WithRegisters(fn, N).code = fn.code /\ WithRegisters(fn, N).nregs = N
        BY <1>3 DEF WithRegisters
      <3>3. FrameApart(fn, WithRegisters(fn, N))
        BY <1>2, <1>3, FrameCut
      <3>4. FrameApart(fn, fn)
        BY <3>2, <3>3 DEF FrameApart
      <3> QED BY <1>2, <3>1, <3>4
    <2>2. CASE fn.live = DOMAIN fn.code /\ CanRemap(f)
      <3> DEFINE nregs == Max({d, Room(f)})
                 new == WithFrame(fn, Remapped(f), nregs)
      <3>1. prog' = [prog EXCEPT ![f].code = Remapped(f), ![f].nregs = nregs]
        BY <2>2, Zenon DEF Compact
      <3>2. nregs \in {d, Room(f)} /\ d <= nregs /\ Room(f) <= nregs
        <4>1. d \in Nat /\ Room(f) \in Nat
          BY <1>3
        <4> HIDE DEF d
        <4> QED BY <4>1, MaxOfTwo
      <3> HIDE DEF nregs
      <3>3. nregs \in Nat /\ d <= nregs /\ nregs <= N /\ fn.nargs < nregs
        BY <1>3, <3>2
      <3>4. IsFunction(new) /\ FrameApart(fn, new)
        BY <1>2, <2>2, <3>3, FrameRenumbered
      <3>5. new.live = fn.live
        BY <1>3 DEF WithFrame
      <3>6. /\ DOMAIN prog' = DOMAIN prog /\ prog'[f] = new
            /\ \A h \in DOMAIN prog \ {f} : prog'[h] = prog[h]
        <4> DEFINE c == Remapped(f)
        <4>1. prog' = [prog EXCEPT ![f].code = c, ![f].nregs = nregs]
          BY <3>1
        <4> HIDE DEF c
        <4>2. prog' = [[prog EXCEPT ![f].code = c] EXCEPT ![f].nregs = nregs]
          BY <4>1
        <4>3. prog' = [prog EXCEPT ![f] = WithFrame(fn, c, nregs)]
          BY <1>2, <1>3, <4>2 DEF WithFrame
        <4>4. prog' = [prog EXCEPT ![f] = new]
          BY <4>3, Zenon DEF c
        <4> HIDE DEF new
        <4> QED BY <1>2, <4>4
      <3> QED BY <3>4, <3>5, <3>6
    <2>3. CASE fn.live = DOMAIN fn.code /\ ~CanRemap(f)
      <3> DEFINE m == Max(Used(f)) + 1
                 nregs == Max({m, Room(f)})
                 new == WithRegisters(fn, nregs)
      <3>1. prog' = [prog EXCEPT ![f].nregs = nregs]
        BY <2>3, Zenon DEF Compact
      <3>2. nregs \in {m, Room(f)} /\ m <= nregs /\ Room(f) <= nregs
        <4>1. m \in Nat /\ Room(f) \in Nat
          BY <1>3
        <4> HIDE DEF m
        <4> QED BY <4>1, MaxOfTwo
      <3> HIDE DEF nregs
      <3>3. nregs \in Nat /\ nregs <= N /\ fn.nargs < nregs
        BY <1>3, <3>2
      <3>4. \A r \in Used(f) : r < nregs
        <4> TAKE r \in Used(f)
        <4>1. r <= Max(Used(f)) /\ r \in Int /\ Max(Used(f)) \in Int /\ m <= nregs /\ nregs \in Int
          BY <1>3, <3>2, <3>3
        <4> QED BY <4>1
      <3>5. IsFunction(new) /\ FrameApart(fn, new)
        BY <1>2, <2>3, <3>3, <3>4, FrameCut
      <3>6. new.live = fn.live
        BY <1>3 DEF WithRegisters
      <3>7. /\ DOMAIN prog' = DOMAIN prog /\ prog'[f] = new
            /\ \A h \in DOMAIN prog \ {f} : prog'[h] = prog[h]
        BY <1>2, <3>1 DEF WithRegisters
      <3> QED BY <3>5, <3>6, <3>7
    <2> QED BY <2>1, <2>2, <2>3
  <1>5. PICK new : /\ DOMAIN prog' = DOMAIN prog /\ prog'[f] = new
                   /\ \A h \in DOMAIN prog \ {f} : prog'[h] = prog[h]
                   /\ IsFunction(new) /\ FrameApart(fn, new) /\ new.live = fn.live
    BY <1>4
  <1>6. TypeOK'
    <2>1. DOMAIN prog' = ToSet(Order) /\ \A h \in DOMAIN prog' : IsFunction(prog'[h])
      BY <1>2, <1>5 DEF TypeOK
    <2>2. \A h \in DOMAIN prog' : prog'[h].live = prog[h].live
      BY <1>5
    <2>3. \A h \in DOMAIN prog' : required'[h] = 0 \/ required'[h] > prog'[h].nregs
      <3> TAKE h \in DOMAIN prog'
      <3>1. required[h] = 0 \/ required[h] > prog[h].nregs
        BY <1>5 DEF TypeOK
      <3>2. CASE h = f
        <4>1. new.nregs <= N /\ new.nregs \in Nat
          BY <1>5, FunctionBlocks DEF FrameApart
        <4>2. required[f] \in Nat
          BY DEF TypeOK
        <4> QED BY <1>1, <1>3, <1>5, <3>1, <3>2, <4>1, <4>2
      <3>3. CASE h # f
        BY <1>1, <1>5, <3>1, <3>3
      <3> QED BY <3>2, <3>3
    <2>4. at'.f <= Len(Order) => at'.k \in prog'[Here'].live
      <3> SUFFICES ASSUME at.f <= Len(Order)
                   PROVE  at.k \in prog'[Here].live
        <4>1. Here' = Here
          BY <1>1 DEF Here
        <4> QED BY <1>1, <4>1
      <3>1. at.k \in prog[Here].live
        BY DEF TypeOK
      <3>2. Here \in DOMAIN prog'
        <4>1. Len(Order) \in Nat /\ DOMAIN Order = 1 .. Len(Order) /\ at.f \in 1 .. Len(Order) + 1
          BY FramesAssumption, SequencePlaces DEF TypeOK
        <4>2. at.f \in DOMAIN Order
          BY <4>1
        <4> QED BY <2>1, <4>2 DEF Here, ToSet
      <3> QED BY <2>2, <3>1, <3>2
    <2> QED BY <1>1, <2>1, <2>3, <2>4 DEF TypeOK
  <1>7. CompactionApart
    <2> SUFFICES ASSUME NEW h \in compacted' \ compacted
                 PROVE  FrameApart(prog[h], prog'[h])
      BY Zenon DEF CompactionApart, FrameApart
    <2>1. h = f
      BY <1>1
    <2> QED BY <1>5, <2>1
  <1> QED BY <1>6, <1>7

-----------------------------------------------------------------------------
(***************************************************************************)
(* Theorems.                                                               *)
(***************************************************************************)
\* Programs begin with code within the registers of its functions.
LEMMA StartsInFrame ==
  ASSUME Init
  PROVE  TypeOK
  <1>1. /\ prog \in Programs /\ required = [f \in DOMAIN prog |-> 0] /\ pass = 1
        /\ at = [f |-> 1, k |-> 1, n |-> 1] /\ compacted = {}
    BY DEF Init
  <1>2. DOMAIN prog = ToSet(Order) /\ \A f \in DOMAIN prog : IsFunction(prog[f])
    BY <1>1, FramesAssumption
  <1>3. Len(Order) \in Nat /\ DOMAIN Order = 1 .. Len(Order)
    BY FramesAssumption, SequencePlaces
  <1>4. at \in [f : 1 .. Len(Order) + 1, k : Nat \ {0}, n : Nat \ {0}]
    BY <1>1, <1>3
  <1>5. at.f <= Len(Order) => at.k \in prog[Here].live
    <2> SUFFICES ASSUME 1 <= Len(Order)
                 PROVE  1 \in prog[Here].live
      BY <1>1
    <2>1. Here \in ToSet(Order)
      BY <1>1, <1>3 DEF Here, ToSet
    <2> QED BY <1>2, <2>1, FunctionBlocks
  <1>6. required \in [ToSet(Order) -> Nat] /\ \A f \in DOMAIN prog : required[f] = 0
    BY <1>1, <1>2
  <1>7. pass \in 1 .. Passes + 1
    BY <1>1, PassesAssumption
  <1> QED BY <1>1, <1>2, <1>4, <1>5, <1>6, <1>7 DEF TypeOK

\* Every step leaves code within the frames, and registers apart.
LEMMA StepApart ==
  ASSUME TypeOK, [Next]_fvars
  PROVE  TypeOK' /\ [(Inline => InliningApart) /\ CompactionApart]_fvars
  <1>1. Inline => TypeOK' /\ InliningApart
    BY InlineStep
  <1>2. compacted' = compacted => CompactionApart
    BY DEF CompactionApart
  <1>3. CASE Inline
    BY <1>1, <1>2, <1>3 DEF Inline
  <1>4. CASE PutOff
    BY <1>1, <1>2, <1>4, PutOffStep DEF PutOff
  <1>5. CASE NextBlock
    BY <1>1, <1>2, <1>5, NextBlockStep DEF NextBlock
  <1>6. CASE NextPass
    BY <1>1, <1>2, <1>6, NextPassStep DEF NextPass
  <1>7. CASE \E f \in ToSet(Order) : Compact(f)
    BY <1>1, <1>7, CompactStep
  <1>8. CASE UNCHANGED fvars
    <2>1. TypeOK'
      BY <1>8 DEF TypeOK, fvars, Here
    <2> QED BY <1>8, <2>1
  <1> QED BY <1>3, <1>4, <1>5, <1>6, <1>7, <1>8 DEF Next

\* Whatever is inlined, put off and compacted, the code of every function refers to
\* registers the function has, calls lie above its parameters, and ranges of registers
\* do not mix parameters with others (strategy_inline_function, optimize_compactframes).
THEOREM FramesTypeCorrect == Spec => []TypeOK
  <1>1. Init => TypeOK
    BY StartsInFrame
  <1>2. TypeOK /\ [Next]_fvars => TypeOK'
    BY StepApart
  <1> QED BY <1>1, <1>2, PTL DEF Spec

\* Neither inlining (_strategy_inlineregister) nor compaction (_optimize_remapinstruction)
\* makes one register of two, moves an argument from where its parameter is, takes a
\* register that is used after the call, or leaves the frame.
THEOREM FramesApart == Spec => RegistersApart
  <1>1. TypeOK /\ [Next]_fvars => [(Inline => InliningApart) /\ CompactionApart]_fvars
    BY StepApart
  <1> QED BY <1>1, FramesTypeCorrect, PTL DEF Spec, RegistersApart

=============================================================================
