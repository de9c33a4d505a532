--------------------------- MODULE OptimizeProofs ---------------------------
(***************************************************************************)
(* Passes over a function of any size: what they leave of it shows the     *)
(* rest of the program what the compiled function shows it. The machine    *)
(* that runs what the optimizer has made of a function runs beside the one *)
(* that runs what was compiled: first, what instructions may be rewritten  *)
(* or left out while both run in step, and what the strategies leave.      *)
(***************************************************************************)
EXTENDS Optimize, DataflowProofs

-----------------------------------------------------------------------------
(***************************************************************************)
(* Two machines, of which one runs the compiled code and the other what    *)
(* the optimizer made of it.                                               *)
(***************************************************************************)
\* Machines e and t agree on the registers of A and on all that others can see.
Agree(A, e, t) ==
  t.glob = e.glob /\ t.upv = e.upv /\ \A r \in A : t.regs[r] = e.regs[r]

\* Machines that agree on everything are the same.
LEMMA AgreeOnAll ==
  ASSUME NEW e \in Machine, NEW t \in Machine, Agree(Reg, e, t)
  PROVE  t = e
BY DEF Machine, Agree

\* Pairs of machines with the same globals, which keep to what is known of them, and
\* the same upvalues.
Same ==
  {p \in Machine \X Machine :
     GlobalsOK(p[1].glob) /\ p[2].glob = p[1].glob /\ p[2].upv = p[1].upv}

\* What becomes of machines m and e when m executes i and e executes j.
Together(m, e, i, j) ==
  IF i[1] = "call" THEN {<<After(m, o), After(e, o)>> : o \in Results(m, i)}
  ELSE {p \in {<<Exec(m, i), Exec(e, j)>>} : Keeps(m, i)}

\* An instruction does the same to machines that agree on what it reads.
LEMMA ExecAgree ==
  ASSUME NEW e \in Machine, NEW t \in Machine, NEW i, IsInstruction(i), i[1] # "call",
         NEW A \in SUBSET Reg, Agree(A, e, t), Used(i) \subseteq A
  PROVE  /\ Agree(A \cup Overwritten(i), Exec(e, i), Exec(t, i))
         /\ Shows(t, i) = Shows(e, i)
         /\ Exec(e, i) \in Machine /\ Exec(t, i) \in Machine
<1>m. /\ e.regs \in [Reg -> Val] /\ e.glob \in [Glob -> Val] /\ e.upv \in [Upv -> Val]
      /\ t.regs \in [Reg -> Val] /\ t.glob = e.glob /\ t.upv = e.upv
      /\ \A r \in A : t.regs[r] = e.regs[r]
  BY DEF Machine, Agree
<1>1. ASSUME NEW v \in Val, i[2] \in Reg, Overwritten(i) = {i[2]}, Shows(t, i) = Shows(e, i),
             Exec(e, i) = SetReg(e, i[2], v), Exec(t, i) = SetReg(t, i[2], v)
      PROVE  /\ Agree(A \cup Overwritten(i), Exec(e, i), Exec(t, i))
             /\ Shows(t, i) = Shows(e, i)
             /\ Exec(e, i) \in Machine /\ Exec(t, i) \in Machine
  <2> PICK f, g : f = SetReg(e, i[2], v) /\ g = SetReg(t, i[2], v)
    OBVIOUS
  <2>1. /\ f \in Machine /\ SameBut({i[2]}, e, f) /\ f.regs[i[2]] = v
        /\ g \in Machine /\ SameBut({i[2]}, t, g) /\ g.regs[i[2]] = v
    BY <1>1, SetRegMachine
  <2> QED BY <1>m, <1>1, <2>1 DEF SameBut, Agree
<1>2. CASE i[1] \in {"mov", "lct", "lgl", "lup"}
  <2>1. WellFormed(i)
    BY <1>2 DEF IsInstruction
  <2>2. i[2] \in Reg /\ Overwritten(i) = {i[2]}
    BY <1>2, <2>1 DEF WellFormed, Overwritten
  <2>3. Shows(t, i) = Shows(e, i)
    BY <1>2 DEF Shows
  <2>4. \E v \in Val : Exec(e, i) = SetReg(e, i[2], v) /\ Exec(t, i) = SetReg(t, i[2], v)
    BY <1>m, <1>2, <2>1 DEF WellFormed, Exec, Used
  <2> QED BY <1>1, <2>2, <2>3, <2>4
<1>3. CASE i[1] \in {"arith", "compare"}
  <2>1. WellFormed(i)
    BY <1>3 DEF IsInstruction
  <2>2. i[2] \in Reg /\ i[3] \in Reg /\ i[4] \in Reg /\ Overwritten(i) = {i[2]}
    BY <1>3, <2>1 DEF WellFormed, Overwritten
  <2>3. Shows(t, i) = Shows(e, i)
    BY <1>3 DEF Shows
  <2>4. t.regs[i[3]] = e.regs[i[3]] /\ t.regs[i[4]] = e.regs[i[4]]
    BY <1>m, <1>3 DEF Used
  <2> DEFINE x == e.regs[i[3]]
             y == e.regs[i[4]]
  <2>5. Arith[x][y] \in Val /\ Compare[x][y] \in Val
    <3>1. x \in Val /\ y \in Val
      BY <1>m, <2>2
    <3> HIDE DEF x, y
    <3> QED BY <3>1, NumberAssumption
  <2>6. \/ Exec(e, i) = SetReg(e, i[2], Arith[x][y]) /\ Exec(t, i) = SetReg(t, i[2], Arith[x][y])
        \/ Exec(e, i) = SetReg(e, i[2], Compare[x][y]) /\ Exec(t, i) = SetReg(t, i[2], Compare[x][y])
    BY <1>3, <2>4 DEF Exec
  <2> HIDE DEF x, y
  <2> QED BY <1>1, <2>2, <2>3, <2>5, <2>6
<1>4. CASE i[1] = "sup"
  <2>1. i[2] \in Upv /\ i[3] \in Reg /\ i[3] \in A
    BY <1>4 DEF IsInstruction, WellFormed, Used
  <2>2. t.regs[i[3]] = e.regs[i[3]] /\ e.regs[i[3]] \in Val
    BY <1>m, <2>1
  <2>3. /\ Exec(e, i) = [e EXCEPT !.upv[i[2]] = e.regs[i[3]]]
        /\ Exec(t, i) = [t EXCEPT !.upv[i[2]] = t.regs[i[3]]]
        /\ Overwritten(i) = {} /\ Shows(t, i) = <<t.regs[i[3]]>> /\ Shows(e, i) = <<e.regs[i[3]]>>
    BY <1>4 DEF Exec, Overwritten, Shows
  <2>4. /\ Exec(e, i) \in Machine /\ Exec(e, i).regs = e.regs /\ Exec(e, i).glob = e.glob
        /\ Exec(e, i).upv = [e.upv EXCEPT ![i[2]] = e.regs[i[3]]]
    BY <1>m, <2>2, <2>3 DEF Machine
  <2>5. /\ Exec(t, i) \in Machine /\ Exec(t, i).regs = t.regs /\ Exec(t, i).glob = t.glob
        /\ Exec(t, i).upv = [t.upv EXCEPT ![i[2]] = t.regs[i[3]]]
    BY <1>m, <2>2, <2>3 DEF Machine
  <2> QED BY <1>m, <2>2, <2>3, <2>4, <2>5 DEF Agree
<1>5. CASE i[1] = "sgl"
  <2>1. i[3] \in Glob /\ i[2] \in Reg /\ i[2] \in A
    BY <1>5 DEF IsInstruction, WellFormed, Used
  <2>2. t.regs[i[2]] = e.regs[i[2]] /\ e.regs[i[2]] \in Val
    BY <1>m, <2>1
  <2>3. /\ Exec(e, i) = [e EXCEPT !.glob[i[3]] = e.regs[i[2]]]
        /\ Exec(t, i) = [t EXCEPT !.glob[i[3]] = t.regs[i[2]]]
        /\ Overwritten(i) = {} /\ Shows(t, i) = Shows(e, i)
    BY <1>5 DEF Exec, Overwritten, Shows
  <2>4. /\ Exec(e, i) \in Machine /\ Exec(e, i).regs = e.regs /\ Exec(e, i).upv = e.upv
        /\ Exec(e, i).glob = [e.glob EXCEPT ![i[3]] = e.regs[i[2]]]
    BY <1>m, <2>2, <2>3 DEF Machine
  <2>5. /\ Exec(t, i) \in Machine /\ Exec(t, i).regs = t.regs /\ Exec(t, i).upv = t.upv
        /\ Exec(t, i).glob = [t.glob EXCEPT ![i[3]] = t.regs[i[2]]]
    BY <1>m, <2>2, <2>3 DEF Machine
  <2> QED BY <1>m, <2>2, <2>3, <2>4, <2>5 DEF Agree
<1>6. CASE i[1] \in {"print", "nop"}
  <2>1. Exec(e, i) = e /\ Exec(t, i) = t /\ Overwritten(i) = {}
    BY <1>6 DEF Exec, Overwritten
  <2>2. Shows(t, i) = Shows(e, i)
    BY <1>m, <1>6 DEF Shows, Used
  <2> QED BY <2>1, <2>2
<1> QED BY <1>2, <1>3, <1>4, <1>5, <1>6 DEF IsInstruction, WellFormed

\* So does a call.
LEMMA AfterAgree ==
  ASSUME NEW e \in Machine, NEW t \in Machine, NEW i, IsInstruction(i), i[1] = "call",
         NEW A \in SUBSET Reg, Agree(A, e, t), Used(i) \subseteq A, GlobalsOK(e.glob)
  PROVE  /\ Shows(t, i) = Shows(e, i)
         /\ Results(t, i) = Results(e, i)
         /\ \A o \in Results(e, i) :
              /\ After(e, o) \in Machine /\ After(t, o) \in Machine
              /\ Agree(A \cup Overwritten(i), After(e, o), After(t, o))
<1> DEFINE W == i[2] .. i[2] + i[3]
<1>1. i[2] \in Reg /\ i[3] \in Nat /\ i[2] + i[3] < NReg
  BY DEF IsInstruction, WellFormed
<1>2. W \in SUBSET Reg /\ W \subseteq A /\ i[2] \in W /\ Overwritten(i) = {i[2]}
  BY <1>1, RegAssumption DEF Reg, Used, Overwritten
<1>3. t.glob = e.glob /\ t.upv = e.upv /\ \A r \in A : t.regs[r] = e.regs[r]
  BY DEF Agree
<1>4. Shows(t, i) = Shows(e, i)
  <2>1. \A k \in 0 .. i[3] : t.regs[i[2] + k] = e.regs[i[2] + k]
    BY <1>1, <1>2, <1>3 DEF Reg
  <2> QED BY <2>1 DEF Shows
<1>5. Results(t, i) = Results(e, i)
  <2>1. t.regs[i[2]] = e.regs[i[2]]
    BY <1>2, <1>3
  <2> QED BY <2>1 DEF Results
<1>6. ASSUME NEW o \in Results(e, i)
      PROVE  /\ After(e, o) \in Machine /\ After(t, o) \in Machine
             /\ Agree(A \cup Overwritten(i), After(e, o), After(t, o))
  <2>1. o \in Outcomes(W, Glob \cup Upv)
    BY DEF Results
  <2> HIDE DEF W
  <2>2. /\ After(e, o) \in Machine
        /\ \A r \in Reg \ W : After(e, o).regs[r] = e.regs[r]
        /\ \A r \in W : After(e, o).regs[r] = o.regs[r]
    BY <1>2, <2>1, AfterFact
  <2>3. /\ After(t, o) \in Machine
        /\ \A r \in Reg \ W : After(t, o).regs[r] = t.regs[r]
        /\ \A r \in W : After(t, o).regs[r] = o.regs[r]
    BY <1>2, <1>3, <2>1, AfterFact
  <2>4. \A r \in A \cup Overwritten(i) : After(t, o).regs[r] = After(e, o).regs[r]
    BY <1>2, <1>3, <2>2, <2>3
  <2>5. After(t, o).glob = After(e, o).glob /\ After(t, o).upv = After(e, o).upv
    BY <1>3 DEF After
  <2> QED BY <2>2, <2>3, <2>4, <2>5 DEF Agree
<1> QED BY <1>4, <1>5, <1>6

-----------------------------------------------------------------------------
(***************************************************************************)
(* Pairs of machines that run a block in step, one its code as compiled    *)
(* (orig), the other what has become of it (code): Q[k] are those before   *)
(* instruction k.                                                          *)
(***************************************************************************)
Matches(code, orig) ==
  /\ Len(code) \in 0 .. Width /\ Len(orig) = Len(code)
  /\ \A k \in 1 .. Len(code) :
       /\ IsInstruction(code[k]) /\ IsInstruction(orig[k])
       /\ code[k][1] \in {"call", "sgl"} \/ orig[k][1] \in {"call", "sgl"} => code[k] = orig[k]
       /\ Overwritten(code[k]) \subseteq Overwritten(orig[k])

InStep(Q, code, orig) ==
  /\ Q \in [1 .. Width + 1 -> SUBSET Same]
  /\ Matches(code, orig)
  /\ \A k \in 1 .. Len(code) : \A q \in Q[k] :
       /\ Shows(q[2], code[k]) = Shows(q[1], orig[k])
       /\ Together(q[1], q[2], orig[k], code[k]) \subseteq Q[k + 1]

\* Both do what their instructions may do.
LEMMA StepsFrom ==
  ASSUME NEW Q, NEW code, NEW orig, InStep(Q, code, orig), NEW k \in 1 .. Len(code),
         NEW q \in Q[k], NEW x \in Together(q[1], q[2], orig[k], code[k])
  PROVE  /\ x \in Q[k + 1] /\ x \in Same /\ q \in Same
         /\ x[2] \in Effects(q[2], code[k])
<1> PICK m, e, i, j : m = q[1] /\ e = q[2] /\ i = orig[k] /\ j = code[k]
  OBVIOUS
<1>1. /\ k \in 1 .. Width + 1 /\ k + 1 \in 1 .. Width + 1
      /\ IsInstruction(i) /\ IsInstruction(j)
      /\ j[1] \in {"call", "sgl"} \/ i[1] \in {"call", "sgl"} => j = i
  BY BlockAssumption DEF InStep, Matches
<1>2. q \in Same /\ x \in Q[k + 1] /\ x \in Same /\ Shows(e, j) = Shows(m, i)
  BY <1>1 DEF InStep
<1>3. /\ m \in Machine /\ e \in Machine /\ e.glob = m.glob /\ e.upv = m.upv
      /\ x[2].glob = x[1].glob
  BY <1>2 DEF Same
<1>4. CASE i[1] = "call"
  <2>1. PICK o \in Results(m, i) : x = <<After(m, o), After(e, o)>>
    BY <1>4 DEF Together
  <2>2. i[2] \in Reg /\ i[3] \in Nat /\ j = i
    BY <1>1, <1>4 DEF IsInstruction, WellFormed
  <2>3. e.regs[i[2]] = m.regs[i[2]]
    <3>1. 0 \in 0 .. i[3] /\ i[2] + 0 = i[2]
      BY <2>2, RegAssumption DEF Reg
    <3>2. Shows(e, i) = [y \in 0 .. i[3] |-> e.regs[i[2] + y]] /\ Shows(m, i) = [y \in 0 .. i[3] |-> m.regs[i[2] + y]]
      BY <1>4 DEF Shows
    <3>3. Shows(e, i)[0] = e.regs[i[2]] /\ Shows(m, i)[0] = m.regs[i[2]]
      BY <3>1, <3>2
    <3> QED BY <1>2, <2>2, <3>3
  <2>4. o \in Results(e, j)
    BY <2>2, <2>3 DEF Results
  <2> QED BY <1>2, <1>4, <2>1, <2>2, <2>4 DEF Effects
<1>5. CASE i[1] # "call"
  <2>1. x = <<Exec(m, i), Exec(e, j)>> /\ Keeps(m, i) /\ j[1] # "call"
    BY <1>1, <1>5 DEF Together
  <2>2. Keeps(e, j)
    <3>1. CASE j[1] = "sgl"
      <4>1. j = i /\ i[2] \in Reg /\ i[3] \in Glob
        BY <1>1, <3>1 DEF IsInstruction, WellFormed
      <4>2. /\ Exec(m, i) = [m EXCEPT !.glob[i[3]] = m.regs[i[2]]]
            /\ Exec(e, i) = [e EXCEPT !.glob[i[3]] = e.regs[i[2]]]
        BY <3>1, <4>1 DEF Exec
      <4>3. Exec(m, i).glob[i[3]] = m.regs[i[2]] /\ Exec(e, i).glob[i[3]] = e.regs[i[2]]
        BY <1>3, <4>1, <4>2 DEF Machine
      <4>4. m.regs[i[2]] = e.regs[i[2]]
        BY <1>3, <2>1, <4>1, <4>3
      <4> QED BY <2>1, <4>1, <4>4 DEF Keeps
    <3>2. CASE j[1] # "sgl"
      BY <3>2 DEF Keeps
    <3> QED BY <3>1, <3>2
  <2> QED BY <1>2, <2>1, <2>2 DEF Effects
<1> QED BY <1>4, <1>5

\* The pairs whose second machine agrees on A[k] with that of a pair of Q[k].
Loose(Q, A) ==
  [k \in 1 .. Width + 1 |->
     {q \in Same : \E x \in Q[k] : x[1] = q[1] /\ Agree(A[k], x[2], q[2])}]

\* The instructions that do nothing but write a register.
Silent(i) == i[1] \in {"mov", "lct", "arith"}

LEMMA SilentFacts ==
  ASSUME NEW e \in Machine, NEW i, IsInstruction(i), Silent(i)
  PROVE  /\ i[2] \in Reg /\ Overwritten(i) = {i[2]} /\ Shows(e, i) = <<>>
         /\ Exec(e, i) \in Machine /\ Exec(e, i).glob = e.glob /\ Exec(e, i).upv = e.upv
         /\ \A r \in Reg \ {i[2]} : Exec(e, i).regs[r] = e.regs[r]
<1>1. WellFormed(i) /\ i[2] \in Reg /\ Overwritten(i) = {i[2]} /\ Shows(e, i) = <<>>
  BY DEF IsInstruction, WellFormed, Silent, Overwritten, Shows
<1>2. e.regs \in [Reg -> Val]
  BY DEF Machine
<1>3. \E v \in Val : Exec(e, i) = SetReg(e, i[2], v)
  <2>1. CASE i[1] \in {"mov", "lct"}
    BY <1>1, <1>2, <2>1 DEF Exec, WellFormed
  <2>2. CASE i[1] = "arith"
    <3>1. e.regs[i[3]] \in Val /\ e.regs[i[4]] \in Val
      BY <1>1, <1>2, <2>2 DEF WellFormed
    <3>2. Arith[e.regs[i[3]]][e.regs[i[4]]] \in Val
      BY <3>1, NumberAssumption
    <3> QED BY <2>2, <3>2 DEF Exec
  <2> QED BY <2>1, <2>2 DEF Silent
<1> QED BY <1>1, <1>3, SetRegMachine DEF SameBut

\* Instructions may be left out whose registers need not agree, and registers need not
\* agree that are not read before they are written.
LEMMA Loosened ==
  ASSUME NEW Q, NEW code, NEW orig, InStep(Q, code, orig), NEW new,
         Len(new) = Len(code), NEW A \in [1 .. Width + 1 -> SUBSET Reg],
         \A k \in 1 .. Len(code) :
           \/ /\ new[k] = code[k] /\ Used(code[k]) \subseteq A[k]
              /\ A[k + 1] \subseteq A[k] \cup Overwritten(code[k])
           \/ /\ new[k] = Nop /\ Silent(code[k])
              /\ A[k + 1] \subseteq A[k] \ {code[k][2]}
  PROVE  InStep(Loose(Q, A), new, orig)
<1> PICK P : P = Loose(Q, A)
  OBVIOUS
<1>1. Width \in Nat /\ Len(code) \in 0 .. Width
  BY BlockAssumption DEF InStep, Matches
<1>2. P \in [1 .. Width + 1 -> SUBSET Same]
  BY DEF Loose
<1>3. IsInstruction(Nop) /\ Nop[1] = "nop"
  BY DEF Nop, IsInstruction, WellFormed
<1>4. Matches(new, orig)
  <2>1. ASSUME NEW k \in 1 .. Len(code)
        PROVE  /\ IsInstruction(new[k]) /\ IsInstruction(orig[k])
               /\ new[k][1] \in {"call", "sgl"} \/ orig[k][1] \in {"call", "sgl"} => new[k] = orig[k]
               /\ Overwritten(new[k]) \subseteq Overwritten(orig[k])
    <3>1. /\ IsInstruction(code[k]) /\ IsInstruction(orig[k])
          /\ code[k][1] \in {"call", "sgl"} \/ orig[k][1] \in {"call", "sgl"} => code[k] = orig[k]
          /\ Overwritten(code[k]) \subseteq Overwritten(orig[k])
      BY DEF InStep, Matches
    <3>2. new[k] = code[k] \/ (new[k] = Nop /\ Silent(code[k]))
      OBVIOUS
    <3>3. CASE new[k] = code[k]
      BY <3>1, <3>3
    <3>4. CASE new[k] = Nop /\ Silent(code[k])
      <4>1. code[k][1] \notin {"call", "sgl"} /\ orig[k][1] \notin {"call", "sgl"}
        BY <3>1, <3>4 DEF Silent
      <4>2. Overwritten(Nop) = {}
        BY <1>3 DEF Overwritten
      <4> QED BY <1>3, <3>1, <3>4, <4>1, <4>2
    <3> QED BY <3>2, <3>3, <3>4
  <2> QED BY <2>1 DEF InStep, Matches
<1>5. ASSUME NEW k \in 1 .. Len(code), NEW q \in P[k]
      PROVE  /\ Shows(q[2], new[k]) = Shows(q[1], orig[k])
             /\ Together(q[1], q[2], orig[k], new[k]) \subseteq P[k + 1]
  <2>1. /\ k \in 1 .. Width + 1 /\ k + 1 \in 1 .. Width + 1
        /\ IsInstruction(orig[k]) /\ IsInstruction(code[k])
        /\ code[k][1] \in {"call", "sgl"} \/ orig[k][1] \in {"call", "sgl"} => code[k] = orig[k]
    BY <1>1 DEF InStep, Matches
  <2> PICK B, C, i, j : B = A[k] /\ C = A[k + 1] /\ i = orig[k] /\ j = code[k]
    OBVIOUS
  <2>2. q \in Same /\ \E x \in Q[k] : x[1] = q[1] /\ Agree(B, x[2], q[2])
    BY <2>1 DEF Loose
  <2>3. PICK x \in Q[k] : x[1] = q[1] /\ Agree(B, x[2], q[2])
    BY <2>2
  <2> PICK m, e, t : m = q[1] /\ e = x[2] /\ t = q[2]
    OBVIOUS
  <2>4. /\ m \in Machine /\ e \in Machine /\ t \in Machine /\ GlobalsOK(m.glob)
        /\ e.glob = m.glob /\ t.glob = m.glob /\ e.upv = m.upv /\ t.upv = m.upv
        /\ x \in Same
    BY <2>1, <2>2, <2>3 DEF Same, InStep
  <2>5. /\ Shows(e, j) = Shows(m, i) /\ Together(m, e, i, j) \subseteq Q[k + 1]
        /\ \A y \in Q[k + 1] : y \in Same
    BY <2>1, <2>3 DEF InStep
  <2>6. B \in SUBSET Reg /\ C \in SUBSET Reg
    BY <2>1
  <2>7. P[k + 1] = {y \in Same : \E z \in Q[k + 1] : z[1] = y[1] /\ Agree(C, z[2], y[2])}
    BY <2>1 DEF Loose
  <2>8. ASSUME NEW n, NEW f \in Machine, NEW u \in Machine, <<n, f>> \in Together(m, e, i, j),
               Agree(C, f, u)
        PROVE  <<n, u>> \in P[k + 1]
    <3>1. <<n, f>> \in Same /\ <<n, f>> \in Q[k + 1]
      BY <2>5, <2>8
    <3>2. n \in Machine /\ GlobalsOK(n.glob) /\ f.glob = n.glob /\ f.upv = n.upv
      BY <3>1 DEF Same
    <3>3. <<n, u>> \in Same
      BY <2>8, <3>2 DEF Same, Agree
    <3> QED BY <2>7, <2>8, <3>1, <3>3
  <2>9. CASE new[k] = j /\ Used(j) \subseteq B /\ C \subseteq B \cup Overwritten(j)
    <3>1. CASE j[1] = "call"
      <4>1. j = i
        BY <2>1, <3>1
      <4>2. /\ Shows(t, j) = Shows(e, j)
            /\ Results(t, j) = Results(e, j)
            /\ \A o \in Results(e, j) :
                 /\ After(e, o) \in Machine /\ After(t, o) \in Machine
                 /\ Agree(B \cup Overwritten(j), After(e, o), After(t, o))
        <5>1. GlobalsOK(e.glob) /\ Agree(B, e, t) /\ IsInstruction(j) /\ Used(j) \subseteq B
          BY <2>1, <2>3, <2>4, <2>9
        <5>2. e \in Machine /\ t \in Machine /\ B \in SUBSET Reg /\ j[1] = "call"
          BY <2>4, <2>6, <3>1
        <5> QED BY ONLY <5>1, <5>2, AfterAgree
      <4>3. Results(m, j) = Results(e, j)
        <5>1. j[2] \in Reg /\ j[3] \in Nat
          BY <2>1, <3>1 DEF IsInstruction, WellFormed
        <5>2. Shows(e, j) = [y \in 0 .. j[3] |-> e.regs[j[2] + y]] /\ Shows(m, j) = [y \in 0 .. j[3] |-> m.regs[j[2] + y]]
          BY <3>1 DEF Shows
        <5>3. 0 \in 0 .. j[3] /\ j[2] + 0 = j[2]
          BY <5>1, RegAssumption DEF Reg
        <5>4. e.regs[j[2]] = m.regs[j[2]]
          BY <2>5, <4>1, <5>2, <5>3
        <5> QED BY <5>4 DEF Results
      <4>4. ASSUME NEW o \in Results(m, i)
            PROVE  <<After(m, o), After(t, o)>> \in P[k + 1]
        <5>1. /\ After(e, o) \in Machine /\ After(t, o) \in Machine
              /\ Agree(C, After(e, o), After(t, o))
          BY <2>9, <4>1, <4>2, <4>3 DEF Agree
        <5>2. <<After(m, o), After(e, o)>> \in Together(m, e, i, j)
          BY <3>1, <4>1 DEF Together
        <5> QED BY <2>8, <5>1, <5>2
      <4> QED BY <2>3, <2>5, <2>9, <3>1, <4>1, <4>2, <4>4 DEF Together
    <3>2. CASE j[1] # "call"
      <4>1. i[1] # "call"
        BY <2>1, <3>2
      <4>2. /\ Agree(B \cup Overwritten(j), Exec(e, j), Exec(t, j))
            /\ Shows(t, j) = Shows(e, j)
            /\ Exec(e, j) \in Machine /\ Exec(t, j) \in Machine
        <5>1. Agree(B, e, t) /\ IsInstruction(j) /\ Used(j) \subseteq B
          BY <2>1, <2>3, <2>9
        <5>2. e \in Machine /\ t \in Machine /\ B \in SUBSET Reg /\ j[1] # "call"
          BY <2>4, <2>6, <3>2
        <5> QED BY ONLY <5>1, <5>2, ExecAgree
      <4>3. Agree(C, Exec(e, j), Exec(t, j))
        BY <2>9, <4>2 DEF Agree
      <4>4. Keeps(m, i) => <<Exec(m, i), Exec(t, j)>> \in P[k + 1]
        BY <2>8, <4>1, <4>2, <4>3 DEF Together
      <4> QED BY <2>3, <2>5, <2>9, <4>1, <4>2, <4>4 DEF Together
    <3> QED BY <3>1, <3>2
  <2>10. CASE new[k] = Nop /\ Silent(j) /\ C \subseteq B \ {j[2]}
    <3>1. /\ j[2] \in Reg /\ Shows(e, j) = <<>>
          /\ Exec(e, j) \in Machine /\ Exec(e, j).glob = e.glob /\ Exec(e, j).upv = e.upv
          /\ \A r \in Reg \ {j[2]} : Exec(e, j).regs[r] = e.regs[r]
      BY <2>1, <2>4, <2>10, SilentFacts
    <3>2. Shows(t, Nop) = <<>> /\ Exec(t, Nop) = t /\ i[1] # "call"
      BY <1>3, <2>1, <2>10 DEF Shows, Exec, Silent
    <3>3. Agree(C, Exec(e, j), t)
      BY <2>3, <2>6, <2>10, <3>1 DEF Agree
    <3>4. Keeps(m, i) => <<Exec(m, i), t>> \in P[k + 1]
      BY <2>4, <2>8, <3>1, <3>2, <3>3 DEF Together
    <3> QED BY <2>5, <2>10, <3>1, <3>2, <3>4 DEF Together
  <2> QED BY <2>9, <2>10
<1> QED BY <1>2, <1>4, <1>5 DEF InStep

-----------------------------------------------------------------------------
(***************************************************************************)
(* The two runs of a function. A pair that leaves a block agrees on what   *)
(* the next block's code, and that after it, may still read (L) with a     *)
(* pair that enters it.                                                    *)
(***************************************************************************)
\* L[b] holds the registers that may be read from block b on before they are written.
Covers(L, p) ==
  /\ L \in [Block -> SUBSET Reg]
  /\ \A b \in Block : /\ BlockUses(p, b) \subseteq L[b]
                      /\ \A d \in ToSet(p.dest[b]) : L[d] \ BlockWrites(p, b) \subseteq L[b]

Good(R, L, p, compiled) ==
  /\ R \in [Block -> [1 .. Width + 1 -> SUBSET Same]]
  /\ Covers(L, p)
  /\ \A n \in Entering : <<n, n>> \in R[Entry][1]
  /\ \A b \in Block : InStep(R[b], p.code[b], compiled[b])
  /\ \A b \in Block : \A q \in R[b][Len(p.code[b]) + 1] : \A d \in ToSet(p.dest[b]) :
       \E x \in R[d][1] : x[1] = q[1] /\ Agree(L[d], x[2], q[2])

LEMMA EntryIn == Entry \in Block
BY BlockAssumption DEF Entry, Block

\* Function p with other code for block b.
Changed(p, b, code) == [p EXCEPT !.code[b] = code]

LEMMA ChangedShape ==
  ASSUME NEW p, IsFunction(p), NEW b \in Block, NEW code
  PROVE  /\ Changed(p, b, code).dest = p.dest /\ Changed(p, b, code).src = p.src
         /\ Changed(p, b, code).code[b] = code
         /\ \A c \in Block : c # b => Changed(p, b, code).code[c] = p.code[c]
<1>1. DOMAIN p = {"code", "src", "dest"} /\ DOMAIN p.code = Block
  BY DEF IsFunction
<1> QED BY <1>1 DEF Changed

LEMMA ChangedFacts ==
  ASSUME NEW p, IsFunction(p), NEW b \in Block, NEW code
  PROVE  /\ Changed(p, b, code).dest = p.dest /\ Changed(p, b, code).src = p.src
         /\ Changed(p, b, code).code[b] = code
         /\ \A c \in Block : c # b => Changed(p, b, code).code[c] = p.code[c]
         /\ (/\ Len(code) = Len(p.code[b]) /\ DOMAIN code = 1 .. Len(code)
             /\ \A k \in 1 .. Len(code) : IsInstruction(code[k])) =>
              IsFunction(Changed(p, b, code))
<1> PICK q : q = Changed(p, b, code)
  OBVIOUS
<1>1. DOMAIN p = {"code", "src", "dest"} /\ DOMAIN p.code = Block
  BY DEF IsFunction
<1>2. /\ DOMAIN q = {"code", "src", "dest"} /\ q.src = p.src /\ q.dest = p.dest
      /\ q.code = [p.code EXCEPT ![b] = code]
  BY <1>1 DEF Changed
<1>3. DOMAIN q.code = Block /\ q.code[b] = code /\ \A c \in Block : c # b => q.code[c] = p.code[c]
  BY <1>1, <1>2
<1>4. ASSUME Len(code) = Len(p.code[b]), DOMAIN code = 1 .. Len(code),
             \A k \in 1 .. Len(code) : IsInstruction(code[k])
      PROVE  IsFunction(q)
  <2>1. ASSUME NEW c \in Block
        PROVE  /\ Len(q.code[c]) \in 0 .. Width /\ DOMAIN q.code[c] = 1 .. Len(q.code[c])
               /\ \A k \in DOMAIN q.code[c] : IsInstruction(q.code[c][k])
    <3>1. /\ Len(p.code[c]) \in 0 .. Width /\ DOMAIN p.code[c] = 1 .. Len(p.code[c])
          /\ \A k \in DOMAIN p.code[c] : IsInstruction(p.code[c][k])
      BY DEF IsFunction
    <3>2. CASE c = b
      BY <1>3, <1>4, <3>1, <3>2
    <3>3. CASE c # b
      BY <1>3, <3>1, <3>3
    <3> QED BY <3>2, <3>3
  <2>2. {DOMAIN q.code, DOMAIN q.src, DOMAIN q.dest} = {Block}
    BY <1>2, <1>3 DEF IsFunction
  <2>3. \A c \in Block :
          /\ {q.src[c], q.dest[c]} \subseteq Seq(Block)
          /\ IsInjective(q.src[c]) /\ IsInjective(q.dest[c])
          /\ ToSet(q.src[c]) = {s \in Block : c \in ToSet(q.dest[s])}
    BY <1>2 DEF IsFunction
  <2>4. ReachedFrom({Entry}, [c \in Block |-> ToSet(q.dest[c])]) = Block
    BY <1>2 DEF IsFunction
  <2> QED BY <1>2, <2>1, <2>2, <2>3, <2>4 DEF IsFunction
<1> QED BY <1>2, <1>3, <1>4

\* What holds of the loops of a function does not depend on its code.
LEMMA ChangedLoops ==
  ASSUME NEW p, IsFunction(p), NEW b \in Block, NEW code, NEW h
  PROVE  LoopBlocks(Changed(p, b, code), h) = LoopBlocks(p, h)
<1>1. Changed(p, b, code).src = p.src
  BY ChangedShape
<1> QED BY <1>1 DEF LoopBlocks, LoopSources, Preds

\* A block may be run in another way if it starts from the same pairs and leaves what
\* agrees with what it left.
LEMMA GoodChanged ==
  ASSUME NEW p, IsFunction(p), NEW R, NEW L, NEW compiled, Good(R, L, p, compiled),
         NEW b \in Block, NEW code, Len(code) = Len(p.code[b]),
         NEW Q, InStep(Q, code, compiled[b]), Q[1] = R[b][1],
         NEW M, Covers(M, Changed(p, b, code)), \A c \in Block : M[c] \subseteq L[c],
         \A q \in Q[Len(code) + 1] : \E x \in R[b][Len(code) + 1] :
           x[1] = q[1] /\ \A d \in ToSet(p.dest[b]) : Agree(M[d], x[2], q[2])
  PROVE  Good([R EXCEPT ![b] = Q], M, Changed(p, b, code), compiled)
<1> PICK T, u : T = [R EXCEPT ![b] = Q] /\ u = Changed(p, b, code)
  OBVIOUS
<1>1. /\ u.dest = p.dest /\ u.code[b] = code
      /\ \A c \in Block : c # b => u.code[c] = p.code[c]
  BY ONLY IsFunction(p), u = Changed(p, b, code), ChangedShape
<1>2. /\ R \in [Block -> [1 .. Width + 1 -> SUBSET Same]]
      /\ \A c \in Block : InStep(R[c], p.code[c], compiled[c])
      /\ Entry \in Block /\ \A c \in Block : \A d \in ToSet(p.dest[c]) : d \in Block
  <2>1. \A c \in Block : ToSet(p.dest[c]) \in SUBSET Block
    BY ProgramFacts
  <2> QED BY <2>1, EntryIn DEF Good
<1>3. Q \in [1 .. Width + 1 -> SUBSET Same]
  BY DEF InStep
<1>4. /\ T \in [Block -> [1 .. Width + 1 -> SUBSET Same]] /\ T[b] = Q
      /\ \A c \in Block : c # b => T[c] = R[c]
  BY <1>2, <1>3
<1>5. \A c \in Block : T[c][1] = R[c][1]
  BY <1>4
<1>6. \A n \in Entering : <<n, n>> \in T[Entry][1]
  BY <1>2, <1>5 DEF Good
<1>7. \A c \in Block : InStep(T[c], u.code[c], compiled[c])
  BY <1>1, <1>2, <1>4
<1>8. ASSUME NEW c \in Block, NEW q \in T[c][Len(u.code[c]) + 1], NEW d \in ToSet(u.dest[c])
      PROVE  \E x \in T[d][1] : x[1] = q[1] /\ Agree(M[d], x[2], q[2])
  <2>1. d \in ToSet(p.dest[c]) /\ d \in Block
    BY <1>1, <1>2, <1>8
  <2>2. PICK y \in R[c][Len(p.code[c]) + 1] : y[1] = q[1] /\ Agree(M[d], y[2], q[2])
    <3>1. CASE c = b
      <4>1. q \in Q[Len(code) + 1]
        BY <1>1, <1>4, <1>8, <3>1
      <4>2. PICK x \in R[b][Len(code) + 1] :
              x[1] = q[1] /\ \A f \in ToSet(p.dest[b]) : Agree(M[f], x[2], q[2])
        BY <4>1
      <4> QED BY <2>1, <3>1, <4>2
    <3>2. CASE c # b
      <4>1. q \in R[c][Len(p.code[c]) + 1]
        BY <1>1, <1>4, <1>8, <3>2
      <4>2. Agree(M[d], q[2], q[2])
        BY DEF Agree
      <4> QED BY <4>1, <4>2
    <3> QED BY <3>1, <3>2
  <2>3. PICK x \in R[d][1] : x[1] = y[1] /\ Agree(L[d], x[2], y[2])
    BY <2>1, <2>2 DEF Good
  <2>4. M[d] \subseteq L[d]
    BY <2>1
  <2>5. Agree(M[d], x[2], q[2])
    BY <2>2, <2>3, <2>4 DEF Agree
  <2> QED BY <1>5, <2>1, <2>2, <2>3, <2>5
<1> QED BY <1>4, <1>6, <1>7, <1>8 DEF Good

-----------------------------------------------------------------------------
(***************************************************************************)
(* One instruction of a block becomes another.                             *)
(***************************************************************************)
\* Block b of function q does not read more before it writes it than in p, nor write
\* more.
Less(q, p, b) == BlockUses(q, b) \subseteq BlockUses(p, b) /\ BlockWrites(q, b) \subseteq BlockWrites(p, b)

\* Whether a register is read or written by one of the first k instructions.
Met(code, k, r) == \E j \in 1 .. k : r \in Used(code[j]) \cup Overwritten(code[j])

\* Both depend on the code of the block only.
LEMMA SameCode ==
  ASSUME NEW p, NEW q, NEW c, q.code[c] = p.code[c]
  PROVE  BlockUses(q, c) = BlockUses(p, c) /\ BlockWrites(q, c) = BlockWrites(p, c)
<1> DEFINE ReadFirst(code) == UNION {Used(code[i]) \ UNION {Overwritten(code[j]) : j \in 1 .. i - 1} :
                                       i \in DOMAIN code}
           WrittenBy(code) == UNION {Overwritten(code[i]) : i \in DOMAIN code}
<1>1. BlockUses(q, c) = ReadFirst(q.code[c]) /\ BlockWrites(q, c) = WrittenBy(q.code[c])
  BY DEF BlockUses, BlockWrites
<1>2. BlockUses(p, c) = ReadFirst(p.code[c]) /\ BlockWrites(p, c) = WrittenBy(p.code[c])
  BY DEF BlockUses, BlockWrites
<1> HIDE DEF ReadFirst, WrittenBy
<1> QED BY <1>1, <1>2

\* What a block reads before it writes it, and what it writes, by its instructions.
LEMMA UsesFacts ==
  ASSUME NEW p, IsFunction(p), NEW b \in Block, NEW r
  PROVE  /\ r \in BlockUses(p, b) <=>
              \E k \in 1 .. Len(p.code[b]) :
                 r \in Used(p.code[b][k]) /\ \A j \in 1 .. k - 1 : r \notin Overwritten(p.code[b][j])
         /\ r \in BlockWrites(p, b) <=> \E k \in 1 .. Len(p.code[b]) : r \in Overwritten(p.code[b][k])
<1>1. DOMAIN p.code[b] = 1 .. Len(p.code[b])
  BY ProgramFacts
<1> QED BY <1>1 DEF BlockUses, BlockWrites

\* What is met is read before it is written, or it is written.
LEMMA MetFacts ==
  ASSUME NEW p, IsFunction(p), NEW b \in Block, NEW k \in 0 .. Len(p.code[b]), NEW r,
         Met(p.code[b], k, r), \A j \in 1 .. k : r \notin Overwritten(p.code[b][j])
  PROVE  r \in BlockUses(p, b)
<1> PICK code : code = p.code[b]
  OBVIOUS
<1>0. Len(code) \in Nat
  BY ProgramFacts
<1>1. PICK j \in 1 .. k : r \in Used(code[j]) \cup Overwritten(code[j])
  BY DEF Met
<1>2. r \in Used(code[j]) /\ j \in 1 .. Len(code)
  BY <1>0, <1>1
<1>3. \A i \in 1 .. j - 1 : r \notin Overwritten(code[i])
  BY <1>0
<1> QED BY <1>2, <1>3, UsesFacts

\* An instruction that changes no other register and reads only what has been met may
\* take the place of another.
LEMMA Patched ==
  ASSUME NEW p, IsFunction(p), NEW L, Covers(L, p), NEW b \in Block,
         NEW k \in 1 .. Len(p.code[b]), NEW new, Len(new) = Len(p.code[b]),
         DOMAIN new = 1 .. Len(new), \A x \in 1 .. Len(new) : x # k => new[x] = p.code[b][x],
         IsInstruction(new[k]), Overwritten(new[k]) \subseteq Overwritten(p.code[b][k]),
         \A r \in Used(new[k]) \cup (Overwritten(p.code[b][k]) \ Overwritten(new[k])) :
           r \in Used(p.code[b][k]) \/ Met(p.code[b], k - 1, r)
  PROVE  /\ IsFunction(Changed(p, b, new)) /\ Less(Changed(p, b, new), p, b)
         /\ Covers(L, Changed(p, b, new))
<1> PICK code, n, i, j, q :
      code = p.code[b] /\ n = Len(code) /\ i = code[k] /\ j = new[k] /\ q = Changed(p, b, new)
  OBVIOUS
<1>1. n \in Nat /\ DOMAIN code = 1 .. n /\ \A x \in 1 .. n : IsInstruction(code[x])
  BY ProgramFacts
<1>2. new[k] = j /\ DOMAIN new = 1 .. n /\ \A x \in 1 .. n : x # k => new[x] = code[x]
  BY <1>1
<1>3. Len(new) = n
  OBVIOUS
<1>4. /\ IsFunction(q) /\ q.dest = p.dest /\ q.code[b] = new
      /\ \A c \in Block : c # b => q.code[c] = p.code[c]
  <2>1. \A x \in 1 .. n : IsInstruction(new[x])
    BY <1>1, <1>2
  <2>2. /\ IsFunction(p) /\ b \in Block /\ q = Changed(p, b, new)
        /\ Len(new) = Len(p.code[b]) /\ DOMAIN new = 1 .. Len(new)
        /\ \A x \in 1 .. Len(new) : IsInstruction(new[x])
    BY <1>2, <1>3, <2>1
  <2>3. IsFunction(Changed(p, b, new))
    BY ONLY <2>2, ChangedFacts
  <2>4. /\ Changed(p, b, new).dest = p.dest /\ Changed(p, b, new).code[b] = new
        /\ \A c \in Block : c # b => Changed(p, b, new).code[c] = p.code[c]
    BY ONLY <2>2, ChangedShape
  <2> QED BY ONLY <2>2, <2>3, <2>4
<1>5. ASSUME NEW r, r \in Used(i) \/ Met(code, k - 1, r), \A x \in 1 .. k - 1 : r \notin Overwritten(code[x])
      PROVE  r \in BlockUses(p, b)
  <2>1. CASE r \in Used(i)
    BY <1>5, <2>1, UsesFacts
  <2>2. CASE Met(code, k - 1, r)
    <3>1. k - 1 \in 0 .. n
      BY <1>1
    <3> QED BY <1>5, <2>2, <3>1, MetFacts
  <2> QED BY <1>5, <2>1, <2>2
<1>6. BlockUses(q, b) \subseteq BlockUses(p, b)
  <2> SUFFICES ASSUME NEW r \in BlockUses(q, b) PROVE r \in BlockUses(p, b)
    OBVIOUS
  <2>1. PICK x \in 1 .. n : r \in Used(new[x]) /\ \A y \in 1 .. x - 1 : r \notin Overwritten(new[y])
    <3>1. r \in BlockUses(q, b) <=>
            \E x \in 1 .. Len(q.code[b]) :
              r \in Used(q.code[b][x]) /\ \A y \in 1 .. x - 1 : r \notin Overwritten(q.code[b][y])
      <4>1. IsFunction(q) /\ b \in Block
        BY <1>4
      <4> QED BY ONLY <4>1, UsesFacts
    <3> QED BY <1>3, <1>4, <3>1
  <2>2. \A y \in 1 .. x - 1 : y # k => r \notin Overwritten(code[y])
    BY <1>1, <1>2, <2>1
  <2>3. CASE x = k
    <3>1. r \in Used(j) /\ \A y \in 1 .. k - 1 : r \notin Overwritten(code[y])
      BY <1>1, <1>2, <2>1, <2>2, <2>3
    <3> QED BY <1>5, <3>1
  <2>4. CASE x # k /\ \A y \in 1 .. x - 1 : r \notin Overwritten(code[y])
    BY <1>2, <2>1, <2>4, UsesFacts
  <2>5. CASE x # k /\ \E y \in 1 .. x - 1 : r \in Overwritten(code[y])
    <3>1. k \in 1 .. x - 1 /\ r \in Overwritten(i) /\ r \notin Overwritten(j)
      BY <1>2, <2>1, <2>2, <2>5
    <3>2. \A y \in 1 .. k - 1 : r \notin Overwritten(code[y])
      BY <1>1, <2>2, <3>1
    <3> QED BY <1>5, <3>1, <3>2
  <2> QED BY <2>3, <2>4, <2>5
<1>7. BlockWrites(q, b) \subseteq BlockWrites(p, b)
  BY <1>2, <1>3, <1>4, UsesFacts
<1>8. \A c \in Block : c # b => BlockUses(q, c) = BlockUses(p, c) /\ BlockWrites(q, c) = BlockWrites(p, c)
  BY <1>4, SameCode
<1>9. ASSUME NEW d \in ToSet(p.dest[b]), NEW r \in L[d] \ BlockWrites(q, b)
      PROVE  r \in L[b]
  <2>1. CASE r \notin BlockWrites(p, b)
    BY <2>1 DEF Covers
  <2>2. CASE r \in BlockWrites(p, b)
    <3>1. \A x \in 1 .. n : r \notin Overwritten(new[x])
      BY <1>3, <1>4, UsesFacts
    <3>2. PICK x \in 1 .. n : r \in Overwritten(code[x])
      BY <2>2, UsesFacts
    <3>3. r \in Overwritten(i) \ Overwritten(j)
      BY <1>2, <3>1, <3>2
    <3>4. \A y \in 1 .. k - 1 : r \notin Overwritten(code[y])
      BY <1>1, <1>2, <3>1
    <3>5. r \in BlockUses(p, b)
      BY <1>5, <3>3, <3>4
    <3> QED BY <3>5 DEF Covers
  <2> QED BY <2>1, <2>2
<1>10. Covers(L, q)
  <2>1. ASSUME NEW c \in Block
        PROVE  /\ BlockUses(q, c) \subseteq L[c]
               /\ \A d \in ToSet(q.dest[c]) : L[d] \ BlockWrites(q, c) \subseteq L[c]
    <3>1. CASE c = b
      BY <1>4, <1>6, <1>9, <3>1 DEF Covers
    <3>2. CASE c # b
      BY <1>4, <1>8, <3>2 DEF Covers
    <3> QED BY <3>1, <3>2
  <2> QED BY <2>1 DEF Covers
<1> QED BY <1>4, <1>6, <1>7, <1>10 DEF Less

(***************************************************************************)
(* Stores are left out.                                                    *)
(***************************************************************************)
\* The registers an instruction names are those of the frame.
LEMMA InstrRegs ==
  ASSUME NEW i, IsInstruction(i)
  PROVE  /\ Used(i) \subseteq Reg /\ Overwritten(i) \subseteq Reg /\ Clobbered(i) \subseteq Reg
         /\ Clobbered(i) \subseteq Used(i) \cup Overwritten(i)
<1>1. CASE i[1] = "call"
  <2>1. i[2] \in Reg /\ i[3] \in Nat /\ i[2] + i[3] < NReg
    BY <1>1 DEF IsInstruction, WellFormed
  <2>2. i[2] .. i[2] + i[3] \subseteq Reg
    BY <2>1, RegAssumption DEF Reg
  <2> QED BY <1>1, <2>1, <2>2 DEF Used, Overwritten, Clobbered
<1>2. CASE i[1] # "call"
  BY <1>2 DEF IsInstruction, WellFormed, Used, Overwritten, Clobbered
<1> QED BY <1>1, <1>2

\* The registers that hold something else before instruction k once the instructions
\* at ks are left out: one of those was the last to write them.
Stale(code, ks, k) ==
  {r \in Reg : \E d \in ks : /\ d < k /\ r = code[d][2]
                             /\ \A j \in d + 1 .. k - 1 : r \notin Overwritten(code[j])}

\* The instructions at ks do nothing but write registers that are not read before they
\* are written again, and those outside X are.
Idle(code, ks, X) ==
  /\ ks \subseteq 1 .. Len(code)
  /\ \A d \in ks :
       /\ Silent(code[d])
       /\ \A j \in d + 1 .. Len(code) :
            code[d][2] \in Used(code[j]) =>
              \E i \in d + 1 .. j - 1 : code[d][2] \in Overwritten(code[i])
       /\ \/ code[d][2] \in X
          \/ \E j \in (d + 1 .. Len(code)) \ ks : code[d][2] \in Overwritten(code[j])

\* Nothing that runs reads what it would find stale.
LEMMA StaleFacts ==
  ASSUME NEW code, Len(code) \in Nat, \A k \in 1 .. Len(code) : IsInstruction(code[k]),
         NEW ks, NEW X, Idle(code, ks, X)
  PROVE  /\ Stale(code, ks, 1) = {} /\ Stale(code, ks, Len(code) + 1) \subseteq X
         /\ \A k \in 1 .. Len(code) :
              IF k \in ks THEN Stale(code, ks, k) \cup {code[k][2]} \subseteq Stale(code, ks, k + 1)
              ELSE /\ Used(code[k]) \cap Stale(code, ks, k) = {}
                   /\ Stale(code, ks, k) \subseteq Stale(code, ks, k + 1) \cup Overwritten(code[k])
<1> PICK n : n = Len(code)
  OBVIOUS
<1> DEFINE Latest(d, k, r) ==
             d < k /\ r = code[d][2] /\ \A j \in d + 1 .. k - 1 : r \notin Overwritten(code[j])
           S(k) == Stale(code, ks, k)
<1>1. \A k, r : r \in S(k) <=> r \in Reg /\ \E d \in ks : Latest(d, k, r)
  BY DEF Stale
<1>2. \A d \in ks : /\ d \in 1 .. n /\ Silent(code[d]) /\ code[d][2] \in Reg
                    /\ Overwritten(code[d]) = {code[d][2]}
  <2>1. ASSUME NEW d \in ks
        PROVE  /\ d \in 1 .. n /\ Silent(code[d]) /\ code[d][2] \in Reg
               /\ Overwritten(code[d]) = {code[d][2]}
    <3>1. d \in 1 .. n /\ Silent(code[d]) /\ IsInstruction(code[d])
      BY DEF Idle
    <3> QED BY <3>1 DEF Silent, IsInstruction, WellFormed, Overwritten
  <2> QED BY <2>1
<1>3. S(1) = {}
  <2>1. \A d \in ks : ~(d < 1)
    BY <1>2
  <2> QED BY <1>1, <2>1
<1>4. S(n + 1) \subseteq X
  <2> SUFFICES ASSUME NEW r \in S(n + 1) PROVE r \in X
    OBVIOUS
  <2>1. PICK d \in ks : Latest(d, n + 1, r)
    BY <1>1
  <2>2. (n + 1) - 1 = n
    OBVIOUS
  <2> QED BY <2>1, <2>2 DEF Idle
<1>5. ASSUME NEW k \in 1 .. n, NEW r \in S(k), r \notin Overwritten(code[k])
      PROVE  r \in S(k + 1)
  <2>1. PICK d \in ks : Latest(d, k, r)
    BY <1>1
  <2>2. d \in 1 .. n
    BY <1>2
  <2>3. \A j \in d + 1 .. (k + 1) - 1 : j = k \/ j \in d + 1 .. k - 1
    BY <2>2
  <2>4. d < k + 1
    BY <2>1, <2>2
  <2> HIDE DEF S
  <2>5. Latest(d, k + 1, r)
    BY <1>5, <2>1, <2>3, <2>4
  <2> QED BY <1>1, <2>5
<1>6. ASSUME NEW k \in 1 .. n, k \in ks
      PROVE  S(k) \cup {code[k][2]} \subseteq S(k + 1)
  <2>1. code[k][2] \in S(k + 1)
    <3>1. Latest(k, k + 1, code[k][2])
      <4>1. \A j \in k + 1 .. (k + 1) - 1 : FALSE
        OBVIOUS
      <4> QED BY <4>1
    <3> QED BY <1>1, <1>2, <1>6, <3>1
  <2>2. \A r \in S(k) : r = code[k][2] \/ r \notin Overwritten(code[k])
    BY <1>2, <1>6
  <2> QED BY <1>5, <2>1, <2>2
<1>7. ASSUME NEW k \in 1 .. n, k \notin ks
      PROVE  Used(code[k]) \cap S(k) = {} /\ S(k) \subseteq S(k + 1) \cup Overwritten(code[k])
  <2>1. ASSUME NEW r \in S(k), r \in Used(code[k]) PROVE FALSE
    <3>1. PICK d \in ks : Latest(d, k, r)
      BY <1>1, <2>1
    <3>2. k \in d + 1 .. n
      BY <1>2, <3>1
    <3> QED BY <2>1, <3>1, <3>2 DEF Idle
  <2> QED BY <1>5, <2>1
<1> QED BY <1>3, <1>4, <1>6, <1>7

\* What is read after the instructions at ks are left out, and was not written by
\* others, was not written before either.
LEMMA LastWriter ==
  ASSUME NEW code, Len(code) \in Nat, \A k \in 1 .. Len(code) : IsInstruction(code[k]),
         NEW ks, NEW X, Idle(code, ks, X), NEW k \in (1 .. Len(code)) \ ks, NEW r \in Used(code[k]),
         \A j \in 1 .. k - 1 : j \notin ks => r \notin Overwritten(code[j])
  PROVE  \A j \in 1 .. k - 1 : r \notin Overwritten(code[j])
<1> SUFFICES ASSUME NEW i \in 1 .. k - 1, r \in Overwritten(code[i]) PROVE FALSE
  OBVIOUS
<1> DEFINE B == {x \in 1 .. k - 1 : r \in Overwritten(code[k - x])}
<1>1. k - i \in B /\ B \in SUBSET Nat
  <2>1. k - (k - i) = i /\ k - i \in 1 .. k - 1
    OBVIOUS
  <2> QED BY <2>1
<1>2. PICK x \in B : \A y \in B : x <= y
  <2> HIDE DEF B
  <2> QED BY <1>1, LeastNumber
<1> PICK d : d = k - x
  OBVIOUS
<1>3. d \in 1 .. k - 1 /\ k - d = x /\ r \in Overwritten(code[d])
  BY <1>2
<1>4. \A j \in d + 1 .. k - 1 : r \notin Overwritten(code[j])
  <2> SUFFICES ASSUME NEW j \in d + 1 .. k - 1, r \in Overwritten(code[j]) PROVE FALSE
    OBVIOUS
  <2>1. k - (k - j) = j /\ k - j \in 1 .. k - 1 /\ k - j < x
    BY <1>3
  <2>2. k - j \in B
    BY <2>1
  <2>3. x <= k - j
    BY <1>2, <2>2
  <2> QED BY ONLY <1>3, <2>1, <2>3, x \in B, B \in SUBSET Nat, <1>1
<1>5. d \in ks
  BY <1>3
<1>6. IsInstruction(code[d]) /\ Silent(code[d])
  BY <1>3, <1>5 DEF Idle
<1>7. r = code[d][2]
  BY <1>3, <1>6 DEF Silent, Overwritten
<1>8. k \in d + 1 .. Len(code)
  BY <1>3
<1> QED BY <1>4, <1>5, <1>7, <1>8 DEF Idle

\* Function q is p without the instructions at ks of block b, which ran in step with
\* orig as Q says.
Without(q, p, b, ks, X, Q, orig) ==
  LET code == p.code[b]
  IN  /\ IsFunction(q) /\ q.dest = p.dest /\ q.src = p.src /\ q.code[b] = Delete(code, ks)
      /\ Len(Delete(code, ks)) = Len(code)
      /\ \A c \in Block : c # b => q.code[c] = p.code[c]
      /\ Less(q, p, b) /\ BlockWrites(p, b) \subseteq BlockWrites(q, b) \cup X
      /\ \E T : /\ InStep(T, Delete(code, ks), orig) /\ T[1] = Q[1]
                /\ \A k \in 1 .. Len(code) + 1 : \A y \in T[k] : \E x \in Q[k] :
                     x[1] = y[1] /\ Agree(Reg \ Stale(code, ks, k), x[2], y[2])

\* Such instructions may be left out.
LEMMA LeftOut ==
  ASSUME NEW p, IsFunction(p), NEW b \in Block, NEW ks, NEW X \in SUBSET Reg,
         Idle(p.code[b], ks, X), NEW Q, NEW orig, InStep(Q, p.code[b], orig)
  PROVE  Without(Changed(p, b, Delete(p.code[b], ks)), p, b, ks, X, Q, orig)
<1> PICK code, q : code = p.code[b] /\ q = Changed(p, b, Delete(code, ks))
  OBVIOUS
<1>0. Idle(code, ks, X) /\ InStep(Q, code, orig)
  OBVIOUS
<1> PICK n, new : n = Len(code) /\ new = Delete(code, ks)
  OBVIOUS
<1> DEFINE A == [k \in 1 .. Width + 1 |-> Reg \ Stale(code, ks, k)]
<1>1. /\ n \in Nat /\ n <= Width /\ DOMAIN code = 1 .. n
      /\ \A k \in 1 .. n : IsInstruction(code[k])
  BY ProgramFacts
<1>2. /\ Stale(code, ks, 1) = {} /\ Stale(code, ks, n + 1) \subseteq X
      /\ \A k \in 1 .. n :
           IF k \in ks THEN Stale(code, ks, k) \cup {code[k][2]} \subseteq Stale(code, ks, k + 1)
           ELSE /\ Used(code[k]) \cap Stale(code, ks, k) = {}
                /\ Stale(code, ks, k) \subseteq Stale(code, ks, k + 1) \cup Overwritten(code[k])
  BY <1>0, <1>1, StaleFacts
<1>3. new = [k \in 1 .. n |-> IF k \in ks THEN Nop ELSE code[k]]
  BY <1>1 DEF Delete
<1>4. Len(new) = n /\ DOMAIN new = 1 .. n
  BY <1>1, <1>3
<1>5. Overwritten(Nop) = {} /\ Used(Nop) = {} /\ IsInstruction(Nop)
  BY DEF Nop, Overwritten, Used, IsInstruction, WellFormed
<1>6. \A k \in 1 .. n : /\ k \in ks => new[k] = Nop
                        /\ k \notin ks => new[k] = code[k]
                        /\ IsInstruction(new[k])
                        /\ Overwritten(new[k]) \subseteq Overwritten(code[k])
                        /\ Used(new[k]) \subseteq Used(code[k])
  BY <1>1, <1>3, <1>5
<1>7. /\ IsFunction(q) /\ q.dest = p.dest /\ q.src = p.src /\ q.code[b] = new
      /\ \A c \in Block : c # b => q.code[c] = p.code[c]
  <2>1. /\ IsFunction(p) /\ b \in Block /\ q = Changed(p, b, new)
        /\ Len(new) = Len(p.code[b]) /\ DOMAIN new = 1 .. Len(new)
        /\ \A k \in 1 .. Len(new) : IsInstruction(new[k])
    BY <1>4, <1>6
  <2>2. /\ Changed(p, b, new).dest = p.dest /\ Changed(p, b, new).src = p.src
        /\ Changed(p, b, new).code[b] = new
        /\ \A c \in Block : c # b => Changed(p, b, new).code[c] = p.code[c]
    BY ONLY <2>1, ChangedFacts
  <2>3. IsFunction(Changed(p, b, new))
    BY ONLY <2>1, ChangedFacts
  <2> QED BY ONLY <2>1, <2>2, <2>3
<1>8. /\ \A r : r \in BlockUses(q, b) <=>
           \E k \in 1 .. n : r \in Used(new[k]) /\ \A j \in 1 .. k - 1 : r \notin Overwritten(new[j])
      /\ \A r : r \in BlockWrites(q, b) <=> \E k \in 1 .. n : r \in Overwritten(new[k])
      /\ \A r : r \in BlockUses(p, b) <=>
           \E k \in 1 .. n : r \in Used(code[k]) /\ \A j \in 1 .. k - 1 : r \notin Overwritten(code[j])
      /\ \A r : r \in BlockWrites(p, b) <=> \E k \in 1 .. n : r \in Overwritten(code[k])
  <2>1. \A u, r : IsFunction(u) =>
          /\ r \in BlockUses(u, b) <=>
               \E k \in 1 .. Len(u.code[b]) : r \in Used(u.code[b][k])
                 /\ \A j \in 1 .. k - 1 : r \notin Overwritten(u.code[b][j])
          /\ r \in BlockWrites(u, b) <=> \E k \in 1 .. Len(u.code[b]) : r \in Overwritten(u.code[b][k])
    BY ONLY b \in Block, UsesFacts
  <2>2. p.code[b] = code /\ q.code[b] = new /\ Len(code) = n /\ Len(new) = n /\ IsFunction(p) /\ IsFunction(q)
    BY <1>4, <1>7
  <2>3. /\ \A r : r \in BlockUses(q, b) <=>
           \E k \in 1 .. n : r \in Used(new[k]) /\ \A j \in 1 .. k - 1 : r \notin Overwritten(new[j])
        /\ \A r : r \in BlockWrites(q, b) <=> \E k \in 1 .. n : r \in Overwritten(new[k])
    BY ONLY <2>1, <2>2
  <2>4. /\ \A r : r \in BlockUses(p, b) <=>
           \E k \in 1 .. n : r \in Used(code[k]) /\ \A j \in 1 .. k - 1 : r \notin Overwritten(code[j])
        /\ \A r : r \in BlockWrites(p, b) <=> \E k \in 1 .. n : r \in Overwritten(code[k])
    BY ONLY <2>1, <2>2
  <2> QED BY ONLY <2>3, <2>4
<1>9. BlockUses(q, b) \subseteq BlockUses(p, b)
  <2> SUFFICES ASSUME NEW r \in BlockUses(q, b) PROVE r \in BlockUses(p, b)
    OBVIOUS
  <2>1. PICK k \in 1 .. n : r \in Used(new[k]) /\ \A j \in 1 .. k - 1 : r \notin Overwritten(new[j])
    BY <1>8
  <2>2. k \notin ks /\ r \in Used(code[k])
    BY <1>5, <1>6, <2>1
  <2>3. \A j \in 1 .. k - 1 : j \notin ks => r \notin Overwritten(code[j])
    BY <1>1, <1>6, <2>1
  <2>4. \A j \in 1 .. k - 1 : r \notin Overwritten(code[j])
    BY <1>1, <2>2, <2>3, <1>0, LastWriter
  <2> QED BY <1>0, <1>8, <2>2, <2>4
<1>10. BlockWrites(q, b) \subseteq BlockWrites(p, b)
  BY <1>6, <1>8
<1>11. BlockWrites(p, b) \subseteq BlockWrites(q, b) \cup X
  <2> SUFFICES ASSUME NEW r \in BlockWrites(p, b), r \notin X PROVE r \in BlockWrites(q, b)
    OBVIOUS
  <2>1. PICK k \in 1 .. n : r \in Overwritten(code[k])
    BY <1>8
  <2>2. CASE k \notin ks
    BY <1>6, <1>8, <2>1, <2>2
  <2>3. CASE k \in ks
    <3>1. r = code[k][2]
      BY <2>1, <2>3 DEF Idle, Silent, Overwritten
    <3>2. PICK j \in (k + 1 .. n) \ ks : r \in Overwritten(code[j])
      BY <1>0, <2>3, <3>1 DEF Idle
    <3> QED BY <1>1, <1>6, <1>8, <3>2
  <2> QED BY <2>2, <2>3
<1>12. InStep(Loose(Q, A), new, orig)
  <2>1. A \in [1 .. Width + 1 -> SUBSET Reg]
    OBVIOUS
  <2>2. ASSUME NEW k \in 1 .. n
        PROVE  \/ /\ new[k] = code[k] /\ Used(code[k]) \subseteq A[k]
                  /\ A[k + 1] \subseteq A[k] \cup Overwritten(code[k])
               \/ /\ new[k] = Nop /\ Silent(code[k])
                  /\ A[k + 1] \subseteq A[k] \ {code[k][2]}
    <3>1. A[k] = Reg \ Stale(code, ks, k) /\ A[k + 1] = Reg \ Stale(code, ks, k + 1)
      BY <1>1, BlockAssumption
    <3> HIDE DEF A
    <3>2. CASE k \in ks
      BY <1>0, <1>2, <1>6, <3>1, <3>2 DEF Idle
    <3>3. CASE k \notin ks
      <4>1. Used(code[k]) \subseteq Reg
        BY <1>1, InstrRegs
      <4> QED BY <1>2, <1>6, <3>1, <3>3, <4>1
    <3> QED BY <3>2, <3>3
  <2> HIDE DEF A
  <2>3. Len(new) = Len(code) /\ n = Len(code) /\ InStep(Q, code, orig)
    BY <1>0, <1>4
  <2> QED BY ONLY <2>1, <2>2, <2>3, Loosened
<1>13. \A k \in 1 .. n + 1 : /\ A[k] = Reg \ Stale(code, ks, k)
                             /\ Loose(Q, A)[k] = {y \in Same : \E x \in Q[k] : x[1] = y[1] /\ Agree(A[k], x[2], y[2])}
  <2>1. \A k \in 1 .. n + 1 : k \in 1 .. Width + 1
    BY <1>1, BlockAssumption
  <2>2. \A k \in 1 .. n + 1 : A[k] = Reg \ Stale(code, ks, k)
    BY <2>1
  <2> HIDE DEF A
  <2>3. \A k \in 1 .. n + 1 :
          Loose(Q, A)[k] = {y \in Same : \E x \in Q[k] : x[1] = y[1] /\ Agree(A[k], x[2], y[2])}
    BY <2>1 DEF Loose
  <2> QED BY <2>2, <2>3
<1>14. Loose(Q, A)[1] = Q[1]
  <2>1. 1 \in 1 .. n + 1 /\ 1 \in 1 .. Width + 1 /\ A[1] = Reg
    BY <1>1, <1>2, <1>13, BlockAssumption
  <2>2. Q[1] \in SUBSET Same
    BY <1>0, <2>1 DEF InStep
  <2> HIDE DEF A
  <2>3. Loose(Q, A)[1] = {y \in Same : \E x \in Q[1] : x[1] = y[1] /\ Agree(Reg, x[2], y[2])}
    BY <1>13, <2>1
  <2>4. ASSUME NEW y \in Same, NEW x \in Same, x[1] = y[1], Agree(Reg, x[2], y[2])
        PROVE  x = y
    <3>1. x[2] \in Machine /\ y[2] \in Machine /\ x = <<x[1], x[2]>> /\ y = <<y[1], y[2]>>
      BY DEF Same
    <3> QED BY <2>4, <3>1, AgreeOnAll
  <2>5. \A y : Agree(Reg, y, y)
    BY DEF Agree
  <2> QED BY <2>2, <2>3, <2>4, <2>5
<1>15. \A k \in 1 .. n + 1 : \A y \in Loose(Q, A)[k] : \E x \in Q[k] :
         x[1] = y[1] /\ Agree(Reg \ Stale(code, ks, k), x[2], y[2])
  <2> HIDE DEF A
  <2>1. ASSUME NEW k \in 1 .. n + 1, NEW y \in Loose(Q, A)[k]
        PROVE  \E x \in Q[k] : x[1] = y[1] /\ Agree(Reg \ Stale(code, ks, k), x[2], y[2])
    <3>1. \E x \in Q[k] : x[1] = y[1] /\ Agree(A[k], x[2], y[2])
      BY <1>13, <2>1
    <3> QED BY <1>13, <3>1
  <2> QED BY <2>1
<1> HIDE DEF A
<1> QED BY <1>4, <1>7, <1>9, <1>10, <1>11, <1>12, <1>14, <1>15 DEF Less, Without

\* A block that control comes back to belongs to a loop.
LEMMA OnCycle ==
  ASSUME NEW p, IsFunction(p), NEW b \in Block, NEW G \in [Block -> SUBSET Block],
         \A c \in Block : G[c] \subseteq ToSet(p.dest[c]),
         NEW s \in ReachedFrom({b}, G), b \in ToSet(p.dest[s])
  PROVE  \E h \in Block : b \in LoopBlocks(p, h)
<1> DEFINE F == [c \in Block |-> ToSet(p.dest[c])]
           R(x) == ReachedFrom({x}, F)
           C == {x \in R(b) : b \in R(x)}
<1>1. /\ \A c \in Block : F[c] = ToSet(p.dest[c]) /\ ToSet(p.dest[c]) \in SUBSET Block
      /\ F \in Graph(Block)
  BY ProgramFacts DEF Graph
<1>2. IsFiniteSet(Block) /\ Block \in SUBSET Nat
  BY BlockAssumption, FS_Interval DEF Block
<1> HIDE DEF F
<1>3. \A x \in Block : /\ R(x) \in SUBSET Block /\ x \in R(x)
                       /\ \A y \in R(x) : F[y] \subseteq R(x)
                       /\ \A D \in SUBSET Block : x \in D /\ (\A y \in D : F[y] \subseteq D) => R(x) \subseteq D
  <2>1. ASSUME NEW x \in Block
        PROVE  /\ R(x) \in SUBSET Block /\ {x} \subseteq R(x) /\ Closed(R(x), F)
               /\ \A D \in SUBSET Block : {x} \subseteq D /\ Closed(D, F) => R(x) \subseteq D
    <3>1. {x} \in SUBSET Block /\ F \in Graph(Block) /\ IsFiniteSet(Block)
      BY <1>1, <1>2
    <3>2. /\ ReachedFrom({x}, F) \in SUBSET Block /\ {x} \subseteq ReachedFrom({x}, F)
          /\ Closed(ReachedFrom({x}, F), F)
          /\ \A D \in SUBSET Block : {x} \subseteq D /\ Closed(D, F) => ReachedFrom({x}, F) \subseteq D
      BY ONLY <3>1, ReachedFacts
    <3> QED BY <3>2
  <2> HIDE DEF R
  <2> QED BY <2>1 DEF Closed
<1> HIDE DEF R
<1>4. s \in R(b)
  <2>1. G \in Graph(Block) /\ {b} \in SUBSET Block
    BY DEF Graph
  <2>2. /\ R(b) \in SUBSET Block /\ {b} \subseteq R(b) /\ Closed(R(b), G)
    BY <1>1, <1>3 DEF Closed
  <2>3. ReachedFrom({b}, G) \subseteq R(b)
    BY <1>2, <2>1, <2>2, ReachedFacts
  <2> QED BY <2>3
<1>5. \A x \in Block : \A y \in R(b) : b \in R(y) /\ y \in F[x] => b \in R(x)
  <2> SUFFICES ASSUME NEW x \in Block, NEW y \in R(b), b \in R(y), y \in F[x] PROVE b \in R(x)
    OBVIOUS
  <2>1. y \in R(x) /\ R(x) \in SUBSET Block /\ y \in Block
    BY <1>3
  <2>2. R(y) \subseteq R(x)
    BY <1>3, <2>1
  <2> QED BY <2>2
<1>6. b \in C /\ s \in C /\ C \in SUBSET Block /\ s \in Block
  <2>1. b \in R(b) /\ R(b) \in SUBSET Block
    BY <1>3
  <2>2. s \in Block /\ b \in F[s]
    BY <1>1, <1>4, <2>1
  <2>3. b \in R(s)
    BY <1>5, <2>1, <2>2
  <2> QED BY <1>4, <2>1, <2>2, <2>3
<1>7. PICK h \in C : \A x \in C : h <= x
  <2>1. C \in SUBSET Nat /\ C # {}
    BY <1>2, <1>6
  <2> HIDE DEF C
  <2> QED BY <2>1, LeastNumber
<1>8. h \in Block /\ h \in R(b) /\ b \in R(h)
  BY <1>6, <1>7
<1> DEFINE K == LoopBlocks(p, h)
<1>9. /\ K \in SUBSET Block
      /\ \A x \in Preds(p, h) : h <= x => x \in K
      /\ \A x \in K : x # h => Preds(p, x) \subseteq K
  <2>1. LoopSources(p, h) \subseteq K
    BY <1>8, LoopFacts
  <2>2. \A x \in Preds(p, h) : h <= x => x \in LoopSources(p, h)
    BY DEF LoopSources
  <2> QED BY <1>8, <2>1, <2>2, LoopFacts
<1> HIDE DEF K
<1>10. \A x, y \in Block : y \in F[x] => x \in Preds(p, y)
  BY <1>1, ProgramFacts
<1>11. \A x \in Block : h \in F[x] /\ x \in R(b) => x \in K
  <2> SUFFICES ASSUME NEW x \in Block, h \in F[x], x \in R(b) PROVE x \in K
    OBVIOUS
  <2>1. x \in C
    BY <1>5, <1>8
  <2> QED BY <1>7, <1>8, <1>9, <1>10, <2>1
<1>12. CASE b = h
  <2> SUFFICES ASSUME b \notin K PROVE FALSE
    BY <1>8 DEF K
  <2> DEFINE D == Block \ K
  <2>1. s \in K
    BY <1>1, <1>4, <1>6, <1>11, <1>12
  <2>2. \A x \in D : F[x] \subseteq D
    <3> SUFFICES ASSUME NEW x \in D, NEW y \in F[x], y \in K PROVE FALSE
      BY <1>1
    <3>1. y # h /\ y \in Block /\ x \in Block
      BY <1>9, <1>12
    <3> QED BY <1>9, <1>10, <3>1
  <2>3. R(b) \subseteq D
    BY <1>3, <2>2
  <2> QED BY <1>4, <2>1, <2>3
<1>13. CASE b # h
  <2> SUFFICES ASSUME b \notin K PROVE FALSE
    BY <1>8 DEF K
  <2> DEFINE D == {x \in R(b) : x \notin K /\ x # h}
  <2>1. D \in SUBSET Block /\ b \in D
    BY <1>3, <1>13
  <2>2. \A x \in D : F[x] \subseteq D
    <3> SUFFICES ASSUME NEW x \in D, NEW y \in F[x], y \notin D PROVE FALSE
      OBVIOUS
    <3>1. x \in R(b) /\ x \in Block /\ x \notin K
      BY <2>1
    <3>2. y \in R(b) /\ y \in Block
      BY <1>1, <1>3, <3>1
    <3>3. CASE y = h
      BY <1>11, <3>1, <3>3
    <3>4. CASE y # h
      BY <1>9, <1>10, <3>1, <3>2, <3>4
    <3> QED BY <3>3, <3>4
  <2>3. R(b) \subseteq D
    <3> HIDE DEF D
    <3> QED BY ONLY <1>3, <2>1, <2>2
  <2> QED BY <1>8, <2>3
<1> QED BY <1>12, <1>13

\* What block b of function p reads and writes in a loop, the next reads as well.
Carried(p, b) ==
  \A h \in Block : b \in LoopBlocks(p, h) =>
    \A r \in BlockWrites(p, b) \cap BlockUses(p, b) :
      \E d \in ToSet(p.dest[b]) \ {b} : r \in BlockUses(p, d)

\* That stays so when block b reads and writes less.
LEMMA CarriedLess ==
  ASSUME NEW p, NEW q, NEW b \in Block, Carried(p, b), Less(q, p, b), q.dest = p.dest, q.src = p.src,
         \A c \in Block : c # b => q.code[c] = p.code[c],
         \A d \in ToSet(p.dest[b]) : d \in Block
  PROVE  Carried(q, b)
<1>1. \A h : LoopBlocks(q, h) = LoopBlocks(p, h)
  BY DEF LoopBlocks, LoopSources, Preds
<1>2. \A d \in Block : d # b => BlockUses(q, d) = BlockUses(p, d)
  BY DEF BlockUses
<1>3. BlockWrites(q, b) \cap BlockUses(q, b) \subseteq BlockWrites(p, b) \cap BlockUses(p, b)
  BY DEF Less
<1>4. ASSUME NEW h \in Block, b \in LoopBlocks(q, h), NEW r \in BlockWrites(q, b) \cap BlockUses(q, b)
      PROVE  \E d \in ToSet(q.dest[b]) \ {b} : r \in BlockUses(q, d)
  <2>1. PICK d \in ToSet(p.dest[b]) \ {b} : r \in BlockUses(p, d)
    BY <1>1, <1>3, <1>4 DEF Carried
  <2> QED BY <1>2, <2>1
<1> QED BY <1>4 DEF Carried

\* What is on record of the other blocks is what they read and write.
Recorded(p) ==
  \A c \in Block : c # blk => uses[c] = BlockUses(p, c) /\ writes[c] = BlockWrites(p, c)

\* The blocks that control comes to from the current one before register r is read or
\* written, the last ones included.
Passed(r) == ReachedFrom({blk}, Through(r))
Ahead(r) == UNION {ToSet(prog.dest[s]) : s \in Passed(r)}

\* They do not read it, if optimize_checkdestusage finds nothing.
LEMMA AheadFacts ==
  ASSUME blk \in Block, NEW p, IsFunction(p), p.dest = prog.dest, Recorded(p), NEW r,
         ~CheckDestUsage(blk, r)
  PROVE  /\ Ahead(r) \in SUBSET Block /\ ToSet(p.dest[blk]) \subseteq Ahead(r)
         /\ \A c \in Ahead(r) : c # blk =>
              /\ r \notin BlockUses(p, c)
              /\ r \notin BlockWrites(p, c) => ToSet(p.dest[c]) \subseteq Ahead(r)
         /\ \A d \in ToSet(p.dest[blk]) : d # blk => r \notin BlockUses(p, d)
         /\ blk \in Ahead(r) => \E h \in Block : blk \in LoopBlocks(p, h)
<1> DEFINE G == Through(r)
<1>1. \A c \in Block : ToSet(p.dest[c]) \in SUBSET Block
  BY ProgramFacts
<1>2. /\ G \in [Block -> SUBSET Block]
      /\ \A c \in Block : G[c] = {d \in ToSet(p.dest[c]) : r \notin uses[d] \cup writes[d]}
  BY <1>1 DEF Through
<1> HIDE DEF G
<1>3. /\ Passed(r) \in SUBSET Block /\ blk \in Passed(r)
      /\ \A c \in Passed(r) : G[c] \subseteq Passed(r)
  <2>1. G \in Graph(Block) /\ IsFiniteSet(Block) /\ {blk} \in SUBSET Block
    BY <1>2, BlockAssumption, FS_Interval DEF Graph, Block
  <2>2. /\ ReachedFrom({blk}, G) \in SUBSET Block /\ {blk} \subseteq ReachedFrom({blk}, G)
        /\ Closed(ReachedFrom({blk}, G), G)
    BY ONLY <2>1, ReachedFacts
  <2> QED BY <2>2 DEF Passed, Closed, G
<1>4. \A s \in Passed(r) : \A d \in ToSet(p.dest[s]) : d \in Block /\ d \in Ahead(r) /\ (d # blk => r \notin uses[d])
  <2>1. \A s \in Passed(r) : \A d \in ToSet(p.dest[s]) : d # blk => r \notin uses[d]
    BY DEF CheckDestUsage, Passed
  <2> QED BY <1>1, <1>3, <2>1 DEF Ahead
<1>5. \A c \in Ahead(r) : c \in Block /\ \E s \in Passed(r) : c \in ToSet(p.dest[s])
  BY <1>4 DEF Ahead
<1>6. ASSUME NEW c \in Ahead(r), c # blk
      PROVE  /\ r \notin BlockUses(p, c)
             /\ r \notin BlockWrites(p, c) => ToSet(p.dest[c]) \subseteq Ahead(r)
  <2>1. PICK s \in Passed(r) : c \in ToSet(p.dest[s])
    BY <1>5
  <2>2. c \in Block /\ s \in Block /\ r \notin uses[c]
    BY <1>3, <1>4, <1>6, <2>1
  <2>3. uses[c] = BlockUses(p, c) /\ writes[c] = BlockWrites(p, c)
    BY <1>6, <2>2 DEF Recorded
  <2>4. r \notin BlockWrites(p, c) => c \in Passed(r)
    BY <1>2, <1>3, <2>1, <2>2, <2>3
  <2> QED BY <1>4, <2>2, <2>3, <2>4
<1>7. ASSUME NEW d \in ToSet(p.dest[blk]), d # blk
      PROVE  r \notin BlockUses(p, d)
  BY <1>3, <1>4, <1>6, <1>7
<1>8. ASSUME blk \in Ahead(r)
      PROVE  \E h \in Block : blk \in LoopBlocks(p, h)
  <2>1. PICK s \in Passed(r) : blk \in ToSet(p.dest[s])
    BY <1>5, <1>8
  <2>2. s \in ReachedFrom({blk}, G)
    BY DEF Passed, G
  <2>3. \A c \in Block : G[c] \subseteq ToSet(p.dest[c])
    BY <1>2
  <2> QED BY <1>2, <2>1, <2>2, <2>3, OnCycle
<1> QED BY <1>3, <1>4, <1>5, <1>6, <1>7, <1>8

\* What is left of what holds before and after instructions have been deleted.
Spared(R, p, ks, compiled) ==
  \E T, M :
    /\ Good(T, M, Changed(p, blk, Delete(p.code[blk], ks)), compiled)
    /\ \A c \in Block : T[c][1] = R[c][1]
    /\ \A k \in 1 .. Len(p.code[blk]) + 1 : \A y \in T[blk][k] : \E x \in R[blk][k] :
         x[1] = y[1] /\ Agree(Reg \ Stale(p.code[blk], ks, k), x[2], y[2])

\* Stores are left out of the current block. Those of registers outside X are made
\* again there, and those of X nobody reads.
LEMMA Deleted ==
  ASSUME blk \in Block, NEW p, IsFunction(p), p.dest = prog.dest, Recorded(p), Carried(p, blk),
         NEW R, NEW L, NEW compiled, Good(R, L, p, compiled), NEW ks,
         NEW X \in SUBSET BlockWrites(p, blk), Idle(p.code[blk], ks, X),
         \A r \in X : ~CheckDestUsage(blk, r)
  PROVE  Spared(R, p, ks, compiled)
<1> PICK code, q : code = p.code[blk] /\ q = Changed(p, blk, Delete(code, ks))
  OBVIOUS
<1> DEFINE M == [c \in Block |-> {r \in L[c] : r \in X => c \notin Ahead(r)}]
<1> PICK new, n : new = Delete(code, ks) /\ n = Len(code)
  OBVIOUS
<1>1. /\ n \in Nat /\ DOMAIN code = 1 .. n /\ \A k \in 1 .. n : IsInstruction(code[k])
      /\ \A c \in Block : ToSet(p.dest[c]) \in SUBSET Block
  BY ProgramFacts
<1>2. X \in SUBSET Reg
  <2>1. \A k \in DOMAIN code : Overwritten(code[k]) \subseteq Reg
    BY <1>1, InstrRegs
  <2> QED BY <2>1 DEF BlockWrites
<1>3. /\ L \in [Block -> SUBSET Reg] /\ InStep(R[blk], code, compiled[blk])
      /\ R \in [Block -> [1 .. Width + 1 -> SUBSET Same]]
      /\ \A c \in Block : /\ BlockUses(p, c) \subseteq L[c]
                          /\ \A d \in ToSet(p.dest[c]) : L[d] \ BlockWrites(p, c) \subseteq L[c]
  BY DEF Good, Covers
<1>0. Without(q, p, blk, ks, X, R[blk], compiled[blk])
  BY <1>2, <1>3, LeftOut
<1>4. /\ IsFunction(q) /\ q.dest = p.dest /\ q.src = p.src /\ q.code[blk] = new /\ Len(new) = n
      /\ \A c \in Block : c # blk => q.code[c] = p.code[c]
      /\ Less(q, p, blk) /\ BlockWrites(p, blk) \subseteq BlockWrites(q, blk) \cup X
  BY <1>0 DEF Without
<1>5. PICK Q : /\ InStep(Q, new, compiled[blk]) /\ Q[1] = R[blk][1]
               /\ \A k \in 1 .. n + 1 : \A y \in Q[k] : \E x \in R[blk][k] :
                    x[1] = y[1] /\ Agree(Reg \ Stale(code, ks, k), x[2], y[2])
  BY <1>0 DEF Without
<1>6. \A c \in Block : c # blk => BlockUses(q, c) = BlockUses(p, c) /\ BlockWrites(q, c) = BlockWrites(p, c)
  BY <1>4 DEF BlockUses, BlockWrites
<1>7. \A r \in X :
        /\ Ahead(r) \in SUBSET Block /\ ToSet(p.dest[blk]) \subseteq Ahead(r)
        /\ \A c \in Ahead(r) : c # blk =>
             /\ r \notin BlockUses(p, c)
             /\ r \notin BlockWrites(p, c) => ToSet(p.dest[c]) \subseteq Ahead(r)
        /\ \A d \in ToSet(p.dest[blk]) : d # blk => r \notin BlockUses(p, d)
        /\ blk \in Ahead(r) => \E h \in Block : blk \in LoopBlocks(p, h)
  BY AheadFacts
<1>8. \A r \in X : blk \in Ahead(r) => r \notin BlockUses(q, blk)
  <2> SUFFICES ASSUME NEW r \in X, blk \in Ahead(r), r \in BlockUses(p, blk) PROVE FALSE
    BY <1>4 DEF Less
  <2>1. PICK h \in Block : blk \in LoopBlocks(p, h)
    BY <1>7
  <2>2. PICK d \in ToSet(p.dest[blk]) \ {blk} : r \in BlockUses(p, d)
    BY <2>1 DEF Carried
  <2> QED BY <1>7, <2>2
<1>9. \A c \in Block : \A r : r \in M[c] <=> r \in L[c] /\ (r \in X => c \notin Ahead(r))
  OBVIOUS
<1>10. M \in [Block -> SUBSET Reg]
  BY <1>3
<1> HIDE DEF M
<1>11. ASSUME NEW c \in Block
       PROVE  /\ BlockUses(q, c) \subseteq M[c]
              /\ \A d \in ToSet(q.dest[c]) : M[d] \ BlockWrites(q, c) \subseteq M[c]
  <2>1. CASE c = blk
    <3>1. BlockUses(q, c) \subseteq M[c]
      BY <1>3, <1>4, <1>8, <1>9, <2>1 DEF Less
    <3>2. ASSUME NEW d \in ToSet(q.dest[c]), NEW r \in M[d] \ BlockWrites(q, c)
          PROVE  r \in M[c]
      <4>1. d \in Block /\ d \in ToSet(p.dest[blk])
        BY <1>1, <1>4, <2>1, <3>2
      <4>2. r \notin X /\ r \in L[d]
        BY <1>7, <1>9, <3>2, <4>1
      <4>3. r \in L[blk]
        BY <1>3, <1>4, <2>1, <3>2, <4>1, <4>2
      <4> QED BY <1>9, <2>1, <4>2, <4>3
    <3> QED BY <3>1, <3>2
  <2>2. CASE c # blk
    <3>1. BlockUses(q, c) \subseteq M[c]
      BY <1>3, <1>6, <1>7, <1>9, <2>2
    <3>2. ASSUME NEW d \in ToSet(q.dest[c]), NEW r \in M[d] \ BlockWrites(q, c)
          PROVE  r \in M[c]
      <4>1. d \in Block /\ d \in ToSet(p.dest[c])
        BY <1>1, <1>4, <3>2
      <4>2. r \in L[d] /\ (r \in X => d \notin Ahead(r))
        BY <1>9, <3>2, <4>1
      <4>3. r \in L[c] /\ r \notin BlockWrites(p, c)
        BY <1>3, <1>6, <2>2, <3>2, <4>1, <4>2
      <4>4. r \in X => c \notin Ahead(r)
        BY <1>7, <2>2, <4>1, <4>2, <4>3
      <4> QED BY <1>9, <4>3, <4>4
    <3> QED BY <3>1, <3>2
  <2> QED BY <2>1, <2>2
<1>12. Covers(M, q)
  BY <1>10, <1>11 DEF Covers
<1>13. ASSUME NEW y \in Q[n + 1]
       PROVE  \E x \in R[blk][n + 1] : x[1] = y[1] /\ \A d \in ToSet(p.dest[blk]) : Agree(M[d], x[2], y[2])
  <2>1. n + 1 \in 1 .. n + 1
    BY <1>1
  <2>2. PICK x \in R[blk][n + 1] : x[1] = y[1] /\ Agree(Reg \ Stale(code, ks, n + 1), x[2], y[2])
    BY <1>5, <2>1
  <2>3. Stale(code, ks, n + 1) \subseteq X
    BY <1>1, StaleFacts
  <2>4. \A d \in ToSet(p.dest[blk]) : M[d] \subseteq Reg \ Stale(code, ks, n + 1)
    <3>1. \A d \in ToSet(p.dest[blk]) : d \in Block /\ M[d] \subseteq Reg
      BY <1>1, <1>10
    <3> QED BY <1>7, <1>9, <2>3, <3>1
  <2> QED BY <2>2, <2>4 DEF Agree
<1> PICK T : T = [R EXCEPT ![blk] = Q]
  OBVIOUS
<1>14. Good(T, M, q, compiled)
  <2>1. \A c \in Block : M[c] \subseteq L[c]
    BY <1>9
  <2>2. q = Changed(p, blk, new) /\ n = Len(p.code[blk]) /\ Len(new) = Len(p.code[blk]) /\ Covers(M, Changed(p, blk, new))
    BY <1>4, <1>12
  <2>3. \A y \in Q[Len(new) + 1] : \E x \in R[blk][Len(new) + 1] :
          x[1] = y[1] /\ \A d \in ToSet(p.dest[blk]) : Agree(M[d], x[2], y[2])
    BY <1>4, <1>13
  <2>4. Good([R EXCEPT ![blk] = Q], M, Changed(p, blk, new), compiled)
    BY ONLY <1>5, <2>1, <2>2, <2>3, blk \in Block, IsFunction(p), Good(R, L, p, compiled), GoodChanged
  <2> QED BY <2>2, <2>4
<1>15. T[blk] = Q /\ \A c \in Block : T[c][1] = R[c][1]
  <2>1. T[blk] = Q /\ \A c \in Block : c # blk => T[c] = R[c]
    BY <1>3
  <2> QED BY <1>5, <2>1
<1>16. \A k \in 1 .. Len(code) + 1 : \A y \in T[blk][k] : \E x \in R[blk][k] :
         x[1] = y[1] /\ Agree(Reg \ Stale(code, ks, k), x[2], y[2])
  BY <1>5, <1>15
<1>17. \E S, N :
        /\ Good(S, N, q, compiled) /\ \A c \in Block : S[c][1] = R[c][1]
        /\ \A k \in 1 .. Len(code) + 1 : \A y \in S[blk][k] : \E x \in R[blk][k] :
             x[1] = y[1] /\ Agree(Reg \ Stale(code, ks, k), x[2], y[2])
  BY ONLY <1>14, <1>15, <1>16
<1> QED BY <1>17 DEF Spared

-----------------------------------------------------------------------------
(***************************************************************************)
(* What the facts still say of the part of a block that the walk has left *)
(* behind, once instructions of it are edited.                             *)
(***************************************************************************)
\* Instructions may be deleted that only facts that say nothing come from,
LEMMA DeletedWalked ==
  ASSUME NEW b, NEW code, NEW n \in 0 .. Len(code), NEW m, NEW rl, Walked(code, b, n, m, rl),
         DOMAIN code = 1 .. Len(code), Len(code) \in Nat, NEW ks, Len(Delete(code, ks)) = Len(code),
         \A d \in ks : \A r \in Reg :
           rl[r].iindx = PcOf(b, d) => rl[r].contents = "nofact" /\ rl[r].alias = NoReg
  PROVE  Walked(Delete(code, ks), b, n, m, rl)
<1> PICK new : new = Delete(code, ks)
  OBVIOUS
<1>1. \A k \in 1 .. Len(code) : new[k] = IF k \in ks THEN Nop ELSE code[k]
  BY DEF Delete
<1>2. Used(Nop) = {}
  BY DEF Used, Nop
<1>3. ASSUME NEW r \in Reg PROVE Placed(new, b, n, m, rl[r], r)
  <2>1. Placed(code, b, n, m, rl[r], r)
    BY DEF Walked
  <2>2. ASSUME NEW k \in 1 .. Len(new), rl[r].iindx = PcOf(b, k)
        PROVE  /\ k <= m
               /\ rl[r].contents # "nofact" =>
                    /\ k <= n /\ r \in Clobbered(new[k])
                    /\ rl[r].usage \in {"read", "readwritten"} \/ \A j \in k + 1 .. n : r \notin Used(new[j])
    <3>1. /\ k <= m /\ k \in 1 .. Len(code)
          /\ rl[r].contents # "nofact" =>
               /\ k <= n /\ r \in Clobbered(code[k])
               /\ rl[r].usage \in {"read", "readwritten"} \/ \A j \in k + 1 .. n : r \notin Used(code[j])
      BY <2>1, <2>2 DEF Placed
    <3>2. rl[r].contents # "nofact" => k \notin ks
      BY <2>2
    <3>3. \A j \in k + 1 .. n : j \in 1 .. Len(code)
      BY <3>1
    <3>4. \A j \in k + 1 .. n : r \notin Used(code[j]) => r \notin Used(new[j])
      BY <1>1, <1>2, <3>3
    <3> QED BY <1>1, <3>1, <3>2, <3>4
  <2>3. ASSUME rl[r].alias # NoReg
        PROVE  \E k \in 1 .. n : /\ rl[r].iindx = PcOf(b, k) /\ new[k][1] = "mov"
                                 /\ new[k][2] = r /\ new[k][3] = rl[r].alias
    <3>1. PICK k \in 1 .. n : /\ rl[r].iindx = PcOf(b, k) /\ code[k][1] = "mov"
                              /\ code[k][2] = r /\ code[k][3] = rl[r].alias
      BY <2>1, <2>3 DEF Placed
    <3>2. k \notin ks /\ k \in 1 .. Len(code)
      BY <2>3, <3>1
    <3> QED BY <1>1, <3>1, <3>2
  <2> QED BY <2>2, <2>3 DEF Placed
<1> QED BY <1>3 DEF Walked

\* and the next one may change.
LEMMA PatchedWalked ==
  ASSUME NEW b, NEW code, NEW n \in 0 .. Len(code) - 1, NEW rl, Walked(code, b, n, n, rl),
         DOMAIN code = 1 .. Len(code), Len(code) \in Nat, NEW new,
         Len(new) = Len(code), \A k \in 1 .. n : new[k] = code[k]
  PROVE  Walked(new, b, n, n, rl)
<1>1. \A k \in 1 .. Len(code) : \A x \in k + 1 .. n : x \in 1 .. n
  OBVIOUS
<1>2. ASSUME NEW r \in Reg PROVE Placed(new, b, n, n, rl[r], r)
  <2>1. Placed(code, b, n, n, rl[r], r)
    BY DEF Walked
  <2>2. \A k \in 1 .. Len(code) : k <= n => k \in 1 .. n
    OBVIOUS
  <2> QED BY <1>1, <2>1, <2>2 DEF Placed
<1> QED BY <1>2 DEF Walked

-----------------------------------------------------------------------------
(***************************************************************************)
(* What a strategy puts in the place of an instruction.                    *)
(***************************************************************************)
\* The registers that instruction i, an alias or a holder of what i loads speaks of.
Mentioned(rl, i, I, r) ==
  r \in Used(i) \/ (\E y \in Reg : rl[y].alias = r) \/ r \in Holders(rl, i, I)

\* Instruction j may replace i where the facts are rl.
StandsIn(rl, I, i, j) ==
  /\ IsInstruction(j) /\ WellFormed(j) /\ ~SelfCopy(j)
  /\ Overwritten(j) \subseteq Overwritten(i)
  /\ \A r \in Used(j) \cup (Overwritten(i) \ Overwritten(j)) : Mentioned(rl, i, I, r)
  /\ \A m \in Machine : Sound(rl, m) => Exec(m, j) = Exec(m, i) /\ Shows(m, j) = Shows(m, i)

LEMMA OriginalFrom ==
  ASSUME NEW rl \in RegInfoList, Acyclic(rl), NEW r \in Reg
  PROVE  LET x == FindOriginalRegister(rl, r)
         IN  x \in Reg /\ (x = r \/ \E y \in Reg : rl[y].alias = x)
<1> PICK x : x = FindOriginalRegister(rl, r)
  OBVIOUS
<1>1. x \in WalkEnds(rl, r)
  BY AcyclicEnds DEF FindOriginalRegister
<1>2. x \in Chain(rl, r) /\ x \in Reg
  BY <1>1 DEF WalkEnds, Chain
<1> DEFINE S == {r} \cup {z \in Reg : \E y \in Reg : rl[y].alias = z}
<1>3. S \in SUBSET Reg /\ r \in S /\ \A y \in S : rl[y].alias # NoReg => rl[y].alias \in S
  <2>1. \A y \in Reg : rl[y].alias \in Reg \cup {NoReg}
    BY DEF RegInfoList, RegInfo
  <2> QED BY <2>1
<1>4. x \in S
  <2> HIDE DEF S
  <2> QED BY <1>2, <1>3 DEF Chain
<1> QED BY <1>2, <1>4

LEMMA NopFacts ==
  /\ IsInstruction(Nop) /\ WellFormed(Nop) /\ ~SelfCopy(Nop) /\ Overwritten(Nop) = {} /\ Used(Nop) = {}
  /\ \A m : Exec(m, Nop) = m /\ Shows(m, Nop) = <<>>
<1> QED BY DEF IsInstruction, WellFormed, Nop, SelfCopy, Overwritten, Used, Exec, Shows

LEMMA FoldedStandsIn ==
  ASSUME NEW rl \in [Reg -> Ranged], NEW I, NEW i, WellFormed(i), Folds(rl, i)
  PROVE  StandsIn(rl, I, i, Folded(rl, i))
<1> PICK j : j = Folded(rl, i)
  OBVIOUS
<1>1. i[1] \in {"arith", "compare"} /\ i[2] \in Reg /\ i[3] \in Reg /\ i[4] \in Reg
  BY DEF Folds, WellFormed
<1>2. rl[i[3]].indx \in Val /\ rl[i[4]].indx \in Val
  <2>1. InRange(rl[i[3]]) /\ InRange(rl[i[4]])
    BY <1>1 DEF Ranged
  <2> QED BY <2>1 DEF Folds, IsConstant, InRange
<1>3. \E v \in Val : j = Lct(i[2], v)
  <2> DEFINE x == rl[i[3]].indx
             y == rl[i[4]].indx
  <2>1. Arith[x][y] \in Val /\ Compare[x][y] \in Val
    <3> HIDE DEF x, y
    <3>1. x \in Val /\ y \in Val
      BY <1>2 DEF x, y
    <3> QED BY <3>1, NumberAssumption
  <2> QED BY <2>1 DEF Folded
<1>4. /\ j[1] = "lct" /\ j[2] = i[2] /\ j[3] \in Val /\ j = <<j[1], j[2], j[3], j[4]>>
  BY <1>3 DEF Lct
<1>5. WellFormed(j) /\ IsInstruction(j) /\ ~SelfCopy(j)
  BY <1>1, <1>4 DEF WellFormed, IsInstruction, SelfCopy
<1>6. Overwritten(j) = {i[2]} /\ Overwritten(i) = {i[2]} /\ Used(j) = {}
  BY <1>1, <1>4 DEF Overwritten, Used
<1>7. ASSUME NEW m \in Machine, Sound(rl, m)
      PROVE  Exec(m, j) = Exec(m, i) /\ Shows(m, j) = Shows(m, i)
  <2>1. rl \in RegInfoList
    BY RangedFacts
  <2>2. Exec(m, j) = Exec(m, i)
    BY <1>7, <2>1, FoldedSound
  <2> QED BY <1>1, <1>4, <2>2 DEF Shows
<1> QED BY <1>5, <1>6, <1>7 DEF StandsIn

LEMMA ReplacedStandsIn ==
  ASSUME NEW rl \in [Reg -> Ranged], Acyclic(rl), NEW I, NEW i, WellFormed(i), IsInstruction(i)
  PROVE  StandsIn(rl, I, i, Replaced(rl, i))
<1> PICK new : new = [f \in 1..4 |-> IF f \in Reads(i) THEN FindOriginalRegister(rl, i[f]) ELSE i[f]]
  OBVIOUS
<1>0. rl \in RegInfoList
  BY RangedFacts
<1>1. \A f \in Reads(i) : f \in 2..4 /\ i[f] \in Reg /\ i[f] \in Used(i)
  BY DEF WellFormed, Reads, Used
<1>2. \A f \in Reads(i) : new[f] \in Reg /\ Mentioned(rl, i, I, new[f])
  <2> SUFFICES ASSUME NEW f \in Reads(i) PROVE new[f] \in Reg /\ Mentioned(rl, i, I, new[f])
    OBVIOUS
  <2>1. new[f] = FindOriginalRegister(rl, i[f]) /\ i[f] \in Reg /\ i[f] \in Used(i)
    BY <1>1
  <2>2. new[f] \in Reg /\ (new[f] = i[f] \/ \E y \in Reg : rl[y].alias = new[f])
    BY <1>0, <2>1, OriginalFrom
  <2> QED BY <2>1, <2>2 DEF Mentioned
<1>3. \A f \in 1..4 : f \in Reads(i) \/ new[f] = i[f]
  OBVIOUS
<1>4. new[1] = i[1] /\ new = <<new[1], new[2], new[3], new[4]>>
  <2>1. new[1] = i[1]
    BY <1>1, <1>3
  <2>2. new = [f \in 1 .. 4 |-> new[f]]
    OBVIOUS
  <2> QED BY <2>1, <2>2
<1>5. /\ WellFormed(new) /\ Overwritten(new) = Overwritten(i)
      /\ \A r \in Used(new) : Mentioned(rl, i, I, r)
  <2>1. CASE i[1] = "mov"
    <3>1. Reads(i) = {3} /\ new[2] = i[2] /\ i[2] \in Reg
      BY <1>3, <2>1 DEF Reads, WellFormed
    <3> QED BY <1>2, <1>4, <2>1, <3>1 DEF WellFormed, Overwritten, Used
  <2>2. CASE i[1] = "sup"
    <3>1. Reads(i) = {3} /\ new[2] = i[2] /\ i[2] \in Upv
      BY <1>3, <2>2 DEF Reads, WellFormed
    <3> QED BY <1>2, <1>4, <2>2, <3>1 DEF WellFormed, Overwritten, Used
  <2>3. CASE i[1] \in {"arith", "compare"}
    <3>1. Reads(i) = {3, 4} /\ new[2] = i[2] /\ i[2] \in Reg
      BY <1>3, <2>3 DEF Reads, WellFormed
    <3> QED BY <1>2, <1>4, <2>3, <3>1 DEF WellFormed, Overwritten, Used
  <2>4. CASE i[1] = "print"
    <3>1. Reads(i) = {2}
      BY <2>4 DEF Reads
    <3> QED BY <1>2, <1>4, <2>4, <3>1 DEF WellFormed, Overwritten, Used
  <2>5. CASE i[1] \in {"lct", "lgl", "lup", "nop"}
    <3>1. Reads(i) = {}
      BY <2>5 DEF Reads
    <3>2. new[2] = i[2] /\ new[3] = i[3]
      BY <1>3, <3>1
    <3> QED BY <1>4, <2>5, <3>2 DEF WellFormed, Overwritten, Used
  <2> QED BY <2>1, <2>2, <2>3, <2>4, <2>5 DEF WellFormed
<1>6. ASSUME NEW m \in Machine, Sound(rl, m)
      PROVE  /\ Exec(m, Replaced(rl, i)) = Exec(m, i)
             /\ Shows(m, new) = Shows(m, i)
  <2>1. \A f \in Reads(i) : WalkEnds(rl, i[f]) # {}
    BY <1>0, <1>1, AcyclicEnds
  <2>2. \A f \in Reads(i) : m.regs[new[f]] = m.regs[i[f]]
    BY <1>0, <1>1, <1>6, <2>1, OriginalSound
  <2>3. Exec(m, Replaced(rl, i)) = Exec(m, i)
    BY <1>0, <1>6, <2>1, ReplacedSound DEF Returning
  <2>4. CASE i[1] = "sup"
    <3>1. Reads(i) = {3}
      BY <2>4 DEF Reads
    <3> QED BY <1>4, <2>2, <2>3, <2>4, <3>1 DEF Shows
  <2>5. CASE i[1] = "print"
    <3>1. Reads(i) = {2}
      BY <2>5 DEF Reads
    <3> QED BY <1>4, <2>2, <2>3, <2>5, <3>1 DEF Shows
  <2>6. CASE i[1] \notin {"sup", "print"}
    <3>1. i[1] \notin {"sup", "print", "call"}
      BY <2>6 DEF WellFormed
    <3> QED BY <1>4, <2>3, <3>1 DEF Shows
  <2> QED BY <2>4, <2>5, <2>6
<1>7. CASE new[1] = "mov" /\ new[2] = new[3]
  <2>1. Replaced(rl, i) = Nop
    BY <1>7 DEF Replaced
  <2>2. Overwritten(i) = {new[2]} /\ Used(new) = {new[3]} /\ Shows(i, i) = Shows(i, i)
    BY <1>5, <1>7 DEF Overwritten, Used
  <2>3. \A r \in Overwritten(i) : Mentioned(rl, i, I, r)
    BY <1>5, <1>7, <2>2
  <2>4. ASSUME NEW m \in Machine, Sound(rl, m)
        PROVE  Exec(m, Nop) = Exec(m, i) /\ Shows(m, Nop) = Shows(m, i)
    <3>1. Shows(m, i) = <<>>
      BY <1>4, <1>7 DEF Shows
    <3> QED BY <1>6, <2>1, <2>4, <3>1, NopFacts
  <2> QED BY <2>1, <2>3, <2>4, NopFacts DEF StandsIn
<1>8. CASE ~(new[1] = "mov" /\ new[2] = new[3])
  <2>1. Replaced(rl, i) = new
    BY <1>8 DEF Replaced
  <2>2. IsInstruction(new) /\ ~SelfCopy(new)
    BY <1>4, <1>5, <1>8 DEF IsInstruction, SelfCopy
  <2> QED BY <1>5, <1>6, <2>1, <2>2 DEF StandsIn
<1> QED BY <1>7, <1>8

LEMMA SelfCopyStandsIn ==
  ASSUME NEW rl, NEW I, NEW i, WellFormed(i), SelfCopy(i)
  PROVE  StandsIn(rl, I, i, Nop)
<1>1. i[1] = "mov" /\ i[2] = i[3] /\ i[2] \in Reg
  BY DEF SelfCopy, WellFormed
<1>2. Overwritten(i) = {i[2]} /\ Used(i) = {i[2]}
  BY <1>1 DEF Overwritten, Used
<1>3. ASSUME NEW m \in Machine
      PROVE  Exec(m, i) = m /\ Shows(m, i) = <<>>
  <2>1. m.regs[i[2]] \in Val
    BY <1>1 DEF Machine
  <2>2. Exec(m, i) = SetReg(m, i[2], m.regs[i[2]])
    BY <1>1 DEF Exec
  <2> QED BY <1>1, <2>1, <2>2, SetRegMachine DEF Shows
<1> QED BY <1>2, <1>3, NopFacts DEF StandsIn, Mentioned

LEMMA ReloadedStandsIn ==
  ASSUME NEW rl \in [Reg -> Ranged], NEW I, NEW i, WellFormed(i), Holders(rl, i, I) # {}
  PROVE  StandsIn(rl, I, i, Reloaded(rl, i, I))
<1> PICK H : H = Holders(rl, i, I)
  OBVIOUS
<1> PICK r : r = CHOOSE z \in H : \A s \in H : z <= s
  OBVIOUS
<1>1. H \in SUBSET Nat /\ H \subseteq Reg
  BY RegAssumption DEF Holders, Reg
<1>2. r \in H
  <2>1. \E x \in H : \A y \in H : x <= y
    BY <1>1, LeastElement
  <2> QED BY <2>1
<1>3. i[1] \in {"lct", "lgl", "lup"} /\ i[2] \in Reg
  <2>1. i[1] \in DOMAIN LoadKind
    BY <1>2 DEF Holders
  <2>2. DOMAIN LoadKind = {"lct", "lgl", "lup"}
    BY DEF LoadKind
  <2> QED BY <2>1, <2>2 DEF WellFormed
<1>4. Overwritten(i) = {i[2]}
  BY <1>3 DEF Overwritten
<1>5. Reloaded(rl, i, I) = IF r = i[2] THEN Nop ELSE Mov(i[2], r)
  BY DEF Reloaded
<1>6. rl \in RegInfoList
  BY RangedFacts
<1>7. ASSUME NEW m \in Machine, Sound(rl, m)
      PROVE  Exec(m, Reloaded(rl, i, I)) = Exec(m, i) /\ Shows(m, i) = <<>>
  <2>1. Exec(m, Reloaded(rl, i, I)) = Exec(m, i)
    BY <1>6, <1>7, ReloadedSound
  <2> QED BY <1>3, <2>1 DEF Shows
<1>8. CASE r = i[2]
  <2>1. Reloaded(rl, i, I) = Nop
    BY <1>5, <1>8
  <2>2. \A x \in Overwritten(i) : Mentioned(rl, i, I, x)
    BY <1>2, <1>4, <1>8 DEF Mentioned
  <2> QED BY <1>7, <2>1, <2>2, NopFacts DEF StandsIn
<1>9. CASE r # i[2]
  <2> PICK j : j = Mov(i[2], r)
    OBVIOUS
  <2>1. j[1] = "mov" /\ j[2] = i[2] /\ j[3] = r /\ j = <<j[1], j[2], j[3], j[4]>>
    BY DEF Mov
  <2>2. WellFormed(j) /\ IsInstruction(j) /\ ~SelfCopy(j)
    BY <1>1, <1>2, <1>3, <1>9, <2>1 DEF WellFormed, IsInstruction, SelfCopy
  <2>3. Overwritten(j) = {i[2]} /\ Used(j) = {r} /\ \A m : Shows(m, j) = <<>>
    BY <2>1 DEF Overwritten, Used, Shows
  <2>4. Mentioned(rl, i, I, r)
    BY <1>2 DEF Mentioned
  <2>5. Reloaded(rl, i, I) = j
    BY <1>5, <1>9
  <2> QED BY <1>4, <1>7, <2>2, <2>3, <2>4, <2>5 DEF StandsIn
<1> QED BY <1>8, <1>9

LEMMA SelfStandsIn ==
  ASSUME NEW rl, NEW I, NEW i, WellFormed(i), IsInstruction(i), ~SelfCopy(i)
  PROVE  StandsIn(rl, I, i, i)
<1> QED BY DEF StandsIn, Mentioned

LEMMA RewriteStandsIn ==
  ASSUME NEW rl \in [Reg -> Ranged], Acyclic(rl), NEW I, NEW i, IsInstruction(i)
  PROVE  IF i[1] \in {"call", "sgl"} THEN Rewrite(rl, i, I) = i
         ELSE WellFormed(i) /\ StandsIn(rl, I, i, Rewrite(rl, i, I))
<1>r. ASSUME i[1] \notin {"mov", "sup", "arith", "compare", "print"}
      PROVE  Replaced(rl, i) = i /\ ~Folds(rl, i) /\ ~SelfCopy(i)
  <2>1. Reads(i) = {}
    BY <1>r DEF Reads
  <2> PICK new : new = [f \in 1..4 |-> IF f \in Reads(i) THEN FindOriginalRegister(rl, i[f]) ELSE i[f]]
    OBVIOUS
  <2>2. i = <<i[1], i[2], i[3], i[4]>>
    BY DEF IsInstruction
  <2>3. new = [f \in 1 .. 4 |-> i[f]]
    BY <2>1
  <2>4. new = i
    BY <2>2, <2>3
  <2> QED BY <1>r, <2>4 DEF Replaced, Folds, SelfCopy
<1>h. Holders(rl, i, I) # {} => i[1] \in {"lct", "lgl", "lup"}
  <2>1. DOMAIN LoadKind = {"lct", "lgl", "lup"}
    BY DEF LoadKind
  <2> QED BY <2>1 DEF Holders
<1>n. i[1] \in {"lct", "lgl", "lup"} => Replaced(rl, i) = i /\ ~Folds(rl, i) /\ ~SelfCopy(i)
  BY <1>r
<1>1. CASE i[1] \in {"call", "sgl"}
  BY <1>1, <1>r, <1>h DEF Rewrite
<1>2. CASE i[1] \notin {"call", "sgl"}
  <2>1. WellFormed(i)
    BY <1>2 DEF IsInstruction
  <2>2. CASE Folds(rl, i)
    <3>1. Rewrite(rl, i, I) = Folded(rl, i)
      BY <2>2, <1>h, <1>n DEF Rewrite
    <3> QED BY <1>2, <2>1, <2>2, <3>1, FoldedStandsIn
  <2>3. CASE ~Folds(rl, i) /\ Replaced(rl, i) # i
    <3>1. Rewrite(rl, i, I) = Replaced(rl, i)
      BY <2>3, <1>h, <1>n DEF Rewrite
    <3> QED BY <1>2, <2>1, <3>1, ReplacedStandsIn
  <2>4. CASE ~Folds(rl, i) /\ Replaced(rl, i) = i /\ SelfCopy(i)
    <3>1. Rewrite(rl, i, I) = Nop
      BY <2>4, <1>h, <1>n DEF Rewrite
    <3> QED BY <1>2, <2>1, <2>4, <3>1, SelfCopyStandsIn
  <2>5. CASE ~Folds(rl, i) /\ Replaced(rl, i) = i /\ ~SelfCopy(i)
    <3>1. Rewrite(rl, i, I) = IF Holders(rl, i, I) # {} THEN Reloaded(rl, i, I) ELSE i
      BY <2>5 DEF Rewrite
    <3> QED BY <1>2, <2>1, <2>5, <3>1, ReloadedStandsIn, SelfStandsIn
  <2> QED BY <2>2, <2>3, <2>4, <2>5
<1> QED BY <1>1, <1>2

(***************************************************************************)
(* A block that is being rewritten.                                        *)
(***************************************************************************)
\* Function p is what the rewriting of the current block may have made of it.
Fit(p) ==
  /\ IsFunction(p) /\ p.src = prog.src /\ p.dest = prog.dest
  /\ \A c \in Block : Len(p.code[c]) = Len(prog.code[c]) /\ (c # blk => p.code[c] = prog.code[c])
  /\ Recorded(p) /\ Carried(p, blk)

\* It runs in step with the code as compiled, and whenever it does, what the analysis
\* found is true of the machine that enters a block, and facts rl are true of the
\* machine that has run the first n instructions of the current one.
KnownBy(R, L, p, n, rl) ==
  /\ Good(R, L, p, original)
  /\ \A c \in Block : \A q \in R[c][1] : Sound(rin[c], q[2])
  /\ \A q \in R[blk][n + 1] : Sound(rl, q[2])

Known(p, n, rl) == \E R, L : KnownBy(R, L, p, n, rl)

\* What such a function has in common with all.
LEMMA FitFacts ==
  ASSUME blk \in Block, NEW p, Fit(p)
  PROVE  /\ IsFunction(p) /\ Len(p.code[blk]) \in 0 .. Width /\ Len(p.code[blk]) \in Nat
         /\ DOMAIN p.code[blk] = 1 .. Len(p.code[blk])
         /\ \A k \in 1 .. Len(p.code[blk]) : IsInstruction(p.code[blk][k])
         /\ \A d \in ToSet(p.dest[blk]) : d \in Block
         /\ Width \in Nat
<1>1. IsFunction(p)
  BY DEF Fit
<1>2. ToSet(p.dest[blk]) \in SUBSET Block
  BY <1>1, ProgramFacts
<1>3. /\ Len(p.code[blk]) \in Nat /\ Len(p.code[blk]) <= Width
      /\ DOMAIN p.code[blk] = 1 .. Len(p.code[blk])
      /\ \A k \in 1 .. Len(p.code[blk]) : IsInstruction(p.code[blk][k])
  BY <1>1, ProgramFacts
<1>4. Width \in Nat
  BY BlockAssumption
<1> QED BY <1>1, <1>2, <1>3, <1>4

\* A change of the current block that makes it read and write no more.
LEMMA FitOn ==
  ASSUME blk \in Block, NEW p, Fit(p), NEW q, IsFunction(q), q.src = p.src, q.dest = p.dest,
         Less(q, p, blk), Len(q.code[blk]) = Len(p.code[blk]),
         \A c \in Block : c # blk => q.code[c] = p.code[c]
  PROVE  Fit(q)
<1>1. \A d \in ToSet(p.dest[blk]) : d \in Block
  BY FitFacts
<1>2. Carried(q, blk)
  BY <1>1, CarriedLess DEF Fit
<1>3. Recorded(q)
  <2>1. \A c \in Block : c # blk => BlockUses(q, c) = BlockUses(p, c) /\ BlockWrites(q, c) = BlockWrites(p, c)
    BY DEF BlockUses, BlockWrites
  <2> QED BY <2>1 DEF Recorded, Fit
<1>4. \A c \in Block : Len(q.code[c]) = Len(prog.code[c]) /\ (c # blk => q.code[c] = prog.code[c])
  BY DEF Fit
<1> QED BY <1>2, <1>3, <1>4 DEF Fit

\* What is known of the runs of the current block may be sharpened.
LEMMA GoodNarrowed ==
  ASSUME NEW p, IsFunction(p), NEW R, NEW L, NEW compiled, Good(R, L, p, compiled),
         NEW b \in Block, NEW Q, InStep(Q, p.code[b], compiled[b]), Q[1] = R[b][1],
         Q[Len(p.code[b]) + 1] \subseteq R[b][Len(p.code[b]) + 1]
  PROVE  Good([R EXCEPT ![b] = Q], L, p, compiled)
<1> PICK T : T = [R EXCEPT ![b] = Q]
  OBVIOUS
<1>2. /\ R \in [Block -> [1 .. Width + 1 -> SUBSET Same]]
      /\ \A c \in Block : InStep(R[c], p.code[c], compiled[c])
      /\ Entry \in Block /\ \A c \in Block : \A d \in ToSet(p.dest[c]) : d \in Block
  <2>1. \A c \in Block : ToSet(p.dest[c]) \in SUBSET Block
    BY ProgramFacts
  <2> QED BY <2>1, EntryIn DEF Good
<1>3. Q \in [1 .. Width + 1 -> SUBSET Same]
  BY DEF InStep
<1>4. /\ T \in [Block -> [1 .. Width + 1 -> SUBSET Same]] /\ T[b] = Q
      /\ \A c \in Block : c # b => T[c] = R[c]
  BY <1>2, <1>3
<1>5. \A c \in Block : T[c][1] = R[c][1]
  BY <1>4
<1>6. \A n \in Entering : <<n, n>> \in T[Entry][1]
  BY <1>2, <1>5 DEF Good
<1>7. \A c \in Block : InStep(T[c], p.code[c], compiled[c])
  BY <1>2, <1>4
<1>8. ASSUME NEW c \in Block, NEW q \in T[c][Len(p.code[c]) + 1], NEW d \in ToSet(p.dest[c])
      PROVE  \E x \in T[d][1] : x[1] = q[1] /\ Agree(L[d], x[2], q[2])
  <2>1. d \in Block
    BY <1>2, <1>8
  <2>2. q \in R[c][Len(p.code[c]) + 1]
    BY <1>4, <1>8
  <2>3. PICK x \in R[d][1] : x[1] = q[1] /\ Agree(L[d], x[2], q[2])
    BY <2>1, <2>2 DEF Good
  <2> QED BY <1>5, <2>1, <2>3
<1>9. Covers(L, p)
  BY DEF Good
<1> QED BY <1>4, <1>6, <1>7, <1>8, <1>9 DEF Good

\* Tracking keeps facts true.
LEMMA Advance ==
  ASSUME blk \in Block, NEW p, Fit(p), NEW n \in 0 .. Len(p.code[blk]) - 1,
         NEW rl \in [Reg -> Ranged], Known(p, n, rl)
  PROVE  Known(p, n + 1, TrackAny(MarkUsed(rl, p.code[blk][n + 1]), PcOf(blk, n + 1), p.code[blk][n + 1]))
<1> PICK code, i, pc : code = p.code[blk] /\ i = p.code[blk][n + 1] /\ pc = PcOf(blk, n + 1)
  OBVIOUS
<1> PICK tl : tl = TrackAny(MarkUsed(rl, i), pc, i)
  OBVIOUS
<1>0. PICK R, L : KnownBy(R, L, p, n, rl)
  BY DEF Known
<1>1. /\ Len(code) \in Nat /\ Len(code) <= Width /\ Width \in Nat /\ n \in Nat
      /\ n + 1 \in 1 .. Len(code) /\ n + 1 \in 1 .. Width /\ IsInstruction(i) /\ IsFunction(p)
  BY FitFacts
<1>2. pc \in Pc /\ Facts(rl)
  BY <1>1, PcFacts, RangedFacts
<1>3. Good(R, L, p, original) /\ InStep(R[blk], code, original[blk])
  BY <1>0 DEF KnownBy, Good
<1> DEFINE Q == [k \in 1 .. Width + 1 |-> IF k = n + 2 THEN {q \in R[blk][k] : Sound(tl, q[2])} ELSE R[blk][k]]
<1>4. R[blk] \in [1 .. Width + 1 -> SUBSET Same] /\ Matches(code, original[blk])
  BY <1>3 DEF InStep
<1>5. /\ Q \in [1 .. Width + 1 -> SUBSET Same]
      /\ \A k \in 1 .. Width + 1 : Q[k] \subseteq R[blk][k]
      /\ \A k \in 1 .. Width + 1 : k # n + 2 => Q[k] = R[blk][k]
      /\ n + 2 \in 1 .. Width + 1 /\ \A q \in R[blk][n + 2] : Sound(tl, q[2]) => q \in Q[n + 2]
      /\ \A q \in Q[n + 2] : Sound(tl, q[2])
  BY <1>1, <1>4
<1> HIDE DEF Q
<1>6. ASSUME NEW k \in 1 .. Len(code), NEW q \in Q[k], NEW x \in Together(q[1], q[2], original[blk][k], code[k])
      PROVE  x \in Q[k + 1]
  <2>1. k \in 1 .. Width + 1 /\ k + 1 \in 1 .. Width + 1 /\ q \in R[blk][k]
    <3>1. k \in 1 .. Width + 1 /\ k + 1 \in 1 .. Width + 1
      BY ONLY <1>1, k \in 1 .. Len(code)
    <3> QED BY ONLY <1>5, <3>1, q \in Q[k]
  <2>2. x \in R[blk][k + 1] /\ x \in Same /\ q \in Same /\ x[2] \in Effects(q[2], code[k])
    BY <1>3, <1>6, <2>1, StepsFrom
  <2>3. CASE k = n + 1
    <3>1. Sound(rl, q[2])
      BY <1>0, <2>1, <2>3 DEF KnownBy
    <3>2. q[2] \in Machine /\ GlobalsOK(q[2].glob)
      BY <2>2 DEF Same
    <3>3. x[2] \in Effects(q[2], i)
      BY <2>2, <2>3
    <3>4. Sound(tl, x[2])
      BY ONLY <1>1, <1>2, <3>1, <3>2, <3>3, EffectsSound, tl = TrackAny(MarkUsed(rl, i), pc, i)
    <3>5. k + 1 = n + 2
      BY <1>1, <2>3
    <3> QED BY <1>5, <2>2, <3>4, <3>5
  <2>4. CASE k # n + 1
    <3>1. k + 1 # n + 2
      BY <1>1, <2>4
    <3> QED BY <1>5, <2>1, <2>2, <3>1
  <2> QED BY <2>3, <2>4
<1>7. InStep(Q, code, original[blk])
  <2>1. ASSUME NEW k \in 1 .. Len(code), NEW q \in Q[k]
        PROVE  Shows(q[2], code[k]) = Shows(q[1], original[blk][k])
    <3>1. q \in R[blk][k]
      BY <1>1, <1>5
    <3> QED BY <1>3, <3>1 DEF InStep
  <2>2. \A k \in 1 .. Len(code) : \A q \in Q[k] : Together(q[1], q[2], original[blk][k], code[k]) \subseteq Q[k + 1]
    BY <1>6
  <2> QED BY <1>4, <1>5, <2>1, <2>2 DEF InStep
<1>8. Q[1] = R[blk][1] /\ Q[Len(code) + 1] \subseteq R[blk][Len(code) + 1]
  <2>1. 1 \in 1 .. Width + 1 /\ Len(code) + 1 \in 1 .. Width + 1 /\ 1 # n + 2
    BY <1>1
  <2> QED BY <1>5, <2>1
<1> PICK T : T = [R EXCEPT ![blk] = Q]
  OBVIOUS
<1>9. Good(T, L, p, original)
  BY <1>1, <1>3, <1>7, <1>8, GoodNarrowed
<1>10. /\ \A c \in Block : T[c][1] = R[c][1]
       /\ T[blk] = Q
  <2>1. R \in [Block -> [1 .. Width + 1 -> SUBSET Same]]
    BY <1>3 DEF Good
  <2>2. T[blk] = Q /\ \A c \in Block : c # blk => T[c] = R[c]
    BY <2>1
  <2> QED BY <1>8, <2>2
<1>11. \A c \in Block : \A q \in T[c][1] : Sound(rin[c], q[2])
  BY <1>0, <1>10 DEF KnownBy
<1>12. \A q \in T[blk][n + 1 + 1] : Sound(tl, q[2])
  <2>1. n + 1 + 1 = n + 2
    BY <1>1
  <2> QED BY <1>5, <1>10, <2>1
<1>13. KnownBy(T, L, p, n + 1, tl)
  BY <1>9, <1>11, <1>12 DEF KnownBy
<1> QED BY <1>13 DEF Known

\* The indices of the current block are its own.
LEMMA InsideFacts ==
  ASSUME blk \in Block, IsFunction(prog), NEW p, Fit(p)
  PROVE  Inside(blk) = {PcOf(blk, k) : k \in 1 .. Len(p.code[blk])}
<1>1. DOMAIN prog.code[blk] = 1 .. Len(prog.code[blk]) /\ Len(p.code[blk]) = Len(prog.code[blk])
  BY ProgramFacts DEF Fit
<1> QED BY <1>1 DEF Inside

\* An instruction of a run may do the same in another way.
LEMMA Exchanged ==
  ASSUME NEW Q, NEW code, NEW orig, InStep(Q, code, orig), NEW k \in 1 .. Len(code),
         DOMAIN code = 1 .. Len(code), NEW j, WellFormed(j), IsInstruction(j),
         code[k][1] \notin {"call", "sgl"}, Overwritten(j) \subseteq Overwritten(code[k]),
         \A q \in Q[k] : Exec(q[2], j) = Exec(q[2], code[k]) /\ Shows(q[2], j) = Shows(q[2], code[k])
  PROVE  InStep(Q, [code EXCEPT ![k] = j], orig)
<1> PICK new : new = [code EXCEPT ![k] = j]
  OBVIOUS
<1>1. /\ Len(new) = Len(code) /\ new[k] = j
      /\ \A x \in 1 .. Len(code) : x # k => new[x] = code[x]
  <2>1. DOMAIN new = 1 .. Len(code)
    OBVIOUS
  <2>2. Len(code) \in Nat
    BY BlockAssumption DEF InStep, Matches
  <2>3. new \in [1 .. Len(code) -> {new[x] : x \in 1 .. Len(code)}]
    OBVIOUS
  <2>4. Len(new) = Len(code)
    BY <2>2, <2>3
  <2> QED BY <2>4
<1>2. j[1] \notin {"call", "sgl"}
  BY DEF WellFormed
<1>3. Matches(code, orig)
  BY DEF InStep
<1>4. orig[k][1] \notin {"call", "sgl"}
  BY <1>3 DEF Matches
<1>5. Matches(new, orig)
  <2>1. ASSUME NEW x \in 1 .. Len(new)
        PROVE  /\ IsInstruction(new[x]) /\ IsInstruction(orig[x])
               /\ new[x][1] \in {"call", "sgl"} \/ orig[x][1] \in {"call", "sgl"} => new[x] = orig[x]
               /\ Overwritten(new[x]) \subseteq Overwritten(orig[x])
    <3>1. CASE x = k
      BY <1>1, <1>2, <1>3, <1>4, <3>1 DEF Matches
    <3>2. CASE x # k
      BY <1>1, <1>3, <3>2 DEF Matches
    <3> QED BY <3>1, <3>2
  <2> QED BY <1>1, <1>3, <2>1 DEF Matches
<1>6. ASSUME NEW x \in 1 .. Len(new), NEW q \in Q[x]
      PROVE  /\ Shows(q[2], new[x]) = Shows(q[1], orig[x])
             /\ Together(q[1], q[2], orig[x], new[x]) \subseteq Q[x + 1]
  <2>1. /\ Shows(q[2], code[x]) = Shows(q[1], orig[x])
        /\ Together(q[1], q[2], orig[x], code[x]) \subseteq Q[x + 1]
    BY <1>1 DEF InStep
  <2>2. CASE x = k
    <3>1. Exec(q[2], j) = Exec(q[2], code[k]) /\ Shows(q[2], j) = Shows(q[2], code[k])
      BY <2>2
    <3>2. Together(q[1], q[2], orig[k], j) = Together(q[1], q[2], orig[k], code[k])
      BY <1>4, <3>1 DEF Together
    <3> QED BY <1>1, <2>1, <2>2, <3>1, <3>2
  <2>3. CASE x # k
    BY <1>1, <2>1, <2>3
  <2> QED BY <2>2, <2>3
<1>7. Q \in [1 .. Width + 1 -> SUBSET Same]
  BY DEF InStep
<1> QED BY <1>5, <1>6, <1>7 DEF InStep

LEMMA InStepSame ==
  ASSUME NEW Q, NEW code, NEW orig, InStep(Q, code, orig), NEW new, Len(new) = Len(code),
         \A k \in 1 .. Len(code) : new[k] = code[k]
  PROVE  InStep(Q, new, orig)
<1>1. Matches(new, orig)
  BY DEF InStep, Matches
<1> QED BY <1>1 DEF InStep

\* What a fact about the current block speaks of has been met there.
LEMMA MentionedMet ==
  ASSUME blk \in Block, IsFunction(prog), NEW p, Fit(p), NEW n \in 0 .. Len(p.code[blk]) - 1,
         NEW rl, Walked(p.code[blk], blk, n, n, rl), NEW i, NEW r \in Reg, Mentioned(rl, i, Inside(blk), r)
  PROVE  r \in Used(i) \/ Met(p.code[blk], n, r)
<1> PICK code : code = p.code[blk]
  OBVIOUS
<1>0. Len(code) \in Nat /\ \A k \in 1 .. Len(code) : IsInstruction(code[k])
  BY FitFacts
<1>1. \A y \in Reg : Placed(code, blk, n, n, rl[y], y)
  BY DEF Walked
<1>2. ASSUME NEW y \in Reg, rl[y].alias = r, r # NoReg
      PROVE  Met(code, n, r)
  <2>1. PICK k \in 1 .. n : code[k][1] = "mov" /\ code[k][3] = r
    BY <1>1, <1>2 DEF Placed
  <2>2. r \in Used(code[k])
    BY <2>1 DEF Used
  <2> QED BY <2>2 DEF Met
<1>3. ASSUME r \in Holders(rl, i, Inside(blk))
      PROVE  Met(code, n, r)
  <2>1. /\ r \in Reg /\ rl[r].iindx \in Inside(blk) /\ rl[r].contents # "nofact"
    <3>1. DOMAIN LoadKind = {"lct", "lgl", "lup"} /\ \A x \in DOMAIN LoadKind : LoadKind[x] # "nofact"
      BY DEF LoadKind
    <3> QED BY <1>3, <3>1 DEF Holders
  <2>2. PICK k \in 1 .. Len(code) : rl[r].iindx = PcOf(blk, k)
    BY <2>1, InsideFacts
  <2>3. k <= n /\ r \in Clobbered(code[k])
    BY <1>1, <2>1, <2>2 DEF Placed
  <2>4. r \in Used(code[k]) \cup Overwritten(code[k])
    BY <1>0, <2>3, InstrRegs
  <2>5. k \in 1 .. n
    BY <1>0, <2>3
  <2> QED BY <2>4, <2>5 DEF Met
<1>4. r # NoReg
  BY RegAssumption DEF Reg, NoReg
<1> QED BY <1>2, <1>3, <1>4 DEF Mentioned

\* A strategy may rewrite the instruction that is next.
LEMMA RewriteKnown ==
  ASSUME blk \in Block, IsFunction(prog), NEW p, Fit(p), NEW n \in 0 .. Len(p.code[blk]) - 1,
         NEW rl, Walked(p.code[blk], blk, n, n, rl), Known(p, n, rl)
  PROVE  LET j == Rewrite(rl, p.code[blk][n + 1], Inside(blk))
             q == Changed(p, blk, [p.code[blk] EXCEPT ![n + 1] = j])
         IN  /\ Fit(q) /\ Known(q, n, rl) /\ Walked(q.code[blk], blk, n, n, rl)
             /\ q.code[blk] = [p.code[blk] EXCEPT ![n + 1] = j] /\ q.code[blk][n + 1] = j
             /\ Len(q.code[blk]) = Len(p.code[blk]) /\ ~SelfCopy(j)
<1> PICK code, i : code = p.code[blk] /\ i = p.code[blk][n + 1]
  OBVIOUS
<1> PICK j : j = Rewrite(rl, i, Inside(blk))
  OBVIOUS
<1> PICK new : new = [code EXCEPT ![n + 1] = j]
  OBVIOUS
<1> PICK q : q = Changed(p, blk, new)
  OBVIOUS
<1>0. PICK R, L : KnownBy(R, L, p, n, rl)
  BY DEF Known
<1>1. /\ Len(code) \in Nat /\ n + 1 \in 1 .. Len(code) /\ n \in Nat /\ n + 1 - 1 = n
      /\ IsInstruction(i) /\ IsFunction(p) /\ DOMAIN code = 1 .. Len(code)
      /\ \A k \in 1 .. Len(code) : IsInstruction(code[k])
  BY FitFacts
<1>2. rl \in [Reg -> Ranged] /\ Acyclic(rl)
  BY DEF Walked
<1>3. Good(R, L, p, original) /\ InStep(R[blk], code, original[blk]) /\ Covers(L, p)
  BY <1>0 DEF KnownBy, Good
<1>4. /\ Len(new) = Len(code) /\ DOMAIN new = 1 .. Len(code) /\ new[n + 1] = j
      /\ \A x \in 1 .. Len(code) : x # n + 1 => new[x] = code[x]
  <2>1. DOMAIN new = 1 .. Len(code)
    BY <1>1
  <2>3. new \in [1 .. Len(code) -> {new[x] : x \in 1 .. Len(code)}]
    BY <1>1
  <2>4. Len(new) = Len(code)
    BY <1>1, <2>3
  <2> QED BY <1>1, <2>1, <2>4
<1>5. IF i[1] \in {"call", "sgl"} THEN j = i ELSE WellFormed(i) /\ StandsIn(rl, Inside(blk), i, j)
  BY <1>1, <1>2, RewriteStandsIn
<1>6. /\ IsInstruction(j) /\ ~SelfCopy(j) /\ Overwritten(j) \subseteq Overwritten(i)
      /\ \A r \in Used(j) \cup (Overwritten(i) \ Overwritten(j)) : r \in Used(i) \/ Met(code, n, r)
  <2>1. CASE i[1] \in {"call", "sgl"}
    BY <1>1, <1>5, <2>1 DEF SelfCopy
  <2>2. CASE i[1] \notin {"call", "sgl"}
    <3>1. /\ IsInstruction(j) /\ ~SelfCopy(j) /\ Overwritten(j) \subseteq Overwritten(i)
          /\ \A r \in Used(j) \cup (Overwritten(i) \ Overwritten(j)) : Mentioned(rl, i, Inside(blk), r)
      BY <1>5, <2>2 DEF StandsIn
    <3>2. Used(j) \cup (Overwritten(i) \ Overwritten(j)) \subseteq Reg
      BY <1>1, <3>1, InstrRegs
    <3> QED BY <3>1, <3>2, MentionedMet
  <2> QED BY <2>1, <2>2
<1>7. IsFunction(q) /\ Less(q, p, blk) /\ Covers(L, q)
  <2> PICK k : k = n + 1
    OBVIOUS
  <2>1. /\ k \in 1 .. Len(p.code[blk]) /\ Len(new) = Len(p.code[blk]) /\ DOMAIN new = 1 .. Len(new)
        /\ \A x \in 1 .. Len(new) : x # k => new[x] = p.code[blk][x]
    BY <1>1, <1>4
  <2>2. new[k] = j /\ p.code[blk][k] = i
    BY <1>4
  <2>3. \A r \in Used(j) \cup (Overwritten(i) \ Overwritten(j)) : r \in Used(i) \/ Met(p.code[blk], k - 1, r)
    BY <1>1, <1>6
  <2>4. /\ IsInstruction(new[k]) /\ Overwritten(new[k]) \subseteq Overwritten(p.code[blk][k])
        /\ \A r \in Used(new[k]) \cup (Overwritten(p.code[blk][k]) \ Overwritten(new[k])) :
             r \in Used(p.code[blk][k]) \/ Met(p.code[blk], k - 1, r)
    BY <1>6, <2>2, <2>3
  <2>5. IsFunction(p) /\ Covers(L, p) /\ blk \in Block
    BY <1>1, <1>3
  <2>6. /\ IsFunction(Changed(p, blk, new)) /\ Less(Changed(p, blk, new), p, blk)
        /\ Covers(L, Changed(p, blk, new))
    BY ONLY <2>1, <2>4, <2>5, Patched
  <2> QED BY <2>6
<1>8. /\ q.src = p.src /\ q.dest = p.dest /\ q.code[blk] = new
      /\ \A c \in Block : c # blk => q.code[c] = p.code[c]
  BY ONLY <1>1, blk \in Block, q = Changed(p, blk, new), ChangedFacts
<1>9. Fit(q)
  <2>1. Len(q.code[blk]) = Len(p.code[blk])
    BY <1>4, <1>8
  <2> QED BY <1>7, <1>8, <2>1, FitOn
<1>10. InStep(R[blk], new, original[blk])
  <2>1. CASE i[1] \in {"call", "sgl"}
    <3>1. j = i
      BY <1>5, <2>1
    <3>2. Len(new) = Len(code) /\ \A k \in 1 .. Len(code) : new[k] = code[k]
      BY <1>1, <1>4, <3>1
    <3> QED BY ONLY <1>3, <3>2, InStepSame
  <2>2. CASE i[1] \notin {"call", "sgl"}
    <3>1. WellFormed(j) /\ \A m \in Machine : Sound(rl, m) => Exec(m, j) = Exec(m, i) /\ Shows(m, j) = Shows(m, i)
      BY <1>5, <2>2 DEF StandsIn
    <3>2. \A q1 \in R[blk][n + 1] : q1[2] \in Machine /\ Sound(rl, q1[2])
      <4>1. R[blk] \in [1 .. Width + 1 -> SUBSET Same] /\ n + 1 \in 1 .. Width + 1
        <5>1. Len(code) <= Width /\ Width \in Nat
          BY FitFacts
        <5> QED BY <1>1, <1>3, <5>1 DEF InStep
      <4>2. R[blk][n + 1] \in SUBSET Same
        BY <4>1
      <4> QED BY <1>0, <4>2 DEF KnownBy, Same
    <3>3. \A q1 \in R[blk][n + 1] : Exec(q1[2], j) = Exec(q1[2], code[n + 1]) /\ Shows(q1[2], j) = Shows(q1[2], code[n + 1])
      BY <3>1, <3>2
    <3>4. code[n + 1][1] \notin {"call", "sgl"} /\ Overwritten(j) \subseteq Overwritten(code[n + 1])
      BY <1>6, <2>2
    <3> QED BY ONLY <1>1, <1>3, <1>6, <3>1, <3>3, <3>4, new = [code EXCEPT ![n + 1] = j], Exchanged
  <2> QED BY <2>1, <2>2
<1>11. Good([R EXCEPT ![blk] = R[blk]], L, q, original)
  <2>1. \A c \in Block : L[c] \subseteq L[c]
    OBVIOUS
  <2>2. \A y \in R[blk][Len(new) + 1] : \E x \in R[blk][Len(new) + 1] :
           x[1] = y[1] /\ \A d \in ToSet(p.dest[blk]) : Agree(L[d], x[2], y[2])
    BY DEF Agree
  <2>3. Covers(L, Changed(p, blk, new)) /\ Len(new) = Len(p.code[blk]) /\ R[blk][1] = R[blk][1]
    BY <1>4, <1>7
  <2>4. Good([R EXCEPT ![blk] = R[blk]], L, Changed(p, blk, new), original)
    BY ONLY <1>1, <1>3, <1>10, <2>1, <2>2, <2>3, blk \in Block, GoodChanged
  <2> QED BY <2>4
<1>12. [R EXCEPT ![blk] = R[blk]] = R
  <2>1. R \in [Block -> [1 .. Width + 1 -> SUBSET Same]]
    BY <1>3 DEF Good
  <2> QED BY <2>1
<1>13. Known(q, n, rl)
  <2>1. KnownBy(R, L, q, n, rl)
    BY <1>0, <1>11, <1>12 DEF KnownBy
  <2> QED BY <2>1 DEF Known
<1>14. Walked(new, blk, n, n, rl)
  <2>1. n \in 0 .. Len(code) - 1 /\ \A k \in 1 .. n : new[k] = code[k]
    BY <1>1, <1>4
  <2>2. Walked(code, blk, n, n, rl)
    OBVIOUS
  <2> QED BY ONLY <1>1, <1>4, <2>1, <2>2, PatchedWalked
<1> QED BY <1>4, <1>6, <1>8, <1>9, <1>13, <1>14

-----------------------------------------------------------------------------
(***************************************************************************)
(* The walk over a block, one instruction at a time.                       *)
(***************************************************************************)
\* The current block may have become `code', with all that goes for it so far.
Stands(code, n, m, rl) ==
  \E p : /\ Fit(p) /\ p.code[blk] = code /\ Known(p, n, rl)
         /\ Walked(code, blk, n, m, rl)

LEMMA DeletedSpares ==
  ASSUME blk \in Block, NEW p, Fit(p), NEW R, NEW L, NEW compiled, Good(R, L, p, compiled),
         NEW ks, NEW X \in SUBSET BlockWrites(p, blk), Idle(p.code[blk], ks, X),
         \A r \in X : ~CheckDestUsage(blk, r)
  PROVE  Spared(R, p, ks, compiled)
<1>1. IsFunction(p) /\ p.dest = prog.dest /\ Recorded(p) /\ Carried(p, blk)
  BY DEF Fit
<1>2. Idle(p.code[blk], ks, X) /\ \A r \in X : ~CheckDestUsage(blk, r)
  OBVIOUS
<1> QED
  BY ONLY <1>1, <1>2, blk \in Block, Good(R, L, p, compiled), X \in SUBSET BlockWrites(p, blk), Deleted

LEMMA DeletedKnown ==
  ASSUME blk \in Block, NEW p, Fit(p), NEW ks, NEW X \in SUBSET BlockWrites(p, blk),
         Idle(p.code[blk], ks, X), \A r \in X : ~CheckDestUsage(blk, r),
         NEW n \in 0 .. Len(p.code[blk]), NEW rl, Known(p, n, rl), NEW k \in 0 .. Len(p.code[blk]), NEW wl,
         \/ k = 0 /\ wl = rin[blk]
         \/ /\ k = n
            /\ \A e, t \in Machine :
                 Sound(rl, e) /\ Agree(Reg \ Stale(p.code[blk], ks, n + 1), e, t) => Sound(wl, t)
  PROVE  LET new == Delete(p.code[blk], ks)
             q   == Changed(p, blk, new)
         IN  Fit(q) /\ q.code[blk] = new /\ Len(new) = Len(p.code[blk]) /\ Known(q, k, wl)
<1> PICK code : code = p.code[blk]
  OBVIOUS
<1> PICK new : new = Delete(code, ks)
  OBVIOUS
<1> PICK q : q = Changed(p, blk, new)
  OBVIOUS
<1>0. PICK R, L : KnownBy(R, L, p, n, rl)
  BY DEF Known
<1>1. IsFunction(p) /\ Good(R, L, p, original) /\ InStep(R[blk], code, original[blk])
  BY <1>0 DEF KnownBy, Good, Fit
<1>2. X \in SUBSET Reg
  <2>1. \A j \in DOMAIN code : Overwritten(code[j]) \subseteq Reg
    BY FitFacts, InstrRegs
  <2> QED BY <2>1 DEF BlockWrites
<1>3. Without(q, p, blk, ks, X, R[blk], original[blk])
  <2>1. Idle(p.code[blk], ks, X) /\ InStep(R[blk], p.code[blk], original[blk])
    BY <1>1
  <2>2. Without(Changed(p, blk, Delete(p.code[blk], ks)), p, blk, ks, X, R[blk], original[blk])
    BY ONLY <1>1, <1>2, <2>1, blk \in Block, LeftOut
  <2> QED BY <2>2
<1>4. /\ IsFunction(q) /\ q.dest = p.dest /\ q.src = p.src /\ q.code[blk] = new
      /\ Len(new) = Len(code) /\ \A c \in Block : c # blk => q.code[c] = p.code[c]
      /\ Less(q, p, blk)
  BY <1>3 DEF Without
<1>5. Fit(q)
  BY <1>4, FitOn
<1>6. Spared(R, p, ks, original)
  BY <1>1, DeletedSpares
<1>7. PICK T, M :
        /\ Good(T, M, q, original) /\ \A c \in Block : T[c][1] = R[c][1]
        /\ \A j \in 1 .. Len(code) + 1 : \A y \in T[blk][j] : \E x \in R[blk][j] :
             x[1] = y[1] /\ Agree(Reg \ Stale(code, ks, j), x[2], y[2])
  BY <1>6 DEF Spared
<1>8. \A c \in Block : \A y \in T[c][1] : Sound(rin[c], y[2])
  BY <1>0, <1>7 DEF KnownBy
<1>9. \A y \in T[blk][k + 1] : Sound(wl, y[2])
  <2>1. CASE k = 0 /\ wl = rin[blk]
    <3>1. k + 1 = 1
      BY <2>1
    <3> QED BY <1>8, <2>1, <3>1
  <2>2. CASE /\ k = n
             /\ \A e, t \in Machine :
                  Sound(rl, e) /\ Agree(Reg \ Stale(p.code[blk], ks, n + 1), e, t) => Sound(wl, t)
    <3> SUFFICES ASSUME NEW y \in T[blk][n + 1] PROVE Sound(wl, y[2])
      BY <2>2
    <3>1. n + 1 \in 1 .. Len(code) + 1 /\ n + 1 \in 1 .. Width + 1
      BY FitFacts
    <3>2. PICK x \in R[blk][n + 1] : x[1] = y[1] /\ Agree(Reg \ Stale(code, ks, n + 1), x[2], y[2])
      BY <1>7, <3>1
    <3>3. R[blk] \in [1 .. Width + 1 -> SUBSET Same] /\ T[blk] \in [1 .. Width + 1 -> SUBSET Same]
      BY <1>1, <1>7 DEF Good
    <3>4. x[2] \in Machine /\ y[2] \in Machine
      <4>1. x \in Same /\ y \in Same
        BY <3>1, <3>3
      <4> QED BY <4>1 DEF Same
    <3>5. Sound(rl, x[2])
      BY <1>0 DEF KnownBy
    <3> QED BY <2>2, <3>2, <3>4, <3>5
  <2> QED BY <2>1, <2>2
<1>10. Known(q, k, wl)
  <2>1. KnownBy(T, M, q, k, wl)
    BY <1>7, <1>8, <1>9 DEF KnownBy
  <2> QED BY <2>1 DEF Known
<1> QED BY <1>4, <1>5, <1>10

\* A copy into register old that is not needed once instruction n + 1 reads another.
Needless(p, n, rl, old) ==
  \E k \in 1 .. n : \E X \in SUBSET BlockWrites(p, blk) :
    /\ rl[old].iindx = PcOf(blk, k) /\ Source(rl, old) = k
    /\ p.code[blk][k][1] = "mov" /\ p.code[blk][k][2] = old
    /\ Idle(p.code[blk], {k}, X) /\ \A r \in X : ~CheckDestUsage(blk, r)

LEMMA CopyIdle ==
  ASSUME blk \in Block, IsFunction(prog), NEW p, Fit(p), NEW n \in 0 .. Len(p.code[blk]) - 1,
         NEW m \in {n, n + 1}, m = n \/ p.code[blk][n + 1][1] # "mov", NEW rl,
         Walked(p.code[blk], blk, n, m, rl), NEW old \in Reg, NEW new,
         NeedsNoCopy(rl, p.code[blk], n + 1, old, new)
  PROVE  Needless(p, n, rl, old)
<1> PICK code : code = p.code[blk]
  OBVIOUS
<1>0. /\ Len(code) \in 0 .. Width /\ Len(code) \in Nat /\ DOMAIN code = 1 .. Len(code)
      /\ \A k \in 1 .. Len(code) : IsInstruction(code[k])
      /\ n \in Nat /\ n + 1 \in 1 .. Len(code) /\ Width \in Nat
  BY FitFacts
<1>1. PICK k \in 1 .. Len(code) : rl[old].iindx = PcOf(blk, k)
  BY InsideFacts DEF NeedsNoCopy
<1>2. Source(rl, old) = k
  <2>1. k \in 1 .. Width
    BY <1>0
  <2> QED BY <1>1, <2>1, PcFacts DEF Source
<1>3. /\ code[k][1] = "mov" /\ code[k][2] = old
      /\ \A j \in k + 1 .. n + 1 : old \notin Used(code[j])
      /\ ~IsUsed(code, n + 1, old)
  BY <1>2 DEF NeedsNoCopy
<1>4. k \in 1 .. n
  <2>1. k <= m
    BY <1>1 DEF Walked, Placed
  <2>2. k # n + 1 \/ m = n
    BY <1>3
  <2> QED BY <1>0, <2>1, <2>2
<1>5. Silent(code[k]) /\ Overwritten(code[k]) = {old}
  BY <1>3 DEF Silent, Overwritten
<1> DEFINE later == {j \in 1 .. Len(code) : j > n + 1}
           X == {r \in {old} : ~CheckDestUsage(blk, r)}
<1>6. /\ \A j \in later : old \in Used(code[j]) =>
           \E i \in later : i < j /\ old \in Overwritten(code[i])
      /\ (\A j \in later : old \notin Overwritten(code[j])) => ~CheckDestUsage(blk, old)
  BY <1>0, <1>3 DEF IsUsed
<1>7. X \in SUBSET BlockWrites(p, blk)
  BY <1>0, <1>1, <1>5 DEF BlockWrites
<1>8. ASSUME NEW j \in k + 1 .. Len(code), old \in Used(code[j])
      PROVE  \E i \in k + 1 .. j - 1 : old \in Overwritten(code[i])
  <2>1. j \in later
    BY <1>0, <1>3, <1>4, <1>8
  <2>2. PICK i \in later : i < j /\ old \in Overwritten(code[i])
    BY <1>6, <1>8, <2>1
  <2>3. i \in k + 1 .. j - 1
    BY <1>0, <1>4, <2>2
  <2> QED BY <2>2, <2>3
<1>9. old \in X \/ \E j \in (k + 1 .. Len(code)) \ {k} : old \in Overwritten(code[j])
  <2>1. CASE ~CheckDestUsage(blk, old)
    BY <2>1
  <2>2. CASE CheckDestUsage(blk, old)
    <3>1. PICK j \in later : old \in Overwritten(code[j])
      BY <1>6, <2>2
    <3>2. j \in (k + 1 .. Len(code)) \ {k}
      BY <1>0, <1>4
    <3> QED BY <3>1, <3>2
  <2> QED BY <2>1, <2>2
<1>10. Idle(code, {k}, X)
  BY <1>1, <1>3, <1>5, <1>8, <1>9 DEF Idle
<1>11. \A r \in X : ~CheckDestUsage(blk, r)
  OBVIOUS
<1> HIDE DEF X, later
<1>12. Idle(p.code[blk], {k}, X)
  BY <1>10
<1> QED BY <1>1, <1>2, <1>3, <1>4, <1>7, <1>11, <1>12 DEF Needless

\* The facts that are left when that copy has been deleted.
LEMMA ForgottenWalked ==
  ASSUME NEW b \in Block, NEW code, Len(code) \in 0 .. Width, DOMAIN code = 1 .. Len(code),
         \A k \in 1 .. Len(code) : IsInstruction(code[k]), NEW n \in 0 .. Len(code) - 1,
         NEW m \in {n, n + 1}, NEW rl, Walked(code, b, n, m, rl), NEW old \in Reg,
         NEW k \in 1 .. n, rl[old].iindx = PcOf(b, k), code[k][1] = "mov", code[k][2] = old,
         Len(Delete(code, {k})) = Len(code)
  PROVE  Walked(Delete(code, {k}), b, n, n + 1, Write(rl, PcOf(b, n + 1), old, "nofact", NoIndex))
<1> PICK pc : pc = PcOf(b, n + 1)
  OBVIOUS
<1> PICK wl : wl = Write(rl, pc, old, "nofact", NoIndex)
  OBVIOUS
<1>0. /\ rl \in [Reg -> Ranged] /\ Acyclic(rl) /\ Facts(rl) /\ rl \in RegInfoList
      /\ \A r \in Reg : Placed(code, b, n, m, rl[r], r)
  BY RangedFacts DEF Walked
<1>1. /\ Width \in Nat /\ Len(code) \in Nat /\ n \in Nat /\ n + 1 \in 1 .. Width /\ n + 1 \in 1 .. Len(code)
      /\ k \in 1 .. Len(code) /\ \A j \in 1 .. Len(code) : j \in 1 .. Width
  <2>1. Width \in Nat
    BY BlockAssumption
  <2> QED BY <2>1
<1>2. /\ pc \in Pc /\ \A j \in 1 .. Len(code) : PcOf(b, j) = pc => j = n + 1
      /\ \A j \in 1 .. Len(code) : PcOf(b, j) = PcOf(b, k) => j = k
  BY <1>1, PcFacts
<1>3. wl \in [Reg -> Ranged]
  <2>1. "nofact" \in Contents /\ NoIndex \in Index \cup {NoIndex}
    BY DEF Contents
  <2>2. Follows(rl, wl, pc, TRUE)
    BY ONLY <1>0, <1>2, <2>1, old \in Reg, wl = Write(rl, pc, old, "nofact", NoIndex), WriteFollows
  <2> QED BY <2>2, RangedFacts DEF Follows
<1>4. /\ wl[old].iindx = pc /\ wl[old].contents = "nofact" /\ wl[old].alias = NoReg
      /\ \A r \in Reg \ {old} : wl[r] = rl[r] \/ wl[r] = ClearAlias(rl[r])
  <2>1. wl[old] = WrittenFact(pc, "nofact", NoIndex)
    BY DEF Write, InvalidateAliases
  <2>2. WrittenFact(pc, "nofact", NoIndex).iindx = pc
    BY DEF WrittenFact, InitFact
  <2>3. "nofact" \in Contents /\ NoIndex \in Index \cup {NoIndex}
    BY DEF Contents
  <2>4. WrittenFact(pc, "nofact", NoIndex).contents = "nofact" /\ WrittenFact(pc, "nofact", NoIndex).alias = NoReg
    BY <1>2, <2>3, WrittenFactFact
  <2>5. \A r \in Reg \ {old} : wl[r] = rl[r] \/ wl[r] = ClearAlias(rl[r])
    BY DEF Write, InvalidateAliases
  <2> QED BY <2>1, <2>2, <2>4, <2>5
<1>5. \A r \in Reg \ {old} : /\ wl[r].iindx = rl[r].iindx /\ wl[r].contents = rl[r].contents
                             /\ wl[r].usage = rl[r].usage /\ wl[r].alias \in {rl[r].alias, NoReg}
  <2> SUFFICES ASSUME NEW r \in Reg \ {old}
               PROVE  /\ wl[r].iindx = rl[r].iindx /\ wl[r].contents = rl[r].contents
                      /\ wl[r].usage = rl[r].usage /\ wl[r].alias \in {rl[r].alias, NoReg}
    OBVIOUS
  <2>1. rl[r] \in RegInfo
    BY <1>0, RangedFacts
  <2>2. /\ ClearAlias(rl[r]).iindx = rl[r].iindx /\ ClearAlias(rl[r]).contents = rl[r].contents
        /\ ClearAlias(rl[r]).usage = rl[r].usage /\ ClearAlias(rl[r]).alias = NoReg
    BY <2>1 DEF ClearAlias, RegInfo
  <2> QED BY <1>4, <2>2
<1>6. Acyclic(wl)
  BY <1>0, <1>4, <1>5, FewerAliases
<1>7. ASSUME NEW r \in Reg PROVE Placed(code, b, n, n + 1, wl[r], r)
  <2>1. CASE r = old
    <3>1. \A j \in 1 .. Len(code) : wl[r].iindx = PcOf(b, j) => j <= n + 1
      BY <1>1, <1>2, <1>4, <2>1
    <3> QED BY <1>4, <2>1, <3>1 DEF Placed
  <2>2. CASE r # old
    <3>1. Placed(code, b, n, m, rl[r], r) /\ wl[r].iindx = rl[r].iindx /\ wl[r].contents = rl[r].contents
          /\ wl[r].usage = rl[r].usage /\ wl[r].alias \in {rl[r].alias, NoReg}
      BY <1>0, <1>5, <2>2
    <3>2. \A j \in 1 .. Len(code) : j <= m => j <= n + 1
      BY <1>1
    <3> QED BY <3>1, <3>2 DEF Placed
  <2> QED BY <2>1, <2>2
<1>8. Walked(code, b, n, n + 1, wl)
  BY <1>3, <1>6, <1>7 DEF Walked
<1>9. ASSUME NEW r \in Reg, wl[r].iindx = PcOf(b, k) PROVE wl[r].contents = "nofact" /\ wl[r].alias = NoReg
  <2>1. CASE r = old
    BY <1>4, <2>1
  <2>2. CASE r # old
    <3>1. Clobbered(code[k]) = {old}
      BY DEF Clobbered, Overwritten
    <3>2. Placed(code, b, n, n + 1, wl[r], r)
      BY <1>7
    <3>3. wl[r].contents # "nofact" => r \in Clobbered(code[k])
      BY <1>1, <1>9, <3>2 DEF Placed
    <3>4. ASSUME wl[r].alias # NoReg PROVE FALSE
      <4>1. PICK j \in 1 .. n : wl[r].iindx = PcOf(b, j) /\ code[j][2] = r
        BY <3>2, <3>4 DEF Placed
      <4>2. j = k
        BY <1>1, <1>2, <1>9, <4>1
      <4> QED BY <2>2, <4>1, <4>2
    <3> QED BY <2>2, <3>1, <3>3, <3>4
  <2> QED BY <2>1, <2>2
<1>10. n \in 0 .. Len(code)
  BY <1>1
<1>11. \A d \in {k} : \A r \in Reg :
         wl[r].iindx = PcOf(b, d) => wl[r].contents = "nofact" /\ wl[r].alias = NoReg
  BY <1>9
<1>12. Walked(Delete(code, {k}), b, n, n + 1, wl)
  BY ONLY <1>1, <1>8, <1>10, <1>11, DOMAIN code = 1 .. Len(code), Len(Delete(code, {k})) = Len(code), DeletedWalked
<1> QED BY <1>12

\* What is known of fewer instructions is known of one more.
LEMMA FewerWalked ==
  ASSUME NEW code, NEW b, NEW n \in Nat, NEW m \in {n, n + 1}, NEW rl, Walked(code, b, n, m, rl),
         Len(code) \in Nat
  PROVE  Walked(code, b, n, n + 1, rl)
<1>1. \A k \in 1 .. Len(code) : k <= m => k <= n + 1
  OBVIOUS
<1> QED BY <1>1 DEF Walked, Placed

Sourced(rl, tl, pc) == \A r \in Reg : tl[r].iindx \in {rl[r].iindx, NoPc, pc}

\* A clean-up keeps the next instruction, the sources of facts and all that goes for
\* the block.
Steady(c, s, n) ==
  /\ Sourced(s.rl, c.rl, PcOf(blk, n + 1)) /\ Stands(c.code, n, n + 1, c.rl)
  /\ c.code[n + 1] = s.code[n + 1] /\ Len(c.code) = Len(s.code)

LEMMA CleanUpStands ==
  ASSUME blk \in Block, IsFunction(prog), NEW s, NEW n \in 0 .. Len(s.code) - 1,
         NEW m \in {n, n + 1}, m = n \/ s.code[n + 1][1] # "mov", NEW old \in Reg, NEW new,
         Stands(s.code, n, m, s.rl)
  PROVE  Steady(CleanUp(s, n + 1, old, new), s, n)
<1> PICK code, rl, c : code = s.code /\ rl = s.rl /\ c = CleanUp(s, n + 1, old, new)
  OBVIOUS
<1>1. PICK p : Fit(p) /\ p.code[blk] = code /\ Known(p, n, rl) /\ Walked(code, blk, n, m, rl)
  BY DEF Stands
<1>2. /\ Len(code) \in 0 .. Width /\ Len(code) \in Nat /\ DOMAIN code = 1 .. Len(code)
      /\ \A k \in 1 .. Len(code) : IsInstruction(code[k])
      /\ n \in Nat /\ n + 1 \in 1 .. Len(code) /\ Width \in Nat /\ n \in 0 .. Len(code)
      /\ n + 1 \in 1 .. Width
  <2>1. /\ Len(code) \in 0 .. Width /\ Len(code) \in Nat /\ DOMAIN code = 1 .. Len(code) /\ Width \in Nat
        /\ \A k \in 1 .. Len(code) : IsInstruction(code[k])
    BY ONLY <1>1, blk \in Block, FitFacts
  <2>2. n \in Nat /\ n + 1 \in 1 .. Len(code) /\ n \in 0 .. Len(code) /\ n + 1 \in 1 .. Width
    BY ONLY <2>1, n \in 0 .. Len(s.code) - 1, code = s.code
  <2> QED BY <2>1, <2>2
<1>3. CASE ~NeedsNoCopy(rl, code, n + 1, old, new)
  <2>1. c = s
    BY <1>3 DEF CleanUp
  <2>2. Walked(code, blk, n, n + 1, rl)
    BY <1>1, <1>2, FewerWalked
  <2>3. Stands(code, n, n + 1, rl)
    BY <1>1, <2>2 DEF Stands
  <2> QED BY <2>1, <2>3 DEF Steady, Sourced
<1>4. CASE NeedsNoCopy(rl, code, n + 1, old, new)
  <2>0. Needless(p, n, rl, old)
    <3>1. n \in 0 .. Len(p.code[blk]) - 1 /\ (m = n \/ p.code[blk][n + 1][1] # "mov")
      BY <1>1
    <3>2. Walked(p.code[blk], blk, n, m, rl) /\ NeedsNoCopy(rl, p.code[blk], n + 1, old, new)
      BY <1>1, <1>4
    <3> QED BY ONLY <1>1, <3>1, <3>2, blk \in Block, IsFunction(prog), m \in {n, n + 1}, old \in Reg, CopyIdle
  <2>1. PICK k \in 1 .. n, Y \in SUBSET BlockWrites(p, blk) :
           /\ rl[old].iindx = PcOf(blk, k) /\ Source(rl, old) = k
           /\ code[k][1] = "mov" /\ code[k][2] = old
           /\ Idle(p.code[blk], {k}, Y) /\ \A r \in Y : ~CheckDestUsage(blk, r)
    BY <1>1, <2>0 DEF Needless
  <2> PICK wl, cut : wl = Write(rl, PcOf(blk, n + 1), old, "nofact", NoIndex) /\ cut = Delete(code, {k})
    OBVIOUS
  <2>2. c.code = cut /\ c.rl = wl
    BY <1>4, <2>1 DEF CleanUp
  <2>5. ASSUME NEW e \in Machine, NEW t \in Machine, Sound(rl, e),
               Agree(Reg \ Stale(p.code[blk], {k}, n + 1), e, t)
        PROVE  Sound(wl, t)
    <3>1. Stale(p.code[blk], {k}, n + 1) \subseteq {old}
      BY <1>1, <2>1 DEF Stale
    <3>2. SameBut({old}, e, t)
      BY <2>5, <3>1 DEF SameBut, Agree
    <3>3. "nofact" \in Contents /\ NoIndex \in Index \cup {NoIndex} /\ PcOf(blk, n + 1) \in Pc /\ rl \in RegInfoList
      BY <1>1, <1>2, PcFacts, RangedFacts DEF Contents, Walked
    <3>4. Sound(Write(rl, PcOf(blk, n + 1), old, "nofact", NoIndex), t)
      BY ONLY <2>5, <3>2, <3>3, old \in Reg, WriteSound
    <3> QED BY <3>4
  <2>6. PICK q : q = Changed(p, blk, Delete(p.code[blk], {k}))
    OBVIOUS
  <2>7. Fit(q) /\ q.code[blk] = cut /\ Len(cut) = Len(code) /\ Known(q, n, wl)
    <3>1. n \in 0 .. Len(p.code[blk])
      BY <1>1, <1>2
    <3>2. \/ n = 0 /\ wl = rin[blk]
          \/ /\ n = n
             /\ \A e, t \in Machine :
                  Sound(rl, e) /\ Agree(Reg \ Stale(p.code[blk], {k}, n + 1), e, t) => Sound(wl, t)
      BY <2>5
    <3>3. Idle(p.code[blk], {k}, Y) /\ \A r \in Y : ~CheckDestUsage(blk, r)
      BY <2>1
    <3>4. /\ Fit(Changed(p, blk, Delete(p.code[blk], {k})))
          /\ Changed(p, blk, Delete(p.code[blk], {k})).code[blk] = Delete(p.code[blk], {k})
          /\ Len(Delete(p.code[blk], {k})) = Len(p.code[blk])
          /\ Known(Changed(p, blk, Delete(p.code[blk], {k})), n, wl)
      BY ONLY <1>1, <3>1, <3>2, <3>3, blk \in Block, Y \in SUBSET BlockWrites(p, blk), DeletedKnown
    <3> QED BY <1>1, <2>6, <3>4
  <2>3. Len(cut) = Len(code) /\ cut[n + 1] = code[n + 1]
    BY <1>2, <2>7 DEF Delete
  <2>4. Walked(cut, blk, n, n + 1, wl)
    <3>1. /\ blk \in Block /\ Len(code) \in 0 .. Width /\ DOMAIN code = 1 .. Len(code)
          /\ \A j \in 1 .. Len(code) : IsInstruction(code[j])
          /\ n \in 0 .. Len(code) - 1 /\ m \in {n, n + 1} /\ Walked(code, blk, n, m, rl) /\ old \in Reg
          /\ k \in 1 .. n /\ rl[old].iindx = PcOf(blk, k) /\ code[k][1] = "mov" /\ code[k][2] = old
          /\ Len(Delete(code, {k})) = Len(code)
      BY <1>1, <1>2, <2>1, <2>3
    <3>2. Walked(Delete(code, {k}), blk, n, n + 1, Write(rl, PcOf(blk, n + 1), old, "nofact", NoIndex))
      BY ONLY <3>1, ForgottenWalked
    <3> QED BY <3>2
  <2>8. Stands(cut, n, n + 1, wl)
    BY <2>4, <2>7 DEF Stands
  <2>9. Sourced(rl, wl, PcOf(blk, n + 1))
    <3>1. "nofact" \in Contents /\ NoIndex \in Index \cup {NoIndex} /\ PcOf(blk, n + 1) \in Pc /\ Facts(rl)
      BY <1>1, <1>2, PcFacts, RangedFacts DEF Contents, Walked
    <3>2. Follows(rl, Write(rl, PcOf(blk, n + 1), old, "nofact", NoIndex), PcOf(blk, n + 1), TRUE)
      BY ONLY <3>1, old \in Reg, WriteFollows
    <3> QED BY <3>2 DEF Follows, Sourced
  <2> QED BY <2>2, <2>3, <2>8, <2>9 DEF Steady
<1> QED BY <1>3, <1>4

\* What the current block may have become, it may become in the function.
LEMMA Settle ==
  ASSUME blk \in Block, IsFunction(prog), NEW code, NEW n, NEW m, NEW rl, Stands(code, n, m, rl)
  PROVE  LET q == Changed(prog, blk, code)
         IN  /\ Fit(q) /\ q.code[blk] = code /\ Known(q, n, rl) /\ Walked(code, blk, n, m, rl)
             /\ Len(code) = Len(prog.code[blk])
<1> PICK q : q = Changed(prog, blk, code)
  OBVIOUS
<1>1. PICK p : Fit(p) /\ p.code[blk] = code /\ Known(p, n, rl) /\ Walked(code, blk, n, m, rl)
  BY DEF Stands
<1>2. /\ Len(code) = Len(prog.code[blk]) /\ DOMAIN code = 1 .. Len(code)
      /\ \A k \in 1 .. Len(code) : IsInstruction(code[k])
  BY <1>1, FitFacts DEF Fit
<1>3. /\ IsFunction(q) /\ q.dest = prog.dest /\ q.src = prog.src /\ q.code[blk] = code
      /\ \A c \in Block : c # blk => q.code[c] = prog.code[c]
  <2>1. IsFunction(Changed(prog, blk, code))
    BY ONLY <1>2, blk \in Block, IsFunction(prog), ChangedFacts
  <2>2. /\ Changed(prog, blk, code).dest = prog.dest /\ Changed(prog, blk, code).src = prog.src
        /\ Changed(prog, blk, code).code[blk] = code
        /\ \A c \in Block : c # blk => Changed(prog, blk, code).code[c] = prog.code[c]
    BY ONLY blk \in Block, IsFunction(prog), ChangedShape
  <2> QED BY ONLY <2>1, <2>2, q = Changed(prog, blk, code)
<1>4. \A c \in Block : q.code[c] = p.code[c]
  BY <1>1, <1>3 DEF Fit
<1>5. q.dest = p.dest /\ q.src = p.src
  BY <1>1, <1>3 DEF Fit
<1>6. \A c \in Block : BlockUses(q, c) = BlockUses(p, c) /\ BlockWrites(q, c) = BlockWrites(p, c)
  BY <1>4 DEF BlockUses, BlockWrites
<1>7. Fit(q)
  <2>1. Less(q, p, blk) /\ Len(q.code[blk]) = Len(p.code[blk])
    BY <1>4, <1>6 DEF Less
  <2> QED BY <1>1, <1>3, <1>4, <1>5, <2>1, FitOn
<1>8. Known(q, n, rl)
  <2>1. PICK R, L : KnownBy(R, L, p, n, rl)
    BY <1>1 DEF Known
  <2>2. Covers(L, q)
    BY <1>5, <1>6, <2>1 DEF KnownBy, Good, Covers
  <2>3. Good(R, L, q, original)
    BY <1>4, <1>5, <2>1, <2>2 DEF KnownBy, Good
  <2>4. KnownBy(R, L, q, n, rl)
    BY <2>1, <2>3 DEF KnownBy
  <2> QED BY <2>4 DEF Known
<1> QED BY <1>1, <1>2, <1>3, <1>7, <1>8

LEMMA MarkedStands ==
  ASSUME NEW code, NEW n, NEW m, NEW rl, Stands(code, n, m, rl), NEW i
  PROVE  Stands(code, n, m, MarkUsed(rl, i))
<1> PICK tl : tl = MarkUsed(rl, i)
  OBVIOUS
<1>1. PICK p : Fit(p) /\ p.code[blk] = code /\ Known(p, n, rl) /\ Walked(code, blk, n, m, rl)
  BY DEF Stands
<1>2. Walked(code, blk, n, m, tl)
  BY <1>1, MarkedWalked
<1>3. PICK R, L : KnownBy(R, L, p, n, rl)
  BY <1>1 DEF Known
<1>4. \A x : Sound(rl, x) => Sound(tl, x)
  BY <1>1, MarkedSound DEF Walked
<1>5. KnownBy(R, L, p, n, tl)
  BY <1>3, <1>4 DEF KnownBy
<1> QED BY <1>1, <1>2, <1>5 DEF Stands, Known

\* Past an instruction that is no copy of a register onto itself.
LEMMA TrackedStands ==
  ASSUME blk \in Block, NEW code, NEW n \in 0 .. Len(code) - 1, NEW m \in 0 .. n + 1, NEW rl,
         Stands(code, n, m, rl), ~SelfCopy(code[n + 1])
  PROVE  LET read == MarkUsed(rl, code[n + 1])
             tl   == TrackAny(read, PcOf(blk, n + 1), code[n + 1])
         IN  /\ Stands(code, n + 1, n + 1, tl)
             /\ \A r \in Reg : Moved(read[r], tl[r], code[n + 1], r, PcOf(blk, n + 1))
<1> PICK i, read : i = code[n + 1] /\ read = MarkUsed(rl, i)
  OBVIOUS
<1> PICK tl : tl = TrackAny(read, PcOf(blk, n + 1), i)
  OBVIOUS
<1>1. PICK p : Fit(p) /\ p.code[blk] = code /\ Known(p, n, rl) /\ Walked(code, blk, n, m, rl)
  BY DEF Stands
<1>2. /\ Len(code) \in 0 .. Width /\ n + 1 \in 1 .. Len(code) /\ n \in Nat
      /\ \A k \in 1 .. Len(code) : IsInstruction(code[k])
  <2>1. /\ Len(code) \in 0 .. Width /\ Len(code) \in Nat /\ Width \in Nat
        /\ \A k \in 1 .. Len(code) : IsInstruction(code[k])
    BY ONLY <1>1, blk \in Block, FitFacts
  <2>2. n + 1 \in 1 .. Len(code) /\ n \in Nat
    BY ONLY <2>1, n \in 0 .. Len(code) - 1
  <2> QED BY <2>1, <2>2
<1>3. rl \in [Reg -> Ranged] /\ Walked(code, blk, n, m, read)
  BY <1>1, MarkedWalked DEF Walked
<1>4. \A r \in Used(i) : read[r].usage \in {"read", "readwritten"}
  <2>1. IsInstruction(i)
    BY <1>2
  <2>2. Used(i) \subseteq Reg
    BY <2>1, InstrRegs
  <2> QED BY <1>3, <2>2, MarkedFact
<1>5. /\ Walked(code, blk, n + 1, n + 1, tl)
      /\ \A r \in Reg : Moved(read[r], tl[r], i, r, PcOf(blk, n + 1))
  <2>1. /\ IsInstruction(code[n + 1]) /\ ~SelfCopy(code[n + 1])
        /\ \A r \in Used(code[n + 1]) : read[r].usage \in {"read", "readwritten"}
        /\ n \in 0 .. Len(code) - 1
    BY <1>2, <1>4
  <2>2. /\ Walked(code, blk, n + 1, n + 1, TrackAny(read, PcOf(blk, n + 1), code[n + 1]))
        /\ \A r \in Reg : Moved(read[r], TrackAny(read, PcOf(blk, n + 1), code[n + 1])[r],
                                code[n + 1], r, PcOf(blk, n + 1))
    BY ONLY <1>2, <1>3, <2>1, blk \in Block, m \in 0 .. n + 1, TrackedWalked
  <2> QED BY <2>2
<1>6. Known(p, n + 1, tl)
  <2>1. n \in 0 .. Len(p.code[blk]) - 1
    BY <1>1
  <2>2. Known(p, n + 1, TrackAny(MarkUsed(rl, p.code[blk][n + 1]), PcOf(blk, n + 1), p.code[blk][n + 1]))
    BY ONLY <1>1, <1>3, <2>1, blk \in Block, Advance
  <2> QED BY <1>1, <2>2
<1>7. Stands(code, n + 1, n + 1, tl)
  BY <1>1, <1>5, <1>6 DEF Stands
<1> QED BY <1>5, <1>7

-----------------------------------------------------------------------------
\* One turn of the strategies.
Cleaned(s, i, new, f) == IF f \in Reads(i) THEN CleanUp(s, pos, i[f], new[f]) ELSE s

LEMMA OptimizedCases ==
  ASSUME NEW rl \in RegInfoList, NEW code, code = prog.code[blk], NEW i, i = code[pos],
         NEW new, new = Rewrite(rl, i, Inside(blk)), NEW dead, dead = DeadBefore(rl, code, i),
         NEW replaced, replaced = [code |-> [code EXCEPT ![pos] = new], rl |-> rl]
  PROVE  \/ Optimized[rl] = replaced
         \/ dead # {} /\ Optimized[rl] = [code |-> Delete(code, {Source(rl, r) : r \in dead}), rl |-> rl]
         \/ /\ new[1] = i[1]
            /\ Optimized[rl] =
                 Cleaned(Cleaned(Cleaned(replaced, i, new, 2), i, new, 3), i, new, 4)
<1> PICK deleted, cleaned :
       /\ deleted = [code |-> Delete(code, {Source(rl, r) : r \in dead}), rl |-> rl]
       /\ cleaned = Cleaned(Cleaned(Cleaned(replaced, i, new, 2), i, new, 3), i, new, 4)
  OBVIOUS
<1>1. Optimized[rl] = CASE Folds(rl, i)               -> replaced
        [] ~Folds(rl, i) /\ dead # {} -> deleted
        [] ~Folds(rl, i) /\ dead = {} /\ new[1] = i[1] /\ new # i -> cleaned
        [] OTHER                      -> replaced
  BY DEF Optimized, Cleaned
<1>2. CASE Folds(rl, i)
  BY <1>1, <1>2
<1>3. CASE ~Folds(rl, i) /\ dead # {}
  BY <1>1, <1>3
<1>4. CASE ~Folds(rl, i) /\ dead = {} /\ new[1] = i[1] /\ new # i
  BY <1>1, <1>4
<1>5. CASE ~Folds(rl, i) /\ dead = {} /\ ~(new[1] = i[1] /\ new # i)
  BY <1>1, <1>5
<1> QED BY <1>2, <1>3, <1>4, <1>5

LEMMA CleanedStands ==
  ASSUME blk \in Block, IsFunction(prog), NEW s, NEW n \in 0 .. Len(s.code) - 1, pos = n + 1,
         NEW m \in {n, n + 1}, m = n \/ s.code[n + 1][1] # "mov", NEW i, IsInstruction(i),
         NEW new, NEW f, Stands(s.code, n, m, s.rl)
  PROVE  Steady(Cleaned(s, i, new, f), s, n)
<1> PICK c : c = Cleaned(s, i, new, f)
  OBVIOUS
<1>1. CASE f \in Reads(i)
  <2>1. i[f] \in Reg
    BY <1>1 DEF Reads, IsInstruction, WellFormed
  <2>2. Steady(CleanUp(s, n + 1, i[f], new[f]), s, n)
    <3>1. /\ blk \in Block /\ IsFunction(prog) /\ n \in 0 .. Len(s.code) - 1 /\ m \in {n, n + 1}
          /\ m = n \/ s.code[n + 1][1] # "mov" 
          /\ Stands(s.code, n, m, s.rl)
      OBVIOUS
    <3> QED BY ONLY <2>1, <3>1, CleanUpStands
  <2>3. c = CleanUp(s, n + 1, i[f], new[f])
    BY <1>1 DEF Cleaned
  <2> QED BY <2>2, <2>3
<1>2. CASE f \notin Reads(i)
  <2>1. c = s
    BY <1>2 DEF Cleaned
  <2>2. PICK p : Fit(p) /\ p.code[blk] = s.code /\ Known(p, n, s.rl) /\ Walked(s.code, blk, n, m, s.rl)
    BY DEF Stands
  <2>3. Len(s.code) \in Nat /\ n \in Nat
    BY <2>2, FitFacts
  <2>4. Walked(s.code, blk, n, n + 1, s.rl)
    BY <2>2, <2>3, FewerWalked
  <2>5. Stands(s.code, n, n + 1, s.rl)
    BY <2>2, <2>4 DEF Stands
  <2> QED BY <2>1, <2>5 DEF Steady, Sourced
<1> QED BY <1>1, <1>2

\* The instruction is rewritten,
LEMMA RewrittenStands ==
  ASSUME blk \in Block, IsFunction(prog), NEW code, NEW n \in 0 .. Len(code) - 1, NEW rl,
         Stands(code, n, n, rl)
  PROVE  LET j   == Rewrite(rl, code[n + 1], Inside(blk))
             new == [code EXCEPT ![n + 1] = j]
         IN  /\ Stands(new, n, n, rl) /\ ~SelfCopy(new[n + 1])
             /\ new[n + 1] = j /\ Len(new) = Len(code)
<1> PICK j : j = Rewrite(rl, code[n + 1], Inside(blk))
  OBVIOUS
<1>1. PICK p : Fit(p) /\ p.code[blk] = code /\ Known(p, n, rl) /\ Walked(code, blk, n, n, rl)
  BY DEF Stands
<1>2. PICK q : q = Changed(p, blk, [p.code[blk] EXCEPT ![n + 1] = j])
  OBVIOUS
<1>3. /\ Fit(q) /\ Known(q, n, rl) /\ Walked(q.code[blk], blk, n, n, rl)
      /\ q.code[blk] = [p.code[blk] EXCEPT ![n + 1] = j] /\ q.code[blk][n + 1] = j
      /\ Len(q.code[blk]) = Len(p.code[blk]) /\ ~SelfCopy(j)
  <2>1. n \in 0 .. Len(p.code[blk]) - 1 /\ Walked(p.code[blk], blk, n, n, rl)
    BY <1>1
  <2>2. LET h == Rewrite(rl, p.code[blk][n + 1], Inside(blk))
            o == Changed(p, blk, [p.code[blk] EXCEPT ![n + 1] = h])
        IN  /\ Fit(o) /\ Known(o, n, rl) /\ Walked(o.code[blk], blk, n, n, rl)
            /\ o.code[blk] = [p.code[blk] EXCEPT ![n + 1] = h] /\ o.code[blk][n + 1] = h
            /\ Len(o.code[blk]) = Len(p.code[blk]) /\ ~SelfCopy(h)
    BY ONLY <1>1, <2>1, blk \in Block, IsFunction(prog), RewriteKnown
  <2> QED BY <1>1, <1>2, <2>2
<1>4. Stands([code EXCEPT ![n + 1] = j], n, n, rl)
  BY <1>1, <1>3 DEF Stands
<1> QED BY <1>1, <1>3, <1>4

\* and the copies it no longer needs are deleted,
LEMMA CleanedOver ==
  ASSUME blk \in Block, IsFunction(prog), NEW s, NEW n \in 0 .. Len(s.code) - 1, pos = n + 1,
         NEW i, IsInstruction(i), s.code[n + 1][1] = i[1], NEW new, Stands(s.code, n, n, s.rl)
  PROVE  Steady(Cleaned(Cleaned(Cleaned(s, i, new, 2), i, new, 3), i, new, 4), s, n)
<1> PICK s2 : s2 = Cleaned(s, i, new, 2)
  OBVIOUS
<1> PICK s3 : s3 = Cleaned(s2, i, new, 3)
  OBVIOUS
<1> PICK s4 : s4 = Cleaned(s3, i, new, 4)
  OBVIOUS
<1>1. CASE i[1] = "mov"
  <2>1. Reads(i) = {3}
    BY <1>1 DEF Reads
  <2>2. s2 = s /\ s4 = s3
    BY <2>1 DEF Cleaned
  <2>3. Steady(Cleaned(s, i, new, 3), s, n)
    <3>1. n \in {n, n + 1} /\ (n = n \/ s.code[n + 1][1] # "mov")
      OBVIOUS
    <3> QED BY ONLY <3>1, blk \in Block, IsFunction(prog), n \in 0 .. Len(s.code) - 1, pos = n + 1,
                    IsInstruction(i), Stands(s.code, n, n, s.rl), CleanedStands
  <2> QED BY <2>2, <2>3
<1>2. CASE i[1] # "mov"
  <2>1. Steady(s2, s, n)
    <3>1. n \in {n, n + 1} /\ (n = n \/ s.code[n + 1][1] # "mov")
      OBVIOUS
    <3>2. Steady(Cleaned(s, i, new, 2), s, n)
      BY ONLY <3>1, blk \in Block, IsFunction(prog), n \in 0 .. Len(s.code) - 1, pos = n + 1,
              IsInstruction(i), Stands(s.code, n, n, s.rl), CleanedStands
    <3> QED BY ONLY <3>2, s2 = Cleaned(s, i, new, 2)
  <2>2. Steady(s3, s2, n)
    <3>1. /\ n \in 0 .. Len(s2.code) - 1 /\ n + 1 \in {n, n + 1} /\ Stands(s2.code, n, n + 1, s2.rl)
          /\ n + 1 = n \/ s2.code[n + 1][1] # "mov"
      BY <1>2, <2>1 DEF Steady
    <3>2. Steady(Cleaned(s2, i, new, 3), s2, n)
      BY ONLY <3>1, blk \in Block, IsFunction(prog), pos = n + 1, IsInstruction(i), CleanedStands
    <3> QED BY ONLY <3>2, s3 = Cleaned(s2, i, new, 3)
  <2>3. Steady(s4, s3, n)
    <3>1. /\ n \in 0 .. Len(s3.code) - 1 /\ n + 1 \in {n, n + 1} /\ Stands(s3.code, n, n + 1, s3.rl)
          /\ n + 1 = n \/ s3.code[n + 1][1] # "mov"
      BY <1>2, <2>1, <2>2 DEF Steady
    <3>2. Steady(Cleaned(s3, i, new, 4), s3, n)
      BY ONLY <3>1, blk \in Block, IsFunction(prog), pos = n + 1, IsInstruction(i), CleanedStands
    <3> QED BY ONLY <3>2, s4 = Cleaned(s3, i, new, 4)
  <2> QED BY <2>1, <2>2, <2>3 DEF Steady, Sourced
<1> QED BY <1>1, <1>2

\* or stores it overwrites are.
StoredAt(code, n, rl, r, d) ==
  /\ d \in 1 .. n /\ rl[r].iindx = PcOf(blk, d) /\ Silent(code[d]) /\ code[d][2] = r
  /\ Clobbered(code[d]) = {r} /\ Overwritten(code[d]) = {r}
  /\ \A j \in d + 1 .. n : r \notin Used(code[j])

\* A register nobody has read was written by the instruction its fact names.
LEMMA DeadFacts ==
  ASSUME blk \in Block, IsFunction(prog), NEW p, Fit(p), NEW n \in 0 .. Len(p.code[blk]),
         NEW rl, Walked(p.code[blk], blk, n, n, rl), NEW r \in Reg, Unread(rl, p.code[blk], r)
  PROVE  StoredAt(p.code[blk], n, rl, r, Source(rl, r))
<1> PICK code, d : code = p.code[blk] /\ d = Source(rl, r)
  OBVIOUS
<1>0. /\ Len(code) \in 0 .. Width /\ Len(code) \in Nat /\ DOMAIN code = 1 .. Len(code)
      /\ \A k \in 1 .. Len(code) : IsInstruction(code[k])
      /\ n \in Nat /\ Width \in Nat
  BY FitFacts
<1>1. PICK k \in 1 .. Len(code) : rl[r].iindx = PcOf(blk, k)
  BY InsideFacts DEF Unread
<1>2. d = k
  <2>1. k \in 1 .. Width
    BY <1>0
  <2> QED BY <1>1, <2>1, PcFacts DEF Source
<1>3. /\ k <= n /\ r \in Clobbered(code[k])
      /\ \A j \in k + 1 .. n : r \notin Used(code[j])
  BY <1>1 DEF Walked, Placed, Unread
<1>4. Silent(code[k]) /\ Overwritten(code[k]) = {code[k][2]} /\ Clobbered(code[k]) = {code[k][2]}
  BY <1>2 DEF Unread, CanDelete, Silent, Overwritten, Clobbered
<1>5. k \in 1 .. n
  BY <1>0, <1>3
<1> QED BY <1>1, <1>2, <1>3, <1>4, <1>5 DEF StoredAt

\* The instructions at ks, which instruction n + 1 overwrites, may be left out.
Deletable(code, n, ks) ==
  /\ Idle(code, ks, {}) /\ Stale(code, ks, n + 2) = {} /\ n + 1 \notin ks
  /\ \A d \in ks : /\ d \in 1 .. n /\ Clobbered(code[d]) = {code[d][2]}
                   /\ code[d][2] \in Overwritten(code[n + 1])

LEMMA DeadIdle ==
  ASSUME blk \in Block, IsFunction(prog), NEW p, Fit(p), NEW n \in 0 .. Len(p.code[blk]) - 1,
         NEW rl, Walked(p.code[blk], blk, n, n, rl),
         \A r \in Used(p.code[blk][n + 1]) : rl[r].usage \in {"read", "readwritten"}
  PROVE  Deletable(p.code[blk], n, {Source(rl, r) : r \in DeadBefore(rl, p.code[blk], p.code[blk][n + 1])})
<1> PICK ks : ks = {Source(rl, r) : r \in DeadBefore(rl, p.code[blk], p.code[blk][n + 1])}
  OBVIOUS
<1> PICK code, i : code = p.code[blk] /\ i = code[n + 1]
  OBVIOUS
<1>0. /\ Len(code) \in 0 .. Width /\ Len(code) \in Nat /\ DOMAIN code = 1 .. Len(code)
      /\ \A k \in 1 .. Len(code) : IsInstruction(code[k])
      /\ n \in Nat /\ Width \in Nat /\ n + 1 \in 1 .. Len(code) /\ n \in 0 .. Len(p.code[blk])
  BY FitFacts
<1>1. ASSUME NEW d \in ks
      PROVE  /\ d \in 1 .. n /\ Silent(code[d]) /\ Clobbered(code[d]) = {code[d][2]}
             /\ code[d][2] \in Overwritten(i) /\ code[d][2] \notin Used(i)
             /\ \A j \in d + 1 .. n : code[d][2] \notin Used(code[j])
  <2>1. PICK r \in DeadBefore(rl, code, i) : d = Source(rl, r)
    OBVIOUS
  <2>2. r \in Overwritten(i) /\ Unread(rl, code, r)
    BY <2>1 DEF DeadBefore
  <2>3. r \in Reg
    BY <1>0, <2>2, InstrRegs
  <2>4. StoredAt(p.code[blk], n, rl, r, Source(rl, r))
    <3>1. Unread(rl, p.code[blk], r) /\ n \in 0 .. Len(p.code[blk]) /\ Walked(p.code[blk], blk, n, n, rl)
      BY <1>0, <2>2
    <3> QED BY ONLY <2>3, <3>1, blk \in Block, IsFunction(prog), Fit(p), DeadFacts
  <2>5. r \notin Used(i)
    BY <2>2 DEF Unread
  <2> QED BY <2>1, <2>2, <2>4, <2>5 DEF StoredAt
<1>2. n + 1 \notin ks /\ \A d \in ks : n + 1 \in (d + 1 .. Len(code)) \ ks /\ d \in 1 .. Len(code)
  BY <1>0, <1>1
<1>3. ASSUME NEW d \in ks, NEW j \in d + 1 .. Len(code), code[d][2] \in Used(code[j])
      PROVE  \E k \in d + 1 .. j - 1 : code[d][2] \in Overwritten(code[k])
  <2>1. ~(j \in d + 1 .. n) /\ j # n + 1
    BY <1>1, <1>3
  <2>2. n + 1 \in d + 1 .. j - 1
    BY <1>0, <1>1, <2>1
  <2> QED BY <1>1, <2>2
<1>4. Idle(code, ks, {})
  BY <1>1, <1>2, <1>3 DEF Idle
<1>5. Stale(code, ks, n + 2) = {}
  <2> SUFFICES ASSUME NEW r \in Reg, NEW d \in ks, r = code[d][2],
                      \A j \in d + 1 .. n + 2 - 1 : r \notin Overwritten(code[j])
               PROVE  FALSE
    BY DEF Stale
  <2>1. n + 1 \in d + 1 .. n + 2 - 1
    BY <1>0, <1>1
  <2> QED BY <1>1, <2>1
<1> QED BY <1>1, <1>2, <1>4, <1>5 DEF Deletable

\* Past instruction k, when s is what has become of the block and the facts.
Outcome(s, k) == TrackAny(MarkUsed(s.rl, s.code[k]), PcOf(blk, k), s.code[k])

Turned(s, k) == Stands(s.code, k, k, Outcome(s, k)) /\ Sourced(s.rl, Outcome(s, k), PcOf(blk, k))

LEMMA TrackedSources ==
  ASSUME blk \in Block, NEW code, NEW n \in 0 .. Len(code) - 1, NEW m, NEW rl, Stands(code, n, m, rl)
  PROVE  Sourced(rl, TrackAny(MarkUsed(rl, code[n + 1]), PcOf(blk, n + 1), code[n + 1]), PcOf(blk, n + 1))
<1> PICK i, pc, read : i = code[n + 1] /\ pc = PcOf(blk, n + 1) /\ read = MarkUsed(rl, i)
  OBVIOUS
<1>1. PICK p : Fit(p) /\ p.code[blk] = code /\ Walked(code, blk, n, m, rl)
  BY DEF Stands
<1>2. /\ Len(code) \in 0 .. Width /\ n + 1 \in 1 .. Len(code) /\ n \in Nat /\ n + 1 \in 1 .. Width
      /\ IsInstruction(i)
  BY <1>1, FitFacts
<1>3. Facts(rl) /\ pc \in Pc
  BY <1>1, <1>2, RangedFacts, PcFacts DEF Walked
<1>4. Follows(rl, read, pc, TRUE)
  BY <1>3, MarkUsedFollows
<1>5. Follows(read, TrackAny(read, pc, i), pc, IsLoad(i))
  <2>1. Facts(read)
    BY <1>4 DEF Follows
  <2> QED BY ONLY <1>2, <1>3, <2>1, TrackFollows
<1> QED BY <1>4, <1>5 DEF Follows, Sourced

LEMMA TurnedOn ==
  ASSUME blk \in Block, NEW s, NEW n \in 0 .. Len(s.code) - 1, NEW m \in {n, n + 1},
         Stands(s.code, n, m, s.rl), ~SelfCopy(s.code[n + 1])
  PROVE  Turned(s, n + 1)
<1> PICK code, rl : code = s.code /\ rl = s.rl
  OBVIOUS
<1>1. n \in Nat
  BY FitFacts DEF Stands
<1>2. n \in 0 .. Len(code) - 1 /\ Stands(code, n, m, rl) /\ m \in 0 .. n + 1 /\ ~SelfCopy(code[n + 1])
  BY <1>1
<1>3. LET x == MarkUsed(rl, code[n + 1])
          y == TrackAny(x, PcOf(blk, n + 1), code[n + 1])
      IN  /\ Stands(code, n + 1, n + 1, y)
          /\ \A r \in Reg : Moved(x[r], y[r], code[n + 1], r, PcOf(blk, n + 1))
  BY ONLY <1>2, blk \in Block, TrackedStands
<1>4. Sourced(rl, TrackAny(MarkUsed(rl, code[n + 1]), PcOf(blk, n + 1), code[n + 1]), PcOf(blk, n + 1))
  BY ONLY <1>2, blk \in Block, TrackedSources
<1> QED BY <1>3, <1>4 DEF Turned, Outcome

LEMMA DeadStands ==
  ASSUME blk \in Block, IsFunction(prog), NEW code, NEW n \in 0 .. Len(code) - 1, NEW rl,
         Stands(code, n, n, rl), \A r \in Used(code[n + 1]) : rl[r].usage \in {"read", "readwritten"},
         DeadBefore(rl, code, code[n + 1]) # {}
  PROVE  Turned([code |-> Delete(code, {Source(rl, r) : r \in DeadBefore(rl, code, code[n + 1])}), rl |-> rl], n + 1)
<1> PICK ks : ks = {Source(rl, r) : r \in DeadBefore(rl, code, code[n + 1])}
  OBVIOUS
<1> PICK i, cut, read : i = code[n + 1] /\ cut = Delete(code, ks) /\ read = MarkUsed(rl, i)
  OBVIOUS
<1> PICK tl : tl = TrackAny(read, PcOf(blk, n + 1), i)
  OBVIOUS
<1>1. ~SelfCopy(i)
  <2> SUFFICES ASSUME SelfCopy(i) PROVE FALSE
    OBVIOUS
  <2>1. PICK r \in Overwritten(i) : Unread(rl, code, r)
    BY DEF DeadBefore
  <2>2. r \in Used(i)
    BY <2>1 DEF SelfCopy, Used, Overwritten
  <2> QED BY <2>1, <2>2 DEF Unread
<1>2. PICK o : Fit(o) /\ o.code[blk] = code /\ Walked(code, blk, n, n, rl)
  BY DEF Stands
<1>3. /\ Len(code) \in 0 .. Width /\ Len(code) \in Nat /\ DOMAIN code = 1 .. Len(code)
      /\ \A k \in 1 .. Len(code) : IsInstruction(code[k])
      /\ n \in Nat /\ Width \in Nat /\ n + 1 \in 1 .. Len(code) /\ n + 1 \in 0 .. Len(code)
      /\ n \in 0 .. n + 1 /\ n + 1 \in 1 .. Width
  BY <1>2, FitFacts
<1>4. /\ Stands(code, n + 1, n + 1, tl)
      /\ \A r \in Reg : Moved(read[r], tl[r], i, r, PcOf(blk, n + 1))
  <2>1. ~SelfCopy(code[n + 1])
    BY <1>1
  <2>2. LET reading == MarkUsed(rl, code[n + 1])
            wl      == TrackAny(reading, PcOf(blk, n + 1), code[n + 1])
        IN  /\ Stands(code, n + 1, n + 1, wl)
            /\ \A r \in Reg : Moved(reading[r], wl[r], code[n + 1], r, PcOf(blk, n + 1))
    BY ONLY <1>3, <2>1, blk \in Block, n \in 0 .. Len(code) - 1, Stands(code, n, n, rl), TrackedStands
  <2> QED BY <2>2
<1>5. PICK p : Fit(p) /\ p.code[blk] = code /\ Known(p, n + 1, tl) /\ Walked(code, blk, n + 1, n + 1, tl)
  BY <1>4 DEF Stands
<1>6. /\ Idle(code, ks, {}) /\ Stale(code, ks, n + 2) = {}
      /\ n + 1 \notin ks
      /\ \A d \in ks : /\ d \in 1 .. n
                       /\ Clobbered(code[d]) = {code[d][2]}
                       /\ code[d][2] \in Overwritten(i)
  <2>1. /\ n \in 0 .. Len(p.code[blk]) - 1 /\ Walked(p.code[blk], blk, n, n, rl)
        /\ \A r \in Used(p.code[blk][n + 1]) : rl[r].usage \in {"read", "readwritten"}
    BY <1>2, <1>5
  <2>2. Deletable(p.code[blk], n, {Source(rl, r) : r \in DeadBefore(rl, p.code[blk], p.code[blk][n + 1])})
    <3>1. Fit(p) /\ blk \in Block /\ IsFunction(prog)
      BY <1>5
    <3> QED BY ONLY <2>1, <3>1, DeadIdle, ZenonT(20)
  <2> QED BY <1>5, <2>2 DEF Deletable
<1>7. ASSUME NEW d \in ks, NEW r \in Reg, tl[r].iindx = PcOf(blk, d)
      PROVE  tl[r].contents = "nofact" /\ tl[r].alias = NoReg
  <2>0. /\ PcOf(blk, d) # PcOf(blk, n + 1) /\ PcOf(blk, d) # NoPc
        /\ \A j \in 1 .. n : PcOf(blk, j) = PcOf(blk, d) => j = d
    <3>1. d \in 1 .. Width /\ d # n + 1 /\ \A j \in 1 .. n : j \in 1 .. Width
      BY <1>3, <1>6
    <3> QED BY <1>3, <3>1, PcFacts
  <2>1. /\ r \notin Overwritten(i) /\ tl[r].iindx = read[r].iindx /\ tl[r].contents = read[r].contents
        /\ tl[r].alias \in {NoReg, read[r].alias}
    BY <1>4, <1>7, <2>0 DEF Moved
  <2>2. r # code[d][2]
    BY <1>6, <2>1
  <2>3. /\ read[r].iindx = rl[r].iindx /\ read[r].contents = rl[r].contents /\ read[r].alias = rl[r].alias
    BY <1>2, MarkedFact DEF Walked
  <2>4. Placed(code, blk, n, n, rl[r], r) /\ d \in 1 .. Len(code)
    BY <1>2, <1>3, <1>6 DEF Walked
  <2>5. rl[r].contents # "nofact" => r \in Clobbered(code[d])
    BY <1>7, <2>1, <2>3, <2>4 DEF Placed
  <2>6. ASSUME rl[r].alias # NoReg PROVE FALSE
    <3>1. PICK j \in 1 .. n : rl[r].iindx = PcOf(blk, j) /\ code[j][2] = r
      BY <2>4, <2>6 DEF Placed
    <3> QED BY <1>7, <2>0, <2>1, <2>2, <2>3, <3>1
  <2> QED BY <1>6, <2>1, <2>2, <2>3, <2>5, <2>6
<1>8. Fit(Changed(p, blk, cut)) /\ Changed(p, blk, cut).code[blk] = cut /\ Len(cut) = Len(code)
      /\ Known(Changed(p, blk, cut), n + 1, tl)
  <2>1. \A e, t \in Machine :
          Sound(tl, e) /\ Agree(Reg \ Stale(p.code[blk], ks, n + 1 + 1), e, t) => Sound(tl, t)
    <3> SUFFICES ASSUME NEW e \in Machine, NEW t \in Machine, Sound(tl, e),
                        Agree(Reg \ Stale(p.code[blk], ks, n + 1 + 1), e, t)
                 PROVE  Sound(tl, t)
      OBVIOUS
    <3>1. n + 1 + 1 = n + 2
      BY <1>3
    <3>2. Agree(Reg, e, t)
      BY <1>5, <1>6, <3>1
    <3> QED BY <3>2, AgreeOnAll
  <2>2. {} \in SUBSET BlockWrites(p, blk) /\ (\A r \in {} : ~CheckDestUsage(blk, r))
        /\ Idle(p.code[blk], ks, {}) /\ n + 1 \in 0 .. Len(p.code[blk])
    BY <1>3, <1>5, <1>6
  <2>3. \/ n + 1 = 0 /\ tl = rin[blk]
        \/ /\ n + 1 = n + 1
           /\ \A e, t \in Machine :
                Sound(tl, e) /\ Agree(Reg \ Stale(p.code[blk], ks, n + 1 + 1), e, t) => Sound(tl, t)
    BY <2>1
  <2>4. /\ Fit(Changed(p, blk, Delete(p.code[blk], ks)))
        /\ Changed(p, blk, Delete(p.code[blk], ks)).code[blk] = Delete(p.code[blk], ks)
        /\ Len(Delete(p.code[blk], ks)) = Len(p.code[blk])
        /\ Known(Changed(p, blk, Delete(p.code[blk], ks)), n + 1, tl)
    BY ONLY <1>5, <2>2, <2>3, blk \in Block, DeletedKnown
  <2> QED BY <1>5, <2>4
<1>9. Walked(cut, blk, n + 1, n + 1, tl)
  <2>1. Len(Delete(code, ks)) = Len(code) /\ Len(code) \in Nat /\ DOMAIN code = 1 .. Len(code)
        /\ n + 1 \in 0 .. Len(code)
    BY <1>3, <1>8
  <2>2. Walked(Delete(code, ks), blk, n + 1, n + 1, tl)
    BY ONLY <1>5, <1>7, <2>1, DeletedWalked
  <2> QED BY <2>2
<1>10. cut[n + 1] = i
  BY <1>3, <1>6 DEF Delete
<1>11. Stands(cut, n + 1, n + 1, tl)
  BY <1>8, <1>9 DEF Stands
<1>12. Sourced(rl, tl, PcOf(blk, n + 1))
  <2>1. Sourced(rl, TrackAny(MarkUsed(rl, code[n + 1]), PcOf(blk, n + 1), code[n + 1]), PcOf(blk, n + 1))
    BY ONLY <1>3, blk \in Block, n \in 0 .. Len(code) - 1, Stands(code, n, n, rl), TrackedSources
  <2> QED BY <2>1
<1> PICK s : s = [code |-> cut, rl |-> rl]
  OBVIOUS
<1>13. Outcome(s, n + 1) = tl /\ s.code = cut /\ s.rl = rl
  BY <1>10 DEF Outcome
<1>14. Turned(s, n + 1)
  BY <1>11, <1>12, <1>13 DEF Turned
<1> QED BY <1>14

\* What the strategies leave of the current instruction.
LEMMA OptimizedStands ==
  ASSUME blk \in Block, IsFunction(prog), NEW n \in 0 .. Len(prog.code[blk]) - 1, pos = n + 1,
         NEW rl, Stands(prog.code[blk], n, n, rl)
  PROVE  LET s == Optimized[MarkUsed(rl, prog.code[blk][pos])]
         IN  Turned(s, pos) /\ Sourced(rl, s.rl, PcOf(blk, pos))
<1> PICK code, i : code = prog.code[blk] /\ i = code[pos]
  OBVIOUS
<1> PICK read : read = MarkUsed(rl, i)
  OBVIOUS
<1> PICK s, new, dead : s = Optimized[read] /\ new = Rewrite(read, i, Inside(blk)) /\ dead = DeadBefore(read, code, i)
  OBVIOUS
<1> PICK replaced : replaced = [code |-> [code EXCEPT ![pos] = new], rl |-> read]
  OBVIOUS
<1>1. Stands(code, n, n, read)
  BY MarkedStands
<1>2. PICK p : Fit(p) /\ p.code[blk] = code /\ Walked(code, blk, n, n, rl) /\ Walked(code, blk, n, n, read)
  BY MarkedWalked DEF Stands
<1>3. /\ Len(code) \in 0 .. Width /\ n + 1 \in 1 .. Len(code) /\ n \in Nat /\ n + 1 \in 1 .. Width
      /\ IsInstruction(i) /\ n \in 0 .. Len(code) - 1
  BY <1>2, FitFacts
<1>4. /\ read \in RegInfoList /\ rl \in [Reg -> Ranged]
      /\ \A r \in Used(i) : read[r].usage \in {"read", "readwritten"}
      /\ Sourced(rl, read, PcOf(blk, pos))
  <2>1. rl \in [Reg -> Ranged] /\ read \in RegInfoList
    BY <1>2, RangedFacts DEF Walked
  <2>2. Used(i) \subseteq Reg
    BY <1>3, InstrRegs
  <2> QED BY <2>1, <2>2, MarkedFact DEF Sourced
<1>5. \/ s = replaced
      \/ dead # {} /\ s = [code |-> Delete(code, {Source(read, r) : r \in dead}), rl |-> read]
      \/ /\ new[1] = i[1]
         /\ s = Cleaned(Cleaned(Cleaned(replaced, i, new, 2), i, new, 3), i, new, 4)
  BY ONLY <1>4, code = prog.code[blk], i = code[pos], s = Optimized[read], new = Rewrite(read, i, Inside(blk)),
          dead = DeadBefore(read, code, i), replaced = [code |-> [code EXCEPT ![pos] = new], rl |-> read], OptimizedCases
<1>6. /\ Stands(replaced.code, n, n, read) /\ ~SelfCopy(replaced.code[n + 1])
      /\ replaced.code[n + 1] = new /\ Len(replaced.code) = Len(code) /\ replaced.rl = read
  <2>1. LET j == Rewrite(read, code[n + 1], Inside(blk))
            o == [code EXCEPT ![n + 1] = j]
        IN  /\ Stands(o, n, n, read) /\ ~SelfCopy(o[n + 1])
            /\ o[n + 1] = j /\ Len(o) = Len(code)
    BY ONLY <1>1, <1>3, blk \in Block, IsFunction(prog), RewrittenStands
  <2> QED BY <2>1
<1>7. CASE s = replaced
  <2>1. n \in 0 .. Len(s.code) - 1 /\ n \in {n, n + 1} /\ Stands(s.code, n, n, s.rl) /\ ~SelfCopy(s.code[n + 1])
    BY <1>3, <1>6, <1>7
  <2>2. Turned(s, n + 1)
    BY ONLY <2>1, blk \in Block, TurnedOn
  <2> QED BY <1>4, <1>6, <1>7, <2>2
<1>8. CASE dead # {} /\ s = [code |-> Delete(code, {Source(read, r) : r \in dead}), rl |-> read]
  <2>1. /\ \A r \in Used(code[n + 1]) : read[r].usage \in {"read", "readwritten"}
        /\ DeadBefore(read, code, code[n + 1]) # {}
    BY <1>4, <1>8
  <2>2. Turned([code |-> Delete(code, {Source(read, r) : r \in DeadBefore(read, code, code[n + 1])}), rl |-> read], n + 1)
    BY ONLY <1>1, <1>3, <2>1, blk \in Block, IsFunction(prog), DeadStands
  <2>3. s = [code |-> Delete(code, {Source(read, r) : r \in DeadBefore(read, code, code[n + 1])}), rl |-> read]
    BY <1>8
  <2>4. s.rl = read
    BY <1>8
  <2> QED BY <1>4, <2>2, <2>3, <2>4
<1>9. CASE /\ new[1] = i[1]
           /\ s = Cleaned(Cleaned(Cleaned(replaced, i, new, 2), i, new, 3), i, new, 4)
  <2>1. Steady(s, replaced, n)
    <3>1. /\ n \in 0 .. Len(replaced.code) - 1 /\ replaced.code[n + 1][1] = i[1]
          /\ Stands(replaced.code, n, n, replaced.rl)
      BY <1>3, <1>6, <1>9
    <3> QED BY ONLY <1>3, <1>9, <3>1, blk \in Block, IsFunction(prog), pos = n + 1, CleanedOver
  <2>2. /\ Stands(s.code, n, n + 1, s.rl) /\ ~SelfCopy(s.code[n + 1]) /\ n \in 0 .. Len(s.code) - 1
        /\ Sourced(read, s.rl, PcOf(blk, pos)) /\ n + 1 \in {n, n + 1}
    BY <1>3, <1>6, <2>1 DEF Steady
  <2>3. Turned(s, n + 1)
    BY ONLY <2>2, blk \in Block, TurnedOn
  <2>4. Sourced(rl, s.rl, PcOf(blk, pos))
    BY <1>4, <2>2 DEF Sourced
  <2> QED BY <2>3, <2>4
<1> QED BY <1>5, <1>7, <1>8, <1>9

\* Where a block begins, facts come from blocks before it and there are no aliases.
FreshInputs ==
  \A b \in Block :
    /\ rin[b] \in [Reg -> Ranged]
    /\ \A r \in Reg : rin[b][r].alias = NoReg /\ rin[b][r].iindx < b * Width /\ FromCode(rin[b][r])

LEMMA FreshFromFixed ==
  ASSUME Fixed, SourcesOK, Structured(prog)
  PROVE  FreshInputs
<1>1. IsFunction(prog) /\ OutputsOK /\ Width \in Nat /\ Block \subseteq Nat
  BY BlockAssumption DEF Fixed, Kinds, Block
<1>2. ASSUME NEW b \in Block
      PROVE  /\ rin[b] \in [Reg -> Ranged]
             /\ \A r \in Reg : /\ rin[b][r].alias = NoReg /\ FromCode(rin[b][r])
                               /\ b = Entry => rin[b][r].iindx = NoPc
  <2>1. rin[b] = JoinInput(b)
    BY DEF Fixed
  <2>2. /\ JoinInput(b) \in [Reg -> Ranged]
        /\ \A r \in Reg : /\ JoinInput(b)[r].alias = NoReg
                          /\ \/ JoinInput(b)[r].iindx = NoPc
                             \/ \E s \in Block : JoinInput(b)[r].iindx = rout[s][r].iindx
    BY <1>1, InputFacts
  <2>3. \A r \in Reg : FromCode(rin[b][r])
    BY <2>1, <2>2 DEF FromCode, SourcesOK
  <2>4. ASSUME b = Entry, NEW r \in Reg PROVE rin[b][r].iindx = NoPc
    BY <2>1, <2>4, EntryFacts DEF JoinInput
  <2> QED BY <2>1, <2>2, <2>3, <2>4
<1> DEFINE S == {b \in Block : \E r \in Reg : ~(rin[b][r].iindx < b * Width)}
<1>3. S = {}
  <2> SUFFICES ASSUME S # {} PROVE FALSE
    OBVIOUS
  <2>1. PICK b \in S : \A c \in S : b <= c
    BY <1>1, LeastNumber
  <2>2. PICK r \in Reg : ~(rin[b][r].iindx < b * Width)
    OBVIOUS
  <2> HIDE DEF S
  <2>3. b \in Block /\ b \in Nat
    BY <1>1 DEF S
  <2>4. \A c \in Block : c < b => \A x \in Reg : rin[c][x].iindx < c * Width
    BY <1>1, <2>1, <2>3 DEF S
  <2>5. NoPc < b * Width
    BY <1>1, <2>3 DEF NoPc
  <2>6. b # Entry
    BY <1>2, <2>2, <2>3, <2>5
  <2>7. PICK s \in EntrySources(b) : s \in Block /\ s < b
    BY <1>1, <2>3, <2>6, EnteredBefore
  <2>8. rin[b][r].iindx \in {NoPc, rout[s][r].iindx}
    BY <2>3, <2>6, <2>7, InputFrom DEF Weaker
  <2>9. \/ rout[s][r].iindx \in {rin[s][r].iindx, NoPc}
        \/ \E j \in 1 .. Len(prog.code[s]) : rout[s][r].iindx = PcOf(s, j)
    <3>1. Tracked(prog, s, rin[s], Len(prog.code[s]), rout[s])
      BY <2>7 DEF Fixed
    <3> QED BY <1>1, <2>7, <3>1, TrackedFollows
  <2>10. s \in Nat /\ s * Width <= b * Width /\ (s + 1) * Width <= b * Width
    <3>1. s \in Nat /\ b - s \in Nat /\ b - s - 1 \in Nat
      BY <1>1, <2>3, <2>7
    <3>2. (b - s) * Width \in Nat /\ (b - s - 1) * Width \in Nat
      BY ONLY <1>1, <3>1
    <3>3. (b - s) * Width = b * Width - s * Width /\ (b - s - 1) * Width = b * Width - (s + 1) * Width
      BY ONLY <1>1, <2>3, <3>1
    <3> QED BY ONLY <1>1, <2>3, <3>1, <3>2, <3>3
  <2>11. rout[s][r].iindx # NoPc => rout[s][r].iindx < b * Width
    <3>1. CASE \E j \in 1 .. Len(prog.code[s]) : rout[s][r].iindx = PcOf(s, j)
      <4>1. PICK j \in 1 .. Len(prog.code[s]) : rout[s][r].iindx = PcOf(s, j)
        BY <3>1
      <4>2. j \in 1 .. Width
        BY <1>1, <2>7, ProgramFacts
      <4>3. PcOf(s, j) \in Nat /\ PcOf(s, j) < (s + 1) * Width
        BY <2>7, <4>2, PcFacts
      <4> PICK v, u, w : v = PcOf(s, j) /\ u = (s + 1) * Width /\ w = b * Width
        OBVIOUS
      <4>4. u \in Int /\ w \in Int
        BY <1>1, <2>3, <2>10
      <4>5. v < w
        BY ONLY <2>10, <4>3, <4>4, v = PcOf(s, j), u = (s + 1) * Width, w = b * Width
      <4> QED BY <4>1, <4>5
    <3>2. CASE rout[s][r].iindx = rin[s][r].iindx
      <4> PICK v, u, w : v = rin[s][r].iindx /\ u = s * Width /\ w = b * Width
        OBVIOUS
      <4>1. v \in Int /\ u \in Int /\ w \in Int
        <5>1. rin[s][r] \in RegInfo
          BY <1>2, <2>7 DEF Ranged
        <5>2. v \in Pc \cup {NoPc}
          BY <5>1 DEF RegInfo
        <5>3. v \in Int
          BY <5>2, IndexAssumption DEF NoPc
        <5> QED BY <1>1, <2>3, <2>10, <5>3
      <4>2. v < u /\ u <= w
        BY <2>4, <2>7, <2>10
      <4>3. v < w
        BY ONLY <4>1, <4>2
      <4> QED BY <3>2, <4>3
    <3> QED BY <2>9, <3>1, <3>2
  <2> QED BY <2>2, <2>5, <2>8, <2>11
<1>4. \A b \in Block : \A r \in Reg : rin[b][r].iindx < b * Width
  BY <1>3
<1> HIDE DEF S
<1> QED BY <1>2, <1>4 DEF FreshInputs

\* So a block can be walked from its beginning.
LEMMA FreshWalked ==
  ASSUME FreshInputs, NEW b \in Block, NEW code, Len(code) \in 0 .. Width
  PROVE  Walked(code, b, 0, 0, rin[b])
<1>0. Width \in Nat /\ b \in Nat
  BY BlockAssumption DEF Block
<1>1. /\ rin[b] \in [Reg -> Ranged]
      /\ \A r \in Reg : rin[b][r].alias = NoReg /\ rin[b][r].iindx < b * Width
  BY DEF FreshInputs
<1>2. Acyclic(rin[b])
  <2>1. \A S \in SUBSET Reg : NoReg \notin S
    BY DEF Reg, NoReg
  <2> QED BY <1>1, <2>1 DEF Acyclic
<1>3. ASSUME NEW r \in Reg, NEW k \in 1 .. Len(code), rin[b][r].iindx = PcOf(b, k)
      PROVE  FALSE
  <2> PICK v, w : v = PcOf(b, k) /\ w = b * Width
    OBVIOUS
  <2>1. k \in 1 .. Width
    BY <1>0
  <2>2. v \in Nat /\ w <= v /\ w \in Nat
    BY <1>0, <2>1, PcFacts
  <2>3. v < w
    BY <1>1, <1>3
  <2> QED BY ONLY <2>2, <2>3
<1>4. \A r \in Reg : Placed(code, b, 0, 0, rin[b][r], r)
  BY <1>1, <1>3 DEF Placed
<1> QED BY <1>1, <1>2, <1>4 DEF Walked

-----------------------------------------------------------------------------
\* The end of a block: stores nobody reads are deleted, and it starts over.
LEMMA EndStands ==
  ASSUME blk \in Block, IsFunction(prog), FreshInputs, writes[blk] \subseteq Reg,
         NEW code, NEW rl, Stands(code, Len(code), Len(code), rl)
  PROVE  Stands(Delete(code, {Source(rl, r) : r \in DeadAtEnd(rl, code)}), 0, 0, rin[blk])
<1> PICK X, n : X = DeadAtEnd(rl, code) /\ n = Len(code)
  OBVIOUS
<1> PICK ks : ks = {Source(rl, r) : r \in X}
  OBVIOUS
<1>1. PICK p : Fit(p) /\ p.code[blk] = code /\ Known(p, n, rl) /\ Walked(code, blk, n, n, rl)
  BY DEF Stands
<1>2. /\ Len(code) \in 0 .. Width /\ n \in Nat /\ DOMAIN code = 1 .. n
      /\ \A k \in 1 .. n : IsInstruction(code[k])
  BY <1>1, FitFacts
<1>3. ASSUME NEW r \in X PROVE StoredAt(code, n, rl, r, Source(rl, r)) /\ ~CheckDestUsage(blk, r)
  <2>1. r \in Reg /\ Unread(rl, code, r) /\ ~CheckDestUsage(blk, r)
    BY DEF DeadAtEnd
  <2>2. /\ n \in 0 .. Len(p.code[blk]) /\ Walked(p.code[blk], blk, n, n, rl) /\ Unread(rl, p.code[blk], r)
    BY <1>1, <1>2, <2>1
  <2>3. StoredAt(p.code[blk], n, rl, r, Source(rl, r))
    BY ONLY <1>1, <2>1, <2>2, blk \in Block, IsFunction(prog), DeadFacts
  <2> QED BY <1>1, <2>1, <2>3
<1>4. X \in SUBSET BlockWrites(p, blk)
  <2> SUFFICES ASSUME NEW r \in X PROVE r \in BlockWrites(p, blk)
    OBVIOUS
  <2>1. Source(rl, r) \in 1 .. n /\ Overwritten(code[Source(rl, r)]) = {r}
    BY <1>3 DEF StoredAt
  <2> QED BY <1>1, <1>2, <2>1 DEF BlockWrites
<1>5. ASSUME NEW d \in ks
      PROVE  /\ d \in 1 .. n /\ Silent(code[d]) /\ code[d][2] \in X
             /\ \A j \in d + 1 .. n : code[d][2] \notin Used(code[j])
  <2>1. PICK r \in X : d = Source(rl, r)
    OBVIOUS
  <2>2. StoredAt(code, n, rl, r, d)
    BY <1>3, <2>1
  <2> QED BY <2>2 DEF StoredAt
<1>6. Idle(code, ks, X)
  BY <1>2, <1>5 DEF Idle
<1>7. PICK q : q = Changed(p, blk, Delete(p.code[blk], ks))
  OBVIOUS
<1>8. Fit(q) /\ q.code[blk] = Delete(code, ks) /\ Len(Delete(code, ks)) = Len(code) /\ Known(q, 0, rin[blk])
  <2>1. /\ Idle(p.code[blk], ks, X) /\ (\A r \in X : ~CheckDestUsage(blk, r))
        /\ n \in 0 .. Len(p.code[blk]) /\ 0 \in 0 .. Len(p.code[blk])
    BY <1>1, <1>2, <1>3, <1>6
  <2>2. \/ 0 = 0 /\ rin[blk] = rin[blk]
        \/ /\ 0 = n
           /\ \A e, t \in Machine :
                Sound(rl, e) /\ Agree(Reg \ Stale(p.code[blk], ks, n + 1), e, t) => Sound(rin[blk], t)
    OBVIOUS
  <2>3. /\ Fit(Changed(p, blk, Delete(p.code[blk], ks)))
        /\ Changed(p, blk, Delete(p.code[blk], ks)).code[blk] = Delete(p.code[blk], ks)
        /\ Len(Delete(p.code[blk], ks)) = Len(p.code[blk])
        /\ Known(Changed(p, blk, Delete(p.code[blk], ks)), 0, rin[blk])
    BY ONLY <1>1, <1>4, <2>1, <2>2, blk \in Block, DeletedKnown
  <2> QED BY <1>1, <1>7, <2>3
<1>9. Walked(Delete(code, ks), blk, 0, 0, rin[blk])
  BY <1>2, <1>8, FreshWalked
<1>10. Stands(Delete(code, ks), 0, 0, rin[blk])
  BY <1>8, <1>9 DEF Stands
<1> QED BY <1>10

\* Any register may be read.
AllReg == [b \in Block |-> Reg]

LEMMA AllCovers ==
  ASSUME NEW p, IsFunction(p)
  PROVE  Covers(AllReg, p)
<1>1. ASSUME NEW b \in Block PROVE BlockUses(p, b) \subseteq Reg /\ \A d \in ToSet(p.dest[b]) : d \in Block
  BY ProgramFacts, InstrRegs DEF BlockUses
<1> QED BY <1>1 DEF Covers, AllReg

\* What the end of block b, from instruction k on, reads of what it is given, if what
\* its successors read is in L.
Reading(L, p, b, k) ==
  {r \in Reg :
     \/ \E j \in k .. Len(p.code[b]) : /\ r \in Used(p.code[b][j])
                                       /\ \A i \in k .. j - 1 : r \notin Overwritten(p.code[b][i])
     \/ /\ \A i \in k .. Len(p.code[b]) : r \notin Overwritten(p.code[b][i])
        /\ \E d \in ToSet(p.dest[b]) : r \in L[d]}

LEMMA ReadingFacts ==
  ASSUME NEW p, IsFunction(p), NEW L, Covers(L, p), NEW b \in Block
  PROVE  /\ Reading(L, p, b, 1) \subseteq L[b]
         /\ \A d \in ToSet(p.dest[b]) : L[d] \subseteq Reading(L, p, b, Len(p.code[b]) + 1)
         /\ \A k \in 1 .. Len(p.code[b]) :
              /\ Used(p.code[b][k]) \subseteq Reading(L, p, b, k)
              /\ Reading(L, p, b, k + 1) \subseteq Reading(L, p, b, k) \cup Overwritten(p.code[b][k])
<1> PICK code, n : code = p.code[b] /\ n = Len(code)
  OBVIOUS
<1>0. /\ n \in Nat /\ DOMAIN code = 1 .. n /\ \A k \in 1 .. n : IsInstruction(code[k])
      /\ \A d \in ToSet(p.dest[b]) : d \in Block
  BY ProgramFacts
<1>1. /\ \A d \in ToSet(p.dest[b]) : L[d] \subseteq Reg /\ L[d] \ BlockWrites(p, b) \subseteq L[b]
      /\ BlockUses(p, b) \subseteq L[b]
  BY <1>0 DEF Covers
<1>2. ASSUME NEW r \in Reading(L, p, b, 1) PROVE r \in L[b]
  <2>1. CASE \E j \in 1 .. n : r \in Used(code[j]) /\ \A i \in 1 .. j - 1 : r \notin Overwritten(code[i])
    <3>1. r \in BlockUses(p, b)
      BY <2>1, UsesFacts
    <3> QED BY <1>1, <3>1
  <2>2. CASE /\ \A i \in 1 .. n : r \notin Overwritten(code[i])
             /\ \E d \in ToSet(p.dest[b]) : r \in L[d]
    <3>1. r \notin BlockWrites(p, b)
      BY <2>2, UsesFacts
    <3> QED BY <1>1, <2>2, <3>1
  <2> QED BY <1>2, <2>1, <2>2 DEF Reading
<1>3. ASSUME NEW d \in ToSet(p.dest[b]) PROVE L[d] \subseteq Reading(L, p, b, n + 1)
  <2>1. n + 1 .. n = {}
    BY <1>0
  <2> QED BY <1>1, <2>1 DEF Reading
<1>4. ASSUME NEW k \in 1 .. n
      PROVE  /\ Used(code[k]) \subseteq Reading(L, p, b, k)
             /\ Reading(L, p, b, k + 1) \subseteq Reading(L, p, b, k) \cup Overwritten(code[k])
  <2>1. k \in k .. n /\ k .. k - 1 = {} /\ Used(code[k]) \subseteq Reg
    BY <1>0, InstrRegs
  <2>2. Used(code[k]) \subseteq Reading(L, p, b, k)
    BY <2>1 DEF Reading
  <2>3. ASSUME NEW r \in Reading(L, p, b, k + 1), r \notin Overwritten(code[k])
        PROVE  r \in Reading(L, p, b, k)
    <3>0. r \in Reg
      BY DEF Reading
    <3>1. CASE \E j \in k + 1 .. n : /\ r \in Used(code[j])
                                     /\ \A i \in k + 1 .. j - 1 : r \notin Overwritten(code[i])
      <4>1. PICK j \in k + 1 .. n : /\ r \in Used(code[j])
                                    /\ \A i \in k + 1 .. j - 1 : r \notin Overwritten(code[i])
        BY <3>1
      <4>2. j \in k .. n /\ \A i \in k .. j - 1 : i = k \/ i \in k + 1 .. j - 1
        BY <1>0
      <4>3. \A i \in k .. j - 1 : r \notin Overwritten(code[i])
        BY <2>3, <4>1, <4>2
      <4> QED BY <3>0, <4>1, <4>2, <4>3 DEF Reading
    <3>2. CASE /\ \A i \in k + 1 .. n : r \notin Overwritten(code[i])
               /\ \E d \in ToSet(p.dest[b]) : r \in L[d]
      <4>1. \A i \in k .. n : i = k \/ i \in k + 1 .. n
        BY <1>0
      <4> QED BY <2>3, <3>0, <3>2, <4>1 DEF Reading
    <3> QED BY <2>3, <3>1, <3>2 DEF Reading
  <2> QED BY <2>2, <2>3
<1> QED BY <1>2, <1>3, <1>4

\* What a block does not read may differ where it is entered.
LEMMA GoodLoose ==
  ASSUME NEW p, IsFunction(p), NEW R, NEW L, NEW compiled, Good(R, L, p, compiled)
  PROVE  \E S : Good(S, AllReg, p, compiled)
<1> DEFINE A(b) == [k \in 1 .. Width + 1 |-> Reading(L, p, b, k)]
           S == [b \in Block |-> Loose(R[b], A(b))]
<1>0. Width \in Nat
  BY BlockAssumption
<1>1. /\ R \in [Block -> [1 .. Width + 1 -> SUBSET Same]] /\ Covers(L, p)
      /\ \A n \in Entering : <<n, n>> \in R[Entry][1]
      /\ \A b \in Block : InStep(R[b], p.code[b], compiled[b])
      /\ \A b \in Block : \A q \in R[b][Len(p.code[b]) + 1] : \A d \in ToSet(p.dest[b]) :
           \E x \in R[d][1] : x[1] = q[1] /\ Agree(L[d], x[2], q[2])
  BY DEF Good
<1>2. \A b \in Block : A(b) \in [1 .. Width + 1 -> SUBSET Reg]
  BY DEF Reading
<1>3. ASSUME NEW b \in Block PROVE InStep(S[b], p.code[b], compiled[b])
  <2> PICK code, Ab : code = p.code[b] /\ Ab = A(b)
    OBVIOUS
  <2>0. Len(code) \in Nat /\ Len(code) <= Width
    BY ProgramFacts
  <2>1. \A k \in 1 .. Len(code) : /\ Used(code[k]) \subseteq Ab[k]
                                  /\ Ab[k + 1] \subseteq Ab[k] \cup Overwritten(code[k])
    <3>1. \A k \in 1 .. Len(code) : k \in 1 .. Width + 1 /\ k + 1 \in 1 .. Width + 1
      BY <1>0, <2>0
    <3>2. \A k \in 1 .. Len(code) : Ab[k] = Reading(L, p, b, k) /\ Ab[k + 1] = Reading(L, p, b, k + 1)
      BY <3>1
    <3> QED BY <1>1, <3>2, ReadingFacts
  <2>2. InStep(R[b], code, compiled[b]) /\ Ab \in [1 .. Width + 1 -> SUBSET Reg]
    BY <1>1, <1>2
  <2> HIDE DEF A
  <2>3. \A k \in 1 .. Len(code) :
           \/ /\ code[k] = code[k] /\ Used(code[k]) \subseteq Ab[k]
              /\ Ab[k + 1] \subseteq Ab[k] \cup Overwritten(code[k])
           \/ /\ code[k] = Nop /\ Silent(code[k])
              /\ Ab[k + 1] \subseteq Ab[k] \ {code[k][2]}
    BY <2>1
  <2>4. Len(code) = Len(code)
    OBVIOUS
  <2>5. InStep(Loose(R[b], Ab), code, compiled[b])
    BY ONLY <2>2, <2>3, <2>4, Loosened
  <2>6. S[b] = Loose(R[b], Ab)
    OBVIOUS
  <2> QED BY <2>5, <2>6
<1>4. S \in [Block -> [1 .. Width + 1 -> SUBSET Same]]
  BY DEF Loose
<1>5. \A b \in Block : \A k \in 1 .. Width + 1 :
        S[b][k] = {q \in Same : \E x \in R[b][k] : x[1] = q[1] /\ Agree(Reading(L, p, b, k), x[2], q[2])}
  BY DEF Loose
<1> HIDE DEF S, A
<1>6. 1 \in 1 .. Width + 1
  BY <1>0
<1>7. ASSUME NEW n \in Entering PROVE <<n, n>> \in S[Entry][1]
  <2>1. <<n, n>> \in R[Entry][1] /\ <<n, n>> \in Same
    BY <1>1, <1>6, EntryIn
  <2>2. <<n, n>>[1] = n /\ <<n, n>>[2] = n /\ Agree(Reading(L, p, Entry, 1), n, n)
    BY DEF Agree
  <2> QED BY <1>5, <1>6, <2>1, <2>2, EntryIn
<1>8. ASSUME NEW b \in Block, NEW q \in S[b][Len(p.code[b]) + 1], NEW d \in ToSet(p.dest[b])
      PROVE  \E z \in S[d][1] : z[1] = q[1] /\ Agree(AllReg[d], z[2], q[2])
  <2>1. Len(p.code[b]) + 1 \in 1 .. Width + 1 /\ d \in Block
    BY <1>0, ProgramFacts
  <2>2. PICK x \in R[b][Len(p.code[b]) + 1] :
          x[1] = q[1] /\ Agree(Reading(L, p, b, Len(p.code[b]) + 1), x[2], q[2])
    BY <1>5, <2>1
  <2>3. q \in Same
    BY <1>5, <2>1
  <2>4. PICK y \in R[d][1] : y[1] = x[1] /\ Agree(L[d], y[2], x[2])
    BY <1>1, <2>2
  <2>5. L[d] \subseteq Reading(L, p, b, Len(p.code[b]) + 1) /\ Reading(L, p, d, 1) \subseteq L[d]
    BY <1>1, <2>1, ReadingFacts
  <2>6. Agree(Reading(L, p, d, 1), y[2], q[2])
    BY <2>2, <2>4, <2>5 DEF Agree
  <2>7. q \in S[d][1]
    BY <1>5, <1>6, <2>1, <2>2, <2>3, <2>4, <2>6
  <2>8. Agree(AllReg[d], q[2], q[2])
    BY DEF Agree
  <2> QED BY <2>7, <2>8
<1>9. Good(S, AllReg, p, compiled)
  BY <1>3, <1>4, <1>7, <1>8, AllCovers DEF Good
<1> QED BY <1>9

\* Two machines that are the same.
Twins == {<<m, m>> : m \in {n \in Machine : GlobalsOK(n.glob)}}

\* They stay so when both run the same instruction.
LEMMA TwinsTogether ==
  ASSUME NEW i, IsInstruction(i), NEW m \in Machine, GlobalsOK(m.glob)
  PROVE  Together(m, m, i, i) \subseteq Twins
<1>1. CASE i[1] = "call"
  <2> SUFFICES ASSUME NEW o \in Results(m, i) PROVE <<After(m, o), After(m, o)>> \in Twins
    BY <1>1 DEF Together
  <2>1. After(m, o) \in Effects(m, i)
    BY <1>1 DEF Effects
  <2>2. After(m, o) \in Machine /\ GlobalsOK(After(m, o).glob)
    BY <2>1, EffectsFacts
  <2> QED BY <2>2 DEF Twins
<1>2. CASE i[1] # "call"
  <2> SUFFICES ASSUME Keeps(m, i) PROVE <<Exec(m, i), Exec(m, i)>> \in Twins
    BY <1>2 DEF Together
  <2>1. Exec(m, i) \in Effects(m, i)
    BY <1>2 DEF Effects
  <2>2. Exec(m, i) \in Machine /\ GlobalsOK(Exec(m, i).glob)
    BY <2>1, EffectsFacts
  <2> QED BY <2>2 DEF Twins
<1> QED BY <1>1, <1>2

\* The compiled function runs in step with itself.
LEMMA GoodStart ==
  ASSUME NEW p, IsFunction(p)
  PROVE  \E S : Good(S, AllReg, p, p.code)
<1> DEFINE S == [b \in Block |-> [k \in 1 .. Width + 1 |-> Twins]]
<1>1. Width \in Nat
  BY BlockAssumption
<1>2. Twins \subseteq Same
  BY DEF Twins, Same
<1>3. S \in [Block -> [1 .. Width + 1 -> SUBSET Same]]
  BY <1>2
<1>4. \A b \in Block : \A k \in 1 .. Width + 1 : S[b][k] = Twins
  OBVIOUS
<1>5. \A q \in Twins : /\ q[1] \in Machine /\ GlobalsOK(q[1].glob) /\ q[2] = q[1]
                       /\ q = <<q[1], q[1]>>
  BY DEF Twins
<1> HIDE DEF S
<1>6. ASSUME NEW b \in Block PROVE InStep(S[b], p.code[b], p.code[b])
  <2> PICK code : code = p.code[b]
    OBVIOUS
  <2>1. /\ Len(code) \in 0 .. Width
        /\ \A k \in 1 .. Len(code) : IsInstruction(code[k])
    BY <1>1, ProgramFacts
  <2>2. Matches(code, code)
    BY <2>1 DEF Matches
  <2>3. ASSUME NEW k \in 1 .. Len(code), NEW q \in S[b][k]
        PROVE  /\ Shows(q[2], code[k]) = Shows(q[1], code[k])
               /\ Together(q[1], q[2], code[k], code[k]) \subseteq S[b][k + 1]
    <3>1. k \in 1 .. Width + 1 /\ k + 1 \in 1 .. Width + 1
      BY <1>1, <2>1
    <3>2. q \in Twins /\ S[b][k + 1] = Twins
      BY <1>4, <3>1
    <3>3. q[1] \in Machine /\ GlobalsOK(q[1].glob) /\ q[2] = q[1]
      BY <1>5, <3>2
    <3>4. Together(q[1], q[1], code[k], code[k]) \subseteq Twins
      BY <2>1, <3>3, TwinsTogether
    <3> QED BY <3>2, <3>3, <3>4
  <2>4. S[b] \in [1 .. Width + 1 -> SUBSET Same]
    BY <1>3
  <2>5. InStep(S[b], code, code)
    BY <2>2, <2>3, <2>4 DEF InStep
  <2> QED BY <2>5
<1>7. 1 \in 1 .. Width + 1
  BY <1>1
<1>8. ASSUME NEW n \in Entering PROVE <<n, n>> \in S[Entry][1]
  <2>1. n \in Machine /\ GlobalsOK(n.glob)
    BY DEF Entering
  <2>2. <<n, n>> \in Twins
    BY <2>1 DEF Twins
  <2> QED BY <1>4, <1>7, <2>2, EntryIn
<1>9. ASSUME NEW b \in Block, NEW q \in S[b][Len(p.code[b]) + 1], NEW d \in ToSet(p.dest[b])
      PROVE  \E x \in S[d][1] : x[1] = q[1] /\ Agree(AllReg[d], x[2], q[2])
  <2>1. Len(p.code[b]) + 1 \in 1 .. Width + 1 /\ d \in Block
    BY <1>1, ProgramFacts
  <2>2. q \in Twins /\ S[d][1] = Twins
    BY <1>4, <1>7, <2>1
  <2>3. Agree(AllReg[d], q[2], q[2])
    BY DEF Agree
  <2> QED BY <2>2, <2>3
<1>10. Covers(AllReg, p)
  BY AllCovers
<1>11. Good(S, AllReg, p, p.code)
  BY <1>3, <1>6, <1>8, <1>9, <1>10 DEF Good
<1> QED BY <1>11

-----------------------------------------------------------------------------
\* Machine x may come to instruction k of block b, if the function is called as the
\* analysis expects.
Comes(b, k, x) ==
  \E e \in Machine : \E T :
    /\ GlobalsOK(e.glob) /\ Holds(b, e)
    /\ RunThrough(T, b, e) /\ Runs(b, e) = T[Len(prog.code[b])]
    /\ x \in T[k - 1]

\* It comes to the first instruction of the blocks it enters,
LEMMA ComesFirst ==
  ASSUME IsFunction(prog), NEW b \in Block, NEW x \in Machine, GlobalsOK(x.glob), Holds(b, x)
  PROVE  Comes(b, 1, x)
<1>1. PICK T : RunThrough(T, b, x) /\ Runs(b, x) = T[Len(prog.code[b])]
  BY RunsThrough
<1>2. x \in T[0]
  BY <1>1 DEF RunThrough
<1>3. x \in T[1 - 1]
  BY <1>2
<1> QED BY <1>1, <1>3 DEF Comes

\* where what the analysis found of the block is true of it,
LEMMA ComesSound ==
  ASSUME NEW b \in Block, NEW x, Comes(b, 1, x)
  PROVE  Holds(b, x) /\ Sound(rin[b], x)
<1>1. PICK e \in Machine : \E T : /\ GlobalsOK(e.glob) /\ Holds(b, e)
                                  /\ RunThrough(T, b, e) /\ Runs(b, e) = T[Len(prog.code[b])]
                                  /\ x \in T[1 - 1]
  BY DEF Comes
<1>2. PICK T : RunThrough(T, b, e) /\ x \in T[1 - 1]
  BY <1>1
<1>3. x \in T[0]
  BY <1>2
<1>4. x = e
  BY <1>2, <1>3 DEF RunThrough
<1> QED BY <1>1, <1>4 DEF Holds

\* then to the next one,
LEMMA ComesOn ==
  ASSUME NEW b \in Block, NEW k \in 1 .. Len(prog.code[b]), NEW x, Comes(b, k, x),
         NEW y \in Effects(x, prog.code[b][k])
  PROVE  Comes(b, k + 1, y)
<1>1. PICK e \in Machine : \E T : /\ GlobalsOK(e.glob) /\ Holds(b, e)
                                  /\ RunThrough(T, b, e) /\ Runs(b, e) = T[Len(prog.code[b])]
                                  /\ x \in T[k - 1]
  BY DEF Comes
<1>2. PICK T : /\ RunThrough(T, b, e) /\ Runs(b, e) = T[Len(prog.code[b])]
               /\ x \in T[k - 1]
  BY <1>1
<1>3. T[k] = UNION {Effects(n, prog.code[b][k]) : n \in T[k - 1]}
  BY <1>2 DEF RunThrough
<1>4. y \in T[k]
  BY <1>2, <1>3
<1>5. k \in Nat /\ (k + 1) - 1 = k
  OBVIOUS
<1>6. y \in T[(k + 1) - 1]
  BY <1>4, <1>5
<1> QED BY <1>1, <1>2, <1>6 DEF Comes

\* and from the last one to the next block.
LEMMA ComesNext ==
  ASSUME Fixed, SourcesOK, Regular(prog), NEW b \in Block, NEW x \in Machine, GlobalsOK(x.glob),
         Comes(b, Len(prog.code[b]) + 1, x), NEW d \in ToSet(prog.dest[b])
  PROVE  d \in Block /\ Comes(d, 1, x)
<1>0. IsFunction(prog)
  BY DEF Fixed, Kinds
<1>1. PICK e \in Machine : \E T : /\ GlobalsOK(e.glob) /\ Holds(b, e)
                                  /\ RunThrough(T, b, e) /\ Runs(b, e) = T[Len(prog.code[b])]
                                  /\ x \in T[(Len(prog.code[b]) + 1) - 1]
  BY DEF Comes
<1>2. Len(prog.code[b]) \in Nat
  BY <1>0, ProgramFacts
<1>3. (Len(prog.code[b]) + 1) - 1 = Len(prog.code[b])
  BY <1>2
<1>4. x \in Runs(b, e)
  BY <1>1, <1>3
<1>5. Holds(d, x)
  BY <1>1, <1>4, StepHolds
<1>6. d \in Block
  BY <1>0, ProgramFacts
<1> QED BY <1>0, <1>5, <1>6, ComesFirst

\* When the analysis is over only the machines that may come to an instruction need be
\* looked at: what was found of a block is true of those that enter it.
LEMMA GoodEntered ==
  ASSUME Fixed, SourcesOK, Regular(prog), NEW S, NEW compiled, Good(S, AllReg, prog, compiled)
  PROVE  \E R : /\ Good(R, AllReg, prog, compiled)
                /\ \A c \in Block : \A q \in R[c][1] : Sound(rin[c], q[2])
<1> DEFINE R == [b \in Block |-> [k \in 1 .. Width + 1 |-> {q \in S[b][k] : Comes(b, k, q[2])}]]
<1>0. Width \in Nat /\ IsFunction(prog) /\ Structured(prog)
  BY BlockAssumption DEF Fixed, Kinds, Regular
<1>1. /\ S \in [Block -> [1 .. Width + 1 -> SUBSET Same]] /\ Covers(AllReg, prog)
      /\ \A n \in Entering : <<n, n>> \in S[Entry][1]
      /\ \A b \in Block : InStep(S[b], prog.code[b], compiled[b])
      /\ \A b \in Block : \A q \in S[b][Len(prog.code[b]) + 1] : \A d \in ToSet(prog.dest[b]) :
           \E x \in S[d][1] : x[1] = q[1] /\ Agree(AllReg[d], x[2], q[2])
  BY DEF Good
<1>2. R \in [Block -> [1 .. Width + 1 -> SUBSET Same]]
  BY <1>1
<1>3. \A b \in Block : \A k \in 1 .. Width + 1 : R[b][k] = {q \in S[b][k] : Comes(b, k, q[2])}
  OBVIOUS
<1> HIDE DEF R
<1>4. \A b \in Block : Len(prog.code[b]) \in 0 .. Width
  BY <1>0, ProgramFacts
<1>5. ASSUME NEW b \in Block PROVE InStep(R[b], prog.code[b], compiled[b])
  <2> PICK code, orig, Q, P : code = prog.code[b] /\ orig = compiled[b] /\ Q = S[b] /\ P = R[b]
    OBVIOUS
  <2>1. InStep(Q, code, orig) /\ Len(code) \in 0 .. Width
    BY <1>1, <1>4
  <2>2. ASSUME NEW k \in 1 .. Len(code), NEW q \in P[k]
        PROVE  /\ Shows(q[2], code[k]) = Shows(q[1], orig[k])
               /\ Together(q[1], q[2], orig[k], code[k]) \subseteq P[k + 1]
    <3>1. k \in 1 .. Width + 1 /\ k + 1 \in 1 .. Width + 1
      BY <1>0, <2>1
    <3>2. q \in Q[k] /\ Comes(b, k, q[2])
      BY <1>3, <3>1
    <3>3. Shows(q[2], code[k]) = Shows(q[1], orig[k])
      BY <2>1, <3>2 DEF InStep
    <3>4. ASSUME NEW x \in Together(q[1], q[2], orig[k], code[k]) PROVE x \in P[k + 1]
      <4>1. x \in Q[k + 1] /\ x[2] \in Effects(q[2], code[k])
        BY <2>1, <3>2, StepsFrom
      <4>2. Comes(b, k + 1, x[2])
        BY <3>2, <4>1, ComesOn
      <4> QED BY <1>3, <3>1, <4>1, <4>2
    <3> QED BY <3>3, <3>4
  <2>3. P \in [1 .. Width + 1 -> SUBSET Same] /\ Matches(code, orig)
    BY <1>2, <2>1 DEF InStep
  <2>4. InStep(P, code, orig)
    BY <2>2, <2>3 DEF InStep
  <2> QED BY <2>4
<1>6. 1 \in 1 .. Width + 1
  BY <1>0
<1>7. ASSUME NEW n \in Entering PROVE <<n, n>> \in R[Entry][1]
  <2>1. n \in Machine /\ GlobalsOK(n.glob)
    BY DEF Entering
  <2>2. Holds(Entry, n)
    BY <1>0, EntryHolds
  <2>3. Comes(Entry, 1, n)
    BY <1>0, <2>1, <2>2, ComesFirst, EntryIn
  <2>4. <<n, n>> \in S[Entry][1] /\ <<n, n>>[2] = n
    BY <1>1
  <2> QED BY <1>3, <1>6, <2>3, <2>4, EntryIn
<1>8. ASSUME NEW b \in Block, NEW q \in R[b][Len(prog.code[b]) + 1], NEW d \in ToSet(prog.dest[b])
      PROVE  \E x \in R[d][1] : x[1] = q[1] /\ Agree(AllReg[d], x[2], q[2])
  <2>1. Len(prog.code[b]) + 1 \in 1 .. Width + 1 /\ d \in Block
    BY <1>0, ProgramFacts
  <2>2. q \in S[b][Len(prog.code[b]) + 1] /\ Comes(b, Len(prog.code[b]) + 1, q[2])
    BY <1>3, <2>1
  <2>3. PICK x \in S[d][1] : x[1] = q[1] /\ Agree(AllReg[d], x[2], q[2])
    BY <1>1, <2>2
  <2>4. q \in Same /\ x \in Same
    BY <1>1, <1>6, <2>1, <2>2
  <2>5. /\ q[2] \in Machine /\ x[2] \in Machine /\ GlobalsOK(q[2].glob)
    BY <2>4 DEF Same
  <2>6. Agree(Reg, x[2], q[2])
    BY <2>1, <2>3 DEF AllReg
  <2>7. q[2] = x[2]
    BY <2>5, <2>6, AgreeOnAll
  <2>8. Comes(d, 1, x[2])
    BY <2>2, <2>5, <2>7, ComesNext
  <2>9. x \in R[d][1]
    BY <1>3, <1>6, <2>1, <2>8
  <2> QED BY <2>3, <2>9
<1>9. Good(R, AllReg, prog, compiled)
  BY <1>1, <1>2, <1>5, <1>7, <1>8 DEF Good
<1>10. \A c \in Block : \A q \in R[c][1] : Sound(rin[c], q[2])
  BY <1>3, <1>6, ComesSound
<1> QED BY <1>9, <1>10

-----------------------------------------------------------------------------
(***************************************************************************)
(* The passes, and the runs of what they leave.                            *)
(***************************************************************************)
\* A pass begins: facts are gathered about what the passes before it have left.
Gathering ==
  /\ blk = NoBlock /\ AInv /\ Transferred /\ at = NotCalled
  /\ uses \in [Block -> SUBSET Reg] /\ writes \in [Block -> SUBSET Reg]
  /\ \A c \in Block : uses[c] = BlockUses(prog, c) /\ writes[c] = BlockWrites(prog, c)
  /\ \E S : Good(S, AllReg, prog, original)

\* A block is being rewritten, up to instruction pos.
Rewriting ==
  /\ blk \in Block /\ Kinds /\ SourcesOK /\ \A r \in Reg : FromCode(rlist[r])
  /\ current = NoBlock /\ worklist = <<>> /\ at = NotCalled
  /\ FreshInputs
  /\ uses \in [Block -> SUBSET Reg] /\ writes \in [Block -> SUBSET Reg]
  /\ pos - 1 \in 0 .. Len(prog.code[blk])
  /\ Stands(prog.code[blk], pos - 1, pos - 1, rlist)

\* Code of the same length has the same places for facts to come from.
LEMMA SourcesStay ==
  ASSUME \A c \in Block : Len(prog'.code[c]) = Len(prog.code[c])
  PROVE  /\ \A f : FromCode(f) <=> (FromCode(f))'
         /\ rout' = rout /\ SourcesOK => SourcesOK'
         /\ rin' = rin /\ FreshInputs => FreshInputs'
<1>1. \A f : FromCode(f) <=> (FromCode(f))'
  BY DEF FromCode, PcOf
<1>2. rout' = rout /\ SourcesOK => SourcesOK'
  BY <1>1 DEF SourcesOK
<1>3. rin' = rin /\ FreshInputs => FreshInputs'
  BY <1>1 DEF FreshInputs
<1> QED BY <1>1, <1>2, <1>3

\* What it takes to go on with a function as it is now.
LEMMA StandsAgain ==
  ASSUME IsFunction(prog'), (Recorded(prog))', Carried(prog', blk'),
         NEW n, NEW m, NEW rl, (Known(prog, n, rl))', Walked(prog'.code[blk'], blk', n, m, rl)
  PROVE  (Stands(prog.code[blk], n, m, rl))'
<1>1. (Fit(prog))'
  BY DEF Fit
<1> QED BY <1>1 DEF Stands

\* A step that changes the current block and the facts, and nothing else.
LEMMA RewritingOn ==
  ASSUME Rewriting,
         UNCHANGED <<loopblocks, worklist, visited, rin, rout, current, machine, at,
                     original, blk, uses, writes>>,
         NEW code, NEW n \in 0 .. Len(code), NEW rl, Stands(code, n, n, rl),
         prog' = [prog EXCEPT !.code[blk] = code], rlist' = rl, pos' = n + 1,
         \A r \in Reg : FromCode(rl[r])
  PROVE  Rewriting'
<1>1. /\ blk \in Block /\ Kinds /\ IsFunction(prog)
      /\ blk' = blk /\ rin' = rin /\ rout' = rout /\ original' = original
      /\ uses' = uses /\ writes' = writes
  BY DEF Rewriting, Kinds
<1> PICK q : q = Changed(prog, blk, code)
  OBVIOUS
<1>2. prog' = q
  BY DEF Changed
<1>3. /\ Fit(q) /\ q.code[blk] = code /\ Known(q, n, rl) /\ Walked(code, blk, n, n, rl)
      /\ Len(code) = Len(prog.code[blk])
  <2>1. LET w == Changed(prog, blk, code)
        IN  /\ Fit(w) /\ w.code[blk] = code /\ Known(w, n, rl) /\ Walked(code, blk, n, n, rl)
            /\ Len(code) = Len(prog.code[blk])
    BY ONLY <1>1, Stands(code, n, n, rl), Settle
  <2> QED BY <2>1
<1>4. \A c \in Block : Len(prog'.code[c]) = Len(prog.code[c])
  BY <1>2, <1>3 DEF Fit
<1>5. IsFunction(q) /\ Recorded(q) /\ Carried(q, blk)
  BY <1>3 DEF Fit
<1>6. Len(code) \in 0 .. Width /\ Width \in Nat
  BY <1>1, <1>3, ProgramFacts, BlockAssumption
<1>7. Kinds'
  <2>1. \A h \in Block : LoopBlocks(q, h) = LoopBlocks(prog, h)
    BY <1>1, ChangedLoops
  <2>2. rl \in [Reg -> Ranged]
    BY <1>3 DEF Walked
  <2>3. n + 1 \in 1 .. Width + 1
    BY <1>6
  <2> QED BY <1>1, <1>2, <1>5, <2>1, <2>2, <2>3 DEF Kinds, OutputsOK
<1>8. SourcesOK' /\ FreshInputs' /\ \A r \in Reg : (FromCode(rlist[r]))'
  <2>1. SourcesOK /\ FreshInputs
    BY DEF Rewriting
  <2>2. \A r \in Reg : (FromCode(rl[r]))'
    BY <1>4, SourcesStay
  <2>3. \A r \in Reg : (FromCode(rlist[r]))'
    BY <2>2 DEF FromCode, PcOf
  <2> QED BY <1>1, <1>4, <2>1, <2>3, SourcesStay
<1>9. (Known(prog, n, rl))'
  BY <1>1, <1>2, <1>3 DEF Known, KnownBy
<1>10. (Recorded(prog))'
  BY <1>1, <1>2, <1>5 DEF Recorded
<1>11. (Stands(prog.code[blk], n, n, rl))'
  <2>1. IsFunction(prog') /\ Carried(prog', blk') /\ Walked(prog'.code[blk'], blk', n, n, rl)
    BY <1>1, <1>2, <1>3, <1>5
  <2> QED BY ONLY <1>9, <1>10, <2>1, StandsAgain
<1>12. (pos - 1 \in 0 .. Len(prog.code[blk]))' /\ (Stands(prog.code[blk], pos - 1, pos - 1, rlist))'
  <2>1. n \in Int /\ pos' - 1 = n
    BY <1>6
  <2>2. Len(prog'.code[blk']) = Len(code)
    BY <1>1, <1>2, <1>3
  <2> QED BY <1>11, <2>1, <2>2 DEF Stands, Known, KnownBy
<1> QED BY <1>1, <1>7, <1>8, <1>12 DEF Rewriting

\* The steps of the passes (optimize_block, optimize_pass).
LEMMA InstructionHolds ==
  ASSUME Rewriting, OptimizeInstruction
  PROVE  Rewriting'
<1> PICK n : n = pos - 1
  OBVIOUS
<1> PICK code, i, read : code = prog.code[blk] /\ i = code[pos] /\ read = MarkUsed(rlist, i)
  OBVIOUS
<1> PICK s : s = Optimized[read]
  OBVIOUS
<1>1. /\ blk \in Block /\ IsFunction(prog) /\ Kinds /\ pos \in Nat /\ pos = n + 1
      /\ n \in 0 .. Len(code) - 1 /\ Len(code) \in 0 .. Width /\ Width \in Nat
  <2>1. blk \in Block /\ Kinds /\ IsFunction(prog) /\ pos \in 1 .. Width + 1
    BY DEF Rewriting, Kinds
  <2>2. Len(code) \in 0 .. Width /\ Width \in Nat
    BY <2>1, ProgramFacts, BlockAssumption
  <2>3. pos <= Len(code)
    BY DEF OptimizeInstruction
  <2> QED BY <2>1, <2>2, <2>3
<1>2. Stands(code, n, n, rlist)
  BY DEF Rewriting
<1>3. Turned(s, pos) /\ Sourced(rlist, s.rl, PcOf(blk, pos))
  <2>1. n \in 0 .. Len(prog.code[blk]) - 1 /\ Stands(prog.code[blk], n, n, rlist)
    BY <1>1, <1>2
  <2>2. LET x == Optimized[MarkUsed(rlist, prog.code[blk][pos])]
        IN  Turned(x, pos) /\ Sourced(rlist, x.rl, PcOf(blk, pos))
    BY ONLY <1>1, <2>1, OptimizedStands
  <2>3. s = Optimized[MarkUsed(rlist, prog.code[blk][pos])]
    OBVIOUS
  <2> QED BY <2>2, <2>3
<1>4. Stands(s.code, pos, pos, Outcome(s, pos)) /\ Sourced(s.rl, Outcome(s, pos), PcOf(blk, pos))
  BY <1>3 DEF Turned
<1>5. /\ prog' = [prog EXCEPT !.code[blk] = s.code]
      /\ rlist' = Outcome(s, pos) /\ pos' = pos + 1
      /\ UNCHANGED <<loopblocks, worklist, visited, rin, rout, current, machine, at,
                     original, blk, uses, writes>>
  BY DEF OptimizeInstruction, Outcome
<1>6. Len(s.code) = Len(code)
  <2>1. LET w == Changed(prog, blk, s.code)
        IN  /\ Fit(w) /\ w.code[blk] = s.code /\ Known(w, pos, Outcome(s, pos))
            /\ Walked(s.code, blk, pos, pos, Outcome(s, pos))
            /\ Len(s.code) = Len(prog.code[blk])
    BY ONLY <1>1, <1>4, Settle
  <2> QED BY <2>1
<1>7. ASSUME NEW r \in Reg PROVE FromCode(Outcome(s, pos)[r])
  <2>1. FromCode(rlist[r])
    BY DEF Rewriting
  <2>2. Outcome(s, pos)[r].iindx \in {rlist[r].iindx, NoPc, PcOf(blk, pos)}
    BY <1>3, <1>4 DEF Sourced
  <2>3. pos \in 1 .. Len(prog.code[blk])
    BY <1>1
  <2> QED BY <1>1, <2>1, <2>2, <2>3 DEF FromCode
<1>8. pos \in 0 .. Len(s.code)
  BY <1>1, <1>6
<1> QED BY ONLY Rewriting, <1>4, <1>5, <1>7, <1>8, RewritingOn

LEMMA RepeatHolds ==
  ASSUME Rewriting, RepeatBlock
  PROVE  Rewriting'
<1> PICK code, ks : code = prog.code[blk] /\ ks = {Source(rlist, r) : r \in DeadAtEnd(rlist, code)}
  OBVIOUS
<1> PICK new : new = Delete(code, ks)
  OBVIOUS
<1>1. /\ blk \in Block /\ IsFunction(prog) /\ Kinds /\ pos - 1 = Len(code)
      /\ Len(code) \in 0 .. Width /\ Width \in Nat
  <2>1. blk \in Block /\ Kinds /\ IsFunction(prog) /\ pos \in 1 .. Width + 1
    BY DEF Rewriting, Kinds
  <2>2. Len(code) \in 0 .. Width /\ Width \in Nat
    BY <2>1, ProgramFacts, BlockAssumption
  <2>3. pos > Len(code) /\ pos - 1 \in 0 .. Len(code)
    BY DEF RepeatBlock, Rewriting
  <2> QED BY <2>1, <2>2, <2>3
<1>2. Stands(code, Len(code), Len(code), rlist) /\ FreshInputs /\ writes[blk] \subseteq Reg
  BY <1>1 DEF Rewriting
<1>3. Stands(new, 0, 0, rin[blk])
  <2>1. Stands(Delete(code, {Source(rlist, r) : r \in DeadAtEnd(rlist, code)}), 0, 0, rin[blk])
    BY ONLY <1>1, <1>2, EndStands
  <2> QED BY <2>1
<1>4. /\ prog' = [prog EXCEPT !.code[blk] = new] /\ rlist' = rin[blk] /\ pos' = 1
      /\ UNCHANGED <<loopblocks, worklist, visited, rin, rout, current, machine, at,
                     original, blk, uses, writes>>
  <2>1. DOMAIN prog = {"code", "src", "dest"} /\ DOMAIN prog.code = Block
    BY <1>1 DEF IsFunction
  <2> QED BY <1>1, <2>1 DEF RepeatBlock, LoadBlockInput
<1>5. Len(new) = Len(code)
  <2>1. LET w == Changed(prog, blk, new)
        IN  /\ Fit(w) /\ w.code[blk] = new /\ Known(w, 0, rin[blk])
            /\ Walked(new, blk, 0, 0, rin[blk])
            /\ Len(new) = Len(prog.code[blk])
    BY ONLY <1>1, <1>3, Settle
  <2> QED BY <2>1
<1>6. 0 \in 0 .. Len(new) /\ pos' = 0 + 1
  BY <1>1, <1>4, <1>5
<1>7. \A r \in Reg : FromCode(rin[blk][r])
  BY <1>1, <1>2 DEF FreshInputs
<1> QED BY ONLY Rewriting, <1>3, <1>4, <1>6, <1>7, RewritingOn

\* The passes are over, and two machines run in step.
Comparing ==
  /\ blk = NBlock /\ IsFunction(prog) /\ at \in Block \cup {NotCalled, Returned}
  /\ \E S : /\ Good(S, AllReg, prog, original)
            /\ at \in Block => /\ pos \in 1 .. Len(prog.code[at]) + 1
                               /\ <<machine, target>> \in S[at][pos]

\* The inductive invariant.
OInv == Gathering \/ Rewriting \/ Comparing

\* The phases exclude each other.
LEMMA Apart ==
  /\ NoBlock \notin Block /\ NBlock \notin Block /\ NoBlock # NBlock
  /\ NotCalled \notin Block /\ Returned \notin Block
BY BlockAssumption DEF Block, NoBlock, NotCalled, Returned

\* What a block reads and writes are registers.
LEMMA UsageTyped ==
  ASSUME NEW p, IsFunction(p), NEW b \in Block
  PROVE  BlockUses(p, b) \in SUBSET Reg /\ BlockWrites(p, b) \in SUBSET Reg
<1>1. /\ DOMAIN p.code[b] = 1 .. Len(p.code[b])
      /\ \A k \in DOMAIN p.code[b] : IsInstruction(p.code[b][k])
  BY ProgramFacts
<1>2. \A k \in DOMAIN p.code[b] : /\ Used(p.code[b][k]) \subseteq Reg
                                 /\ Overwritten(p.code[b][k]) \subseteq Reg
  BY <1>1, InstrRegs
<1>3. BlockUses(p, b) \subseteq Reg
  BY <1>2 DEF BlockUses
<1>4. BlockWrites(p, b) \subseteq Reg
  BY <1>2 DEF BlockWrites
<1> QED BY <1>3, <1>4

\* Machines that run in step show the same.
LEMMA ComparingShows ==
  ASSUME Comparing
  PROVE  PassPreserves
<1> SUFFICES ASSUME at \in Block
    PROVE  /\ target.glob = machine.glob /\ target.upv = machine.upv
           /\ pos <= Len(original[at]) =>
                Shows(target, prog.code[at][pos]) = Shows(machine, original[at][pos])
  BY DEF PassPreserves
<1>1. PICK S : /\ Good(S, AllReg, prog, original)
               /\ pos \in 1 .. Len(prog.code[at]) + 1 /\ <<machine, target>> \in S[at][pos]
  BY DEF Comparing
<1> PICK code, orig, Q, q, k :
      code = prog.code[at] /\ orig = original[at] /\ Q = S[at] /\ q = <<machine, target>> /\ k = pos
  OBVIOUS
<1>2. InStep(Q, code, orig) /\ q[1] = machine /\ q[2] = target
  BY <1>1 DEF Good
<1>3. Len(code) \in 0 .. Width /\ Len(orig) = Len(code) /\ Width \in Nat
  BY <1>2, BlockAssumption DEF InStep, Matches
<1>4. k \in 1 .. Width + 1 /\ q \in Q[k] /\ (k <= Len(orig) => k \in 1 .. Len(code))
  BY <1>1, <1>3
<1>5. q \in Same
  BY <1>2, <1>4 DEF InStep
<1>6. target.glob = machine.glob /\ target.upv = machine.upv
  BY <1>2, <1>5 DEF Same
<1>7. ASSUME k <= Len(orig) PROVE Shows(q[2], code[k]) = Shows(q[1], orig[k])
  BY <1>2, <1>4, <1>7 DEF InStep
<1> QED BY <1>2, <1>6, <1>7

\* The steps of the two runs.
LEMMA ComparingSame ==
  ASSUME UNCHANGED <<blk, prog, original>>, NEW S, Good(S, AllReg, prog, original),
         blk = NBlock, IsFunction(prog), at' \in Block \cup {NotCalled, Returned},
         at' \in Block => /\ pos' \in 1 .. Len(prog.code[at']) + 1
                          /\ <<machine', target'>> \in S[at'][pos']
  PROVE  Comparing'
BY DEF Comparing

LEMMA CallBothHolds ==
  ASSUME Comparing, CallBoth
  PROVE  Comparing'
<1>1. PICK S : Good(S, AllReg, prog, original)
  BY DEF Comparing
<1>2. /\ machine' \in Entering /\ target' = machine' /\ at' = Entry /\ pos' = 1
      /\ UNCHANGED <<blk, prog, original>>
  BY DEF CallBoth
<1>3. <<machine', target'>> \in S[Entry][1]
  BY <1>1, <1>2 DEF Good
<1>4. IsFunction(prog) /\ blk = NBlock
  BY DEF Comparing
<1>5. 1 \in 1 .. Len(prog.code[Entry]) + 1
  BY <1>4, ProgramFacts, EntryIn
<1> QED BY <1>1, <1>2, <1>3, <1>4, <1>5, EntryIn, ComparingSame

LEMMA RunBothHolds ==
  ASSUME Comparing, RunBoth
  PROVE  Comparing'
<1>1. /\ at \in Block /\ pos <= Len(original[at]) /\ Keeps(machine, original[at][pos])
      /\ pos' = pos + 1 /\ at' = at /\ UNCHANGED <<blk, prog, original>>
  BY DEF RunBoth
<1>2. PICK S : /\ Good(S, AllReg, prog, original)
               /\ pos \in 1 .. Len(prog.code[at]) + 1 /\ <<machine, target>> \in S[at][pos]
  BY <1>1 DEF Comparing
<1> PICK code, orig, Q, q, k :
      code = prog.code[at] /\ orig = original[at] /\ Q = S[at] /\ q = <<machine, target>> /\ k = pos
  OBVIOUS
<1>3. InStep(Q, code, orig) /\ q[1] = machine /\ q[2] = target
  BY <1>1, <1>2 DEF Good
<1>4. Len(code) \in 0 .. Width /\ Len(orig) = Len(code)
  BY <1>3 DEF InStep, Matches
<1>5. k \in 1 .. Len(code) /\ q \in Q[k] /\ k + 1 \in 1 .. Len(code) + 1
  BY <1>1, <1>2, <1>4
<1>6. <<machine', target'>> \in Together(q[1], q[2], orig[k], code[k])
  <2>1. CASE orig[k][1] = "call"
    <3>1. PICK o \in Results(machine, orig[k]) : machine' = After(machine, o) /\ target' = After(target, o)
      BY <2>1 DEF RunBoth
    <3> QED BY <1>3, <2>1, <3>1 DEF Together
  <2>2. CASE orig[k][1] # "call"
    <3>1. machine' = Exec(machine, orig[k]) /\ target' = Exec(target, code[k])
      BY <2>2 DEF RunBoth
    <3> QED BY <1>1, <1>3, <2>2, <3>1 DEF Together
  <2> QED BY <2>1, <2>2
<1>7. <<machine', target'>> \in Q[k + 1]
  BY <1>3, <1>5, <1>6, StepsFrom
<1>8. IsFunction(prog) /\ blk = NBlock
  BY DEF Comparing
<1> QED BY <1>1, <1>2, <1>5, <1>7, <1>8, ComparingSame

LEMMA BranchBothHolds ==
  ASSUME Comparing, BranchBoth
  PROVE  Comparing'
<1>0. IsFunction(prog) /\ blk = NBlock
  BY DEF Comparing
<1>1. /\ at \in Block /\ pos > Len(original[at])
      /\ at' \in (IF prog.dest[at] = <<>> THEN {Returned} ELSE ToSet(prog.dest[at]))
      /\ pos' = 1 /\ machine' = machine /\ target' = target /\ UNCHANGED <<blk, prog, original>>
  BY DEF BranchBoth, own
<1>2. PICK S : /\ Good(S, AllReg, prog, original)
               /\ pos \in 1 .. Len(prog.code[at]) + 1 /\ <<machine, target>> \in S[at][pos]
  BY <1>1 DEF Comparing
<1>3. CASE at' = Returned
  <2>1. at' \notin Block
    BY <1>3, Apart
  <2> QED BY <1>0, <1>1, <1>2, <1>3, <2>1, ComparingSame
<1>4. CASE at' # Returned
  <2>1. at' \in ToSet(prog.dest[at])
    BY <1>1, <1>4
  <2> PICK d, q : d = at' /\ q = <<machine, target>>
    OBVIOUS
  <2>2. d \in Block /\ Len(prog.code[d]) \in Nat /\ Len(prog.code[at]) \in 0 .. Width /\ Width \in Nat
    BY <1>0, <1>1, <2>1, ProgramFacts, BlockAssumption
  <2>3. InStep(S[at], prog.code[at], original[at])
    BY <1>1, <1>2 DEF Good
  <2>4. Len(original[at]) = Len(prog.code[at])
    BY <2>3 DEF InStep, Matches
  <2>5. pos = Len(prog.code[at]) + 1
    BY <1>1, <1>2, <2>2, <2>4
  <2>6. PICK x \in S[d][1] : x[1] = q[1] /\ Agree(AllReg[d], x[2], q[2])
    BY <1>1, <1>2, <2>1, <2>5 DEF Good
  <2>7. S \in [Block -> [1 .. Width + 1 -> SUBSET Same]]
    BY <1>2 DEF Good
  <2>8. 1 \in 1 .. Width + 1 /\ Len(prog.code[at]) + 1 \in 1 .. Width + 1
    BY <2>2
  <2>9. x \in Same /\ q \in Same
    BY <1>1, <1>2, <2>2, <2>5, <2>7, <2>8
  <2>10. x[2] \in Machine /\ q[2] \in Machine /\ x = <<x[1], x[2]>>
    BY <2>9 DEF Same
  <2>11. Agree(Reg, x[2], q[2])
    BY <2>2, <2>6 DEF AllReg
  <2>12. q[2] = x[2]
    BY <2>10, <2>11, AgreeOnAll
  <2>13. x = <<machine, target>>
    BY <2>6, <2>10, <2>12
  <2>14. 1 \in 1 .. Len(prog.code[d]) + 1
    BY <2>2
  <2> QED BY <1>0, <1>1, <1>2, <2>2, <2>6, <2>13, <2>14, ComparingSame
<1> QED BY <1>3, <1>4

\* The invariant holds to begin with, and every step keeps it.
LEMMA StartHolds ==
  ASSUME OptimizeInit
  PROVE  Gathering
<1>1. Init /\ original = prog.code /\ blk = NoBlock
  BY DEF OptimizeInit
<1>2. /\ uses = [b \in Block |-> BlockUses(prog, b)]
      /\ writes = [b \in Block |-> BlockWrites(prog, b)]
  BY DEF OptimizeInit
<1>3. IsFunction(prog) /\ at = NotCalled /\ current = NoBlock /\ visited = {}
  BY <1>1, ProgramAssumption DEF Init
<1>4. AInv
  BY <1>1, InitHolds
<1>5. Transferred
  BY <1>3 DEF Transferred
<1>6. uses \in [Block -> SUBSET Reg] /\ writes \in [Block -> SUBSET Reg]
  BY <1>2, <1>3, UsageTyped
<1>7. \A c \in Block : uses[c] = BlockUses(prog, c) /\ writes[c] = BlockWrites(prog, c)
  BY <1>2
<1>8. \E S : Good(S, AllReg, prog, original)
  BY <1>1, <1>3, GoodStart
<1> QED BY <1>1, <1>3, <1>4, <1>5, <1>6, <1>7, <1>8 DEF Gathering

LEMMA AnalyseHolds ==
  ASSUME Gathering, Analyse \/ UNCHANGED <<vars, own>>
  PROVE  Gathering'
<1>1. (TakeBlock \/ Simulate \/ LeaveBlock \/ UNCHANGED vars) /\ UNCHANGED own
  BY DEF Analyse
<1>2. AInv /\ Transferred
  BY DEF Gathering
<1>3. AInv'
  BY <1>1, <1>2, TakeBlockHolds, SimulateHolds, LeaveBlockHolds, StutterHolds
<1>4. [Next]_vars
  BY <1>1 DEF Next
<1>5. Transferred'
  BY <1>2, <1>3, <1>4, TransferredHolds
<1>6. UNCHANGED <<prog, at>>
  BY <1>1 DEF TakeBlock, Simulate, LeaveBlock, vars
<1>7. UNCHANGED <<blk, uses, writes, original>>
  BY <1>1 DEF own
<1> QED BY <1>3, <1>5, <1>6, <1>7 DEF Gathering

LEMMA BeginHolds ==
  ASSUME Gathering, BeginRewriting, Regular(prog), CarriedElsewhere(prog)
  PROVE  Rewriting'
<1>1. /\ current = NoBlock /\ worklist = <<>> /\ at = NotCalled /\ AInv /\ Transferred
      /\ blk' = Entry /\ rlist' = rin[Entry] /\ pos' = 1
      /\ UNCHANGED <<prog, loopblocks, worklist, visited, rin, rout, current, machine, at,
                     original, uses, writes>>
  BY DEF Gathering, BeginRewriting, LoadBlockInput
<1>2. Fixed /\ Kinds /\ SourcesOK /\ IsFunction(prog) /\ Structured(prog)
  BY <1>1, Stopped DEF AInv, Progress, Kinds, Regular
<1>3. FreshInputs
  BY <1>2, FreshFromFixed
<1>4. PICK R : /\ Good(R, AllReg, prog, original)
               /\ \A c \in Block : \A q \in R[c][1] : Sound(rin[c], q[2])
  <2>1. PICK S : Good(S, AllReg, prog, original)
    BY DEF Gathering
  <2> QED BY ONLY <1>2, <2>1, Regular(prog), GoodEntered
<1>5. Entry \in Block /\ Width \in Nat /\ Len(prog.code[Entry]) \in 0 .. Width
  BY <1>2, EntryIn, ProgramFacts, BlockAssumption
<1>6. Walked(prog.code[Entry], Entry, 0, 0, rin[Entry])
  BY <1>3, <1>5, FreshWalked
<1>7. /\ uses \in [Block -> SUBSET Reg] /\ writes \in [Block -> SUBSET Reg]
      /\ \A c \in Block : uses[c] = BlockUses(prog, c) /\ writes[c] = BlockWrites(prog, c)
  BY DEF Gathering
<1>8. (Recorded(prog))' /\ IsFunction(prog') /\ Carried(prog', blk')
  <2>1. Carried(prog, Entry)
    BY <1>5 DEF CarriedElsewhere, Carried
  <2> QED BY <1>1, <1>2, <1>7, <2>1 DEF Recorded
<1>9. PICK rl : rl = rin[Entry]
  OBVIOUS
<1>10. (Known(prog, 0, rl))'
  <2>1. \A q \in R[Entry][0 + 1] : Sound(rl, q[2])
    BY <1>4, <1>5, <1>9
  <2>2. (KnownBy(R, AllReg, prog, 0, rl))'
    BY <1>1, <1>4, <2>1 DEF KnownBy
  <2> QED BY <2>2 DEF Known
<1>11. (Stands(prog.code[blk], 0, 0, rl))'
  <2>1. Walked(prog'.code[blk'], blk', 0, 0, rl)
    BY <1>1, <1>6, <1>9
  <2> QED BY ONLY <1>8, <1>10, <2>1, StandsAgain
<1>12. (pos - 1 \in 0 .. Len(prog.code[blk]))' /\ (Stands(prog.code[blk], pos - 1, pos - 1, rlist))'
  BY <1>1, <1>5, <1>9, <1>11 DEF Stands, Known, KnownBy
<1>13. Kinds'
  <2>1. rin[Entry] \in [Reg -> Ranged] /\ 1 \in 1 .. Width + 1
    BY <1>3, <1>5 DEF FreshInputs
  <2> QED BY <1>1, <1>2, <2>1 DEF Kinds, OutputsOK
<1>14. SourcesOK' /\ FreshInputs' /\ \A r \in Reg : (FromCode(rlist[r]))'
  <2>1. \A r \in Reg : FromCode(rin[Entry][r])
    BY <1>3, <1>5 DEF FreshInputs
  <2>2. \A r \in Reg : (FromCode(rlist[r]))'
    BY <1>1, <2>1 DEF FromCode, PcOf
  <2> QED BY <1>1, <1>2, <1>3, <2>2, SourcesStay
<1> QED BY <1>1, <1>5, <1>7, <1>12, <1>13, <1>14 DEF Rewriting

\* What the current block has become, the function has become.
LEMMA RewritingKnows ==
  ASSUME Rewriting
  PROVE  \E R, L : /\ Good(R, L, prog, original)
                  /\ \A c \in Block : \A q \in R[c][1] : Sound(rin[c], q[2])
<1>1. PICK p : Fit(p) /\ p.code[blk] = prog.code[blk] /\ Known(p, pos - 1, rlist)
  BY DEF Rewriting, Stands
<1>2. PICK R, L : KnownBy(R, L, p, pos - 1, rlist)
  BY <1>1 DEF Known
<1>3. /\ Good(R, L, p, original)
      /\ \A c \in Block : \A q \in R[c][1] : Sound(rin[c], q[2])
  BY <1>2 DEF KnownBy
<1>4. p.dest = prog.dest /\ \A c \in Block : p.code[c] = prog.code[c]
  BY <1>1 DEF Fit
<1>5. \A c \in Block : BlockUses(p, c) = BlockUses(prog, c) /\ BlockWrites(p, c) = BlockWrites(prog, c)
  BY <1>4 DEF BlockUses, BlockWrites
<1>6. Covers(L, prog)
  BY <1>3, <1>4, <1>5 DEF Good, Covers
<1>7. Good(R, L, prog, original)
  BY <1>3, <1>4, <1>6 DEF Good
<1> QED BY <1>3, <1>7

LEMMA FinishHolds ==
  ASSUME Rewriting, FinishBlock, CarriedElsewhere(prog)
  PROVE  OInv'
<1>1. /\ blk \in Block /\ Kinds /\ IsFunction(prog) /\ SourcesOK /\ FreshInputs
      /\ current = NoBlock /\ worklist = <<>> /\ at = NotCalled
      /\ uses \in [Block -> SUBSET Reg] /\ writes \in [Block -> SUBSET Reg]
      /\ \A r \in Reg : FromCode(rlist[r])
  BY DEF Rewriting, Kinds
<1>2. /\ uses' = [uses EXCEPT ![blk] = BlockUses(prog, blk)]
      /\ writes' = [writes EXCEPT ![blk] = BlockWrites(prog, blk)]
      /\ UNCHANGED <<prog, loopblocks, rin, rout, current, machine, at, original>>
  BY DEF FinishBlock
<1>3. PICK R, L : /\ Good(R, L, prog, original)
                  /\ \A c \in Block : \A q \in R[c][1] : Sound(rin[c], q[2])
  BY RewritingKnows
<1>4. /\ uses' \in [Block -> SUBSET Reg] /\ writes' \in [Block -> SUBSET Reg]
      /\ \A c \in Block : uses'[c] = BlockUses(prog, c) /\ writes'[c] = BlockWrites(prog, c)
  <2>1. PICK p : Fit(p) /\ p.code[blk] = prog.code[blk]
    BY DEF Rewriting, Stands
  <2>2. \A c \in Block : p.code[c] = prog.code[c]
    BY <2>1 DEF Fit
  <2>3. \A c \in Block : BlockUses(p, c) = BlockUses(prog, c) /\ BlockWrites(p, c) = BlockWrites(prog, c)
    BY <2>2 DEF BlockUses, BlockWrites
  <2>4. \A c \in Block : c # blk => uses[c] = BlockUses(prog, c) /\ writes[c] = BlockWrites(prog, c)
    BY <2>1, <2>3 DEF Fit, Recorded
  <2>5. BlockUses(prog, blk) \in SUBSET Reg /\ BlockWrites(prog, blk) \in SUBSET Reg
    BY <1>1, UsageTyped
  <2> QED BY <1>1, <1>2, <2>4, <2>5
<1>5. Width \in Nat /\ 1 \in 1 .. Width + 1
  BY BlockAssumption
<1>6. CASE blk + 1 < NBlock
  <2> PICK c, rl : c = blk + 1 /\ rl = rin[c]
    OBVIOUS
  <2>1. c \in Block
    BY <1>1, <1>6, BlockAssumption DEF Block
  <2>2. /\ blk' = c /\ rlist' = rl /\ pos' = 1 /\ UNCHANGED <<worklist, visited>>
    BY <1>6 DEF FinishBlock, LoadBlockInput
  <2>3. Len(prog.code[c]) \in 0 .. Width
    BY <1>1, <1>5, <2>1, ProgramFacts
  <2>4. rl \in [Reg -> Ranged] /\ \A r \in Reg : FromCode(rl[r])
    BY <1>1, <2>1 DEF FreshInputs
  <2>5. (Recorded(prog))' /\ IsFunction(prog') /\ Carried(prog', blk')
    <3>1. Carried(prog, c)
      BY <2>1 DEF CarriedElsewhere, Carried
    <3> QED BY <1>1, <1>2, <1>4, <2>2, <3>1 DEF Recorded
  <2>6. (Known(prog, 0, rl))'
    <3>1. \A q \in R[c][0 + 1] : Sound(rl, q[2])
      BY <1>3, <2>1
    <3>2. (KnownBy(R, L, prog, 0, rl))'
      BY <1>2, <1>3, <2>2, <3>1 DEF KnownBy
    <3> QED BY <3>2 DEF Known
  <2>7. Walked(prog'.code[blk'], blk', 0, 0, rl)
    <3>1. Walked(prog.code[c], c, 0, 0, rin[c])
      BY ONLY <1>1, <2>1, <2>3, FreshWalked
    <3> QED BY <1>2, <2>2, <3>1
  <2>8. (Stands(prog.code[blk], 0, 0, rl))'
    BY ONLY <2>5, <2>6, <2>7, StandsAgain
  <2>9. (pos - 1 \in 0 .. Len(prog.code[blk]))' /\ (Stands(prog.code[blk], pos - 1, pos - 1, rlist))'
    BY <1>2, <2>2, <2>3, <2>8 DEF Stands, Known, KnownBy
  <2>10. Kinds'
    BY <1>1, <1>2, <1>5, <2>2, <2>4 DEF Kinds, OutputsOK
  <2>11. SourcesOK' /\ FreshInputs' /\ \A r \in Reg : (FromCode(rlist[r]))'
    <3>1. \A r \in Reg : (FromCode(rlist[r]))'
      BY <1>2, <2>2, <2>4 DEF FromCode, PcOf
    <3> QED BY <1>1, <1>2, <3>1, SourcesStay
  <2>12. Rewriting'
    BY <1>1, <1>2, <1>4, <2>1, <2>2, <2>9, <2>10, <2>11 DEF Rewriting
  <2> QED BY <2>12 DEF OInv
<1>7. CASE ~(blk + 1 < NBlock)
  <2>1. /\ blk' = (IF pass' < Passes THEN NoBlock ELSE NBlock)
        /\ worklist' = (IF pass' < Passes THEN <<Entry>> ELSE <<>>)
        /\ visited' = (IF pass' < Passes THEN {} ELSE visited)
        /\ UNCHANGED <<rlist, pos>>
    BY <1>7 DEF FinishBlock
  <2>2. \E S : Good(S, AllReg, prog, original)
    BY ONLY <1>1, <1>3, GoodLoose
  <2>3. CASE pass' < Passes
    <3>1. worklist' = <<Entry>> /\ visited' = {} /\ blk' = NoBlock /\ current' = NoBlock
      BY <1>1, <1>2, <2>1, <2>3
    <3>2. worklist' \in Seq(Block) /\ ToSet(worklist') = {Entry}
      BY <3>1, EntryIn, Members
    <3>3. Kinds'
      BY <1>1, <1>2, <2>1, <3>1, <3>2 DEF Kinds, OutputsOK
    <3>4. SourcesOK' /\ \A r \in Reg : (FromCode(rlist[r]))'
      <4>1. \A r \in Reg : (FromCode(rlist[r]))'
        BY <1>1, <1>2, <2>1 DEF FromCode, PcOf
      <4> QED BY <1>1, <1>2, <4>1, SourcesStay
    <3>5. Progress'
      BY <1>1, <1>2, <3>1, <3>2, <3>4 DEF Progress, Seen
    <3>6. AInv' /\ Transferred'
      BY <3>1, <3>3, <3>5 DEF AInv, Transferred
    <3>7. Gathering'
      BY <1>1, <1>2, <1>4, <2>2, <3>1, <3>6 DEF Gathering
    <3> QED BY <3>7 DEF OInv
  <2>4. CASE ~(pass' < Passes)
    <3>1. blk' = NBlock /\ at' = NotCalled
      BY <1>1, <1>2, <2>1, <2>4
    <3>2. Comparing'
      BY <1>1, <1>2, <2>2, <3>1, Apart DEF Comparing
    <3> QED BY <3>2 DEF OInv
  <2> QED BY <2>3, <2>4
<1> QED BY <1>6, <1>7

LEMMA RewritingStutters ==
  ASSUME Rewriting, UNCHANGED <<vars, own>>
  PROVE  Rewriting'
<1>1. UNCHANGED <<prog, loopblocks, worklist, visited, rin, rout, current, pos, rlist, machine, at,
                  original, blk, uses, writes>>
  BY DEF vars, analysis, own
<1>2. Kinds'
  BY <1>1 DEF Rewriting, Kinds, OutputsOK
<1>3. SourcesOK' /\ FreshInputs' /\ \A r \in Reg : (FromCode(rlist[r]))'
  <2>1. \A r \in Reg : (FromCode(rlist[r]))'
    BY <1>1 DEF Rewriting, FromCode, PcOf
  <2> QED BY <1>1, <2>1, SourcesStay DEF Rewriting
<1>4. (Stands(prog.code[blk], pos - 1, pos - 1, rlist))'
  <2>1. PICK p : /\ Fit(p) /\ p.code[blk] = prog.code[blk] /\ Known(p, pos - 1, rlist)
                 /\ Walked(prog.code[blk], blk, pos - 1, pos - 1, rlist)
    BY DEF Rewriting, Stands
  <2>2. (Fit(p))'
    BY <1>1, <2>1 DEF Fit, Recorded
  <2>3. (Known(p, pos - 1, rlist))'
    BY <1>1, <2>1 DEF Known, KnownBy
  <2> QED BY <1>1, <2>1, <2>2, <2>3 DEF Stands
<1> QED BY <1>1, <1>2, <1>3, <1>4 DEF Rewriting

LEMMA StepsHold ==
  ASSUME OInv, Regular(prog), CarriedElsewhere(prog), [OptimizeNext]_<<vars, own>>
  PROVE  OInv'
<1>1. CASE Gathering
  <2>1. blk = NoBlock /\ at = NotCalled
    BY <1>1 DEF Gathering
  <2>2. /\ ~OptimizeInstruction /\ ~RepeatBlock /\ ~FinishBlock
        /\ ~CallBoth /\ ~RunBoth /\ ~BranchBoth
    BY <2>1, Apart DEF OptimizeInstruction, RepeatBlock, FinishBlock, CallBoth, RunBoth, BranchBoth
  <2>3. Analyse \/ BeginRewriting \/ UNCHANGED <<vars, own>>
    BY <2>2 DEF OptimizeNext, Optimizing
  <2> QED BY <1>1, <2>3, AnalyseHolds, BeginHolds DEF OInv
<1>2. CASE Rewriting
  <2>1. blk \in Block /\ at = NotCalled
    BY <1>2 DEF Rewriting
  <2>2. ~Analyse /\ ~BeginRewriting /\ ~CallBoth /\ ~RunBoth /\ ~BranchBoth
    BY <2>1, Apart DEF Analyse, BeginRewriting, CallBoth, RunBoth, BranchBoth
  <2>3. OptimizeInstruction \/ RepeatBlock \/ FinishBlock \/ UNCHANGED <<vars, own>>
    BY <2>2 DEF OptimizeNext, Optimizing
  <2> QED BY <1>2, <2>3, InstructionHolds, RepeatHolds, FinishHolds, RewritingStutters DEF OInv
<1>3. CASE Comparing
  <2>1. blk = NBlock
    BY <1>3 DEF Comparing
  <2>2. ~Analyse /\ ~BeginRewriting /\ ~OptimizeInstruction /\ ~RepeatBlock /\ ~FinishBlock
    BY <2>1, Apart DEF Analyse, BeginRewriting, OptimizeInstruction, RepeatBlock, FinishBlock
  <2>3. CallBoth \/ RunBoth \/ BranchBoth \/ UNCHANGED <<vars, own>>
    BY <2>2 DEF OptimizeNext, Optimizing
  <2>4. CASE UNCHANGED <<vars, own>>
    <3>1. UNCHANGED <<blk, prog, original, at, pos, machine, target>>
      BY <2>4 DEF vars, analysis, own
    <3>2. Comparing'
      BY <1>3, <3>1 DEF Comparing
    <3> QED BY <3>2 DEF OInv
  <2> QED BY <1>3, <2>3, <2>4, CallBothHolds, RunBothHolds, BranchBothHolds DEF OInv
<1> QED BY <1>1, <1>2, <1>3 DEF OInv

\* That is what the two runs have to show.
LEMMA ShowsTheSame ==
  ASSUME OInv
  PROVE  PassPreserves
<1>1. CASE Comparing
  BY <1>1, ComparingShows
<1>2. CASE Gathering \/ Rewriting
  BY <1>2, Apart DEF Gathering, Rewriting, PassPreserves
<1> QED BY <1>1, <1>2 DEF OInv

\* Whatever path a call takes, in a function with any number of blocks, of any length,
\* and for any number of passes: what the optimizer leaves (optimize_pass, optimize_block
\* and the strategies they call) prints, passes to calls and stores in globals and
\* upvalues what the compiled code does. The functions are those the analysis is right
\* about (StaysRegular); the run `passes' checks that they stay so.
THEOREM PassesRight ==
  OptimizeSpec /\ []StaysRegular => []PassPreserves
<1>1. OptimizeInit => OInv
  BY StartHolds DEF OInv
<1>2. OInv /\ StaysRegular /\ [OptimizeNext]_<<vars, own>> => OInv'
  BY StepsHold DEF StaysRegular
<1>3. OInv => PassPreserves
  BY ShowsTheSame
<1> QED BY <1>1, <1>2, <1>3, PTL DEF OptimizeSpec

-----------------------------------------------------------------------------
(***************************************************************************)
(* Functions without loops.                                                *)
(***************************************************************************)
\* The function does not assign to its parameters and has no loops.
Loopless(p) ==
  ParametersKept(p) /\ Structured(p) /\ \A h \in Block : LoopSources(p, h) = {}

\* Such a function has all it takes for the analysis to be right about it,
LEMMA NoLoops ==
  ASSUME NEW p, IsFunction(p), Loopless(p)
  PROVE  /\ \A h \in Block : LoopBlocks(p, h) = {}
         /\ Regular(p) /\ CarriedElsewhere(p)
<1>1. ASSUME NEW h \in Block PROVE LoopBlocks(p, h) = {}
  <2> PICK C : C = {}
    OBVIOUS
  <2>1. /\ C \in SUBSET Block /\ LoopSources(p, h) \subseteq C
        /\ \A b \in C : b # h => Preds(p, b) \subseteq C
    BY DEF Loopless
  <2>2. LoopBlocks(p, h) \subseteq C
    BY <2>1, LoopFacts
  <2> QED BY <2>2
<1>2. CarriedElsewhere(p)
  BY <1>1 DEF CarriedElsewhere
<1>3. UpdatesAlone(p)
  <2> SUFFICES ASSUME NEW h \in Block
      PROVE  LET body == {w \in LoopBlocks(p, h) \X (1 .. Width) : w[2] <= Len(p.code[w[1]])}
                 I(w) == p.code[w[1]][w[2]]
             IN  \A w \in body :
                   I(w)[1] = "arith" /\ I(w)[2] \in {I(w)[3], I(w)[4]} =>
                     \A x \in body : x # w => Clobbered(I(x)) \cap {I(w)[2], I(w)[3], I(w)[4]} = {}
    BY DEF UpdatesAlone
  <2>1. LoopBlocks(p, h) \X (1 .. Width) = {}
    BY <1>1
  <2>2. {w \in LoopBlocks(p, h) \X (1 .. Width) : w[2] <= Len(p.code[w[1]])} = {}
    BY <2>1
  <2> QED BY <2>2
<1>4. ArgumentsLoaded(p) /\ LoadsInside(p)
  BY <1>1 DEF ArgumentsLoaded, LoadsInside
<1>5. ParametersKept(p) /\ Structured(p)
  BY DEF Loopless
<1> QED BY <1>1, <1>2, <1>3, <1>4, <1>5 DEF Regular

\* and so has what the passes make of it.
LEMMA ClobbersLess ==
  ASSUME NEW code, NEW orig, Matches(code, orig), NEW k \in 1 .. Len(code)
  PROVE  Clobbered(code[k]) \subseteq Clobbered(orig[k])
<1>1. /\ code[k][1] = "call" \/ orig[k][1] = "call" => code[k] = orig[k]
      /\ Overwritten(code[k]) \subseteq Overwritten(orig[k])
  BY DEF Matches
<1>2. CASE code[k] = orig[k]
  BY <1>2
<1>3. CASE code[k] # orig[k]
  BY <1>1, <1>3 DEF Clobbered
<1> QED BY <1>2, <1>3

LEMMA StaysLoopless ==
  ASSUME NEW p, IsFunction(p), Loopless(p), NEW q, IsFunction(q), q.src = p.src, q.dest = p.dest,
         \A b \in Block : Matches(q.code[b], p.code[b])
  PROVE  Loopless(q)
<1>1. \A h \in Block : LoopSources(q, h) = LoopSources(p, h) /\ Preds(q, h) = Preds(p, h)
  BY DEF LoopSources, Preds
<1>2. \A h \in Block : LoopSources(q, h) = {}
  BY <1>1 DEF Loopless
<1>3. \A h \in Block : LoopBlocks(q, h) = {}
  <2> TAKE h \in Block
  <2> PICK C : C = {}
    OBVIOUS
  <2>1. /\ C \in SUBSET Block /\ LoopSources(q, h) \subseteq C
        /\ \A b \in C : b # h => Preds(q, b) \subseteq C
    BY <1>2
  <2>2. LoopBlocks(q, h) \subseteq C
    BY <2>1, LoopFacts
  <2> QED BY <2>2
<1>4. Structured(q)
  BY <1>1, <1>3 DEF Loopless, Structured
<1>5. ParametersKept(q)
  <2>1. ASSUME NEW b \in Block, NEW r \in BlockClobbers(q, b) PROVE r \in BlockClobbers(p, b)
    <3>1. /\ DOMAIN q.code[b] = 1 .. Len(q.code[b]) /\ DOMAIN p.code[b] = 1 .. Len(p.code[b])
          /\ Matches(q.code[b], p.code[b])
      BY ProgramFacts
    <3>2. Len(p.code[b]) = Len(q.code[b])
      BY <3>1 DEF Matches
    <3>3. PICK k \in 1 .. Len(q.code[b]) : r \in Clobbered(q.code[b][k])
      BY <3>1 DEF BlockClobbers
    <3>4. r \in Clobbered(p.code[b][k])
      BY <3>1, <3>3, ClobbersLess
    <3> QED BY <3>1, <3>2, <3>4 DEF BlockClobbers
  <2> QED BY <2>1 DEF Loopless, ParametersKept
<1> QED BY <1>2, <1>4, <1>5 DEF Loopless

\* prog is a function of Programs that has been rewritten.
Descends ==
  \E p \in Programs : original = p.code /\ prog.src = p.src /\ prog.dest = p.dest

\* The code is compiled code that was rewritten instruction by instruction.
LEMMA OInvMatches ==
  ASSUME OInv
  PROVE  IsFunction(prog) /\ \A b \in Block : Matches(prog.code[b], original[b])
<1>1. IsFunction(prog)
  BY DEF OInv, Gathering, Rewriting, Comparing, AInv, Kinds
<1>2. \E R, L : Good(R, L, prog, original)
  <2>1. CASE Rewriting
    BY <2>1, RewritingKnows
  <2>2. CASE Gathering \/ Comparing
    BY <2>2 DEF Gathering, Comparing
  <2> QED BY <2>1, <2>2 DEF OInv
<1> QED BY <1>1, <1>2 DEF Good, InStep

\* No step changes the edges, or what was compiled.
LEMMA DescendsStays ==
  ASSUME Descends, IsFunction(prog), [OptimizeNext]_<<vars, own>>
  PROVE  Descends'
<1>1. original' = original
  BY DEF OptimizeNext, Optimizing, Analyse, BeginRewriting, OptimizeInstruction, RepeatBlock,
         FinishBlock, CallBoth, RunBoth, BranchBoth, own
<1>2. ASSUME blk \in Block, NEW code, prog' = [prog EXCEPT !.code[blk] = code]
      PROVE  prog'.src = prog.src /\ prog'.dest = prog.dest
  <2>1. prog' = Changed(prog, blk, code)
    BY <1>2 DEF Changed
  <2> QED BY <1>2, <2>1, ChangedFacts
<1>3. CASE OptimizeInstruction
  <2>1. blk \in Block /\ \E code : prog' = [prog EXCEPT !.code[blk] = code]
    BY <1>3 DEF OptimizeInstruction
  <2> QED BY <1>1, <1>2, <2>1 DEF Descends
<1>4. CASE RepeatBlock
  <2>1. blk \in Block /\ DOMAIN prog = {"code", "src", "dest"} /\ DOMAIN prog.code = Block
    BY <1>4 DEF RepeatBlock, IsFunction
  <2>2. \E code : prog' = [prog EXCEPT !.code[blk] = code]
    BY <1>4, <2>1 DEF RepeatBlock
  <2> QED BY <1>1, <1>2, <2>1, <2>2 DEF Descends
<1>5. CASE ~OptimizeInstruction /\ ~RepeatBlock
  <2>1. prog' = prog
    BY <1>5 DEF OptimizeNext, Optimizing, Analyse, TakeBlock, Simulate, LeaveBlock, BeginRewriting,
                FinishBlock, CallBoth, RunBoth, BranchBoth, vars
  <2> QED BY <1>1, <2>1 DEF Descends
<1> QED BY <1>3, <1>4, <1>5

\* A function without loops that does not assign to its parameters is one of them, and
\* stays one, whatever is folded, replaced, reloaded and deleted in it.
THEOREM LooplessStays ==
  ASSUME \A p \in Programs : Loopless(p)
  PROVE  OptimizeSpec => []StaysRegular
<1>1. OptimizeInit => OInv /\ Descends
  BY StartHolds DEF OInv, OptimizeInit, Init, Descends
<1>2. OInv /\ Descends => StaysRegular
  <2> SUFFICES ASSUME OInv, Descends PROVE StaysRegular
    OBVIOUS
  <2>1. PICK p \in Programs : original = p.code /\ prog.src = p.src /\ prog.dest = p.dest
    BY DEF Descends
  <2>2. IsFunction(prog) /\ \A b \in Block : Matches(prog.code[b], p.code[b])
    BY <2>1, OInvMatches
  <2>3. Loopless(prog)
    BY <2>1, <2>2, ProgramAssumption, StaysLoopless
  <2> QED BY <2>2, <2>3, NoLoops DEF StaysRegular
<1>3. OInv /\ Descends /\ [OptimizeNext]_<<vars, own>> => (OInv /\ Descends)'
  <2>1. OInv /\ StaysRegular /\ [OptimizeNext]_<<vars, own>> => OInv'
    BY StepsHold DEF StaysRegular
  <2>2. OInv /\ Descends /\ [OptimizeNext]_<<vars, own>> => Descends'
    BY DescendsStays, OInvMatches
  <2> QED BY <1>2, <2>1, <2>2
<1> QED BY <1>1, <1>2, <1>3, PTL DEF OptimizeSpec

\* For those the passes are right without more ado.
THEOREM LooplessRight ==
  ASSUME \A p \in Programs : Loopless(p)
  PROVE  OptimizeSpec => []PassPreserves
<1>1. OptimizeSpec => []StaysRegular
  BY LooplessStays
<1>2. OptimizeSpec /\ []StaysRegular => []PassPreserves
  BY PassesRight
<1> QED BY <1>1, <1>2, PTL
=============================================================================
