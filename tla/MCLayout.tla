------------------------------ MODULE MCLayout ------------------------------
(***************************************************************************)
(* Instances of Layout for TLC: programs of five instructions, one or two  *)
(* functions, and a class.                                                 *)
(***************************************************************************)
EXTENDS Layout

CONSTANTS main, method, class

Plain      == [op |-> "plain", to |-> <<>>]
Return     == [op |-> "return", to |-> <<>>]
Bif(t)     == [op |-> "bif", to |-> <<t>>]
Pusherr(s) == [op |-> "pusherr", to |-> s]

\* The instructions that may be at k in a function with body first .. last.
At(k, first, last) ==
  {Return} \cup {B(t) : t \in first .. last}
    \cup (IF k = last THEN {}
          ELSE {Plain} \cup {Bif(t) : t \in first .. last}
                 \cup {Pusherr(<<t>>) : t \in k + 1 .. last}
                 \cup {Pusherr(<<t, k + 1>>) : t \in k + 2 .. last})

Codes(first, last) == {c \in [first .. last -> UNION {At(k, first, last) : k \in first .. last}] :
                         \A k \in first .. last : c[k] \in At(k, first, last)}

\* The two functions together, the second from n on, and what the components hold.
Program(c, d, n, h) ==
  [code  |-> [i \in Ix |-> IF i < n THEN c[i] ELSE d[i]],
   entry |-> (main :> 0) @@ (method :> n),
   holds |-> h]

\* A function of four instructions, that refers to itself; the method is nowhere
\* referred to.
Recursive == {"recursive"} \X Codes(0, Size - 2) \X {[i \in {Size - 1} |-> Return]}
RecursiveHolds == (main :> <<main>>) @@ (method :> <<>>) @@ (class :> <<method>>)

\* The global function, of two instructions, refers to a class; a method of that,
\* of three, refers back. The class is met twice before it is processed.
Mutual == {"mutual"} \X Codes(0, 1) \X Codes(2, Size - 1)
MutualHolds ==
  (main :> <<class, method, class>>) @@ (method :> <<class, main>>) @@ (class :> <<method>>)

MCPrograms ==
  {IF x[1] = "mutual" THEN Program(x[2], x[3], 2, MutualHolds)
                      ELSE Program(x[2], x[3], Size - 1, RecursiveHolds) :
     x \in Mutual \cup Recursive}

\* while (true) { if (c) break }, at the start of the global function.
Forever ==
  Program(<<Bif(3), Bif(0), Return>> @@ (0 :> Plain), [i \in {Size - 1} |-> Return],
          Size - 1, RecursiveHolds)
MCForever == {Forever}
=============================================================================
