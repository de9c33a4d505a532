------------------------------- MODULE Layout -------------------------------
(***************************************************************************)
(* The layout of the final program (src/src/layout.c): the blocks that can *)
(* be reached are copied without what was deleted, and branches, tables of *)
(* error handlers and the entries of functions are moved to where their    *)
(* blocks went. Annotations are left out.                                  *)
(***************************************************************************)
EXTENDS Repair

VARIABLE out    \* the new program, or what became of it

NoLayout == [status |-> "none", code |-> <<>>, entry |-> <<>>]

\* The entry of a function is its first instruction.
ASSUME EntryAssumption ==
  \A p \in Programs, f \in Function : \A k \in Body(p, f) : p.entry[f] <= k

-----------------------------------------------------------------------------
(***************************************************************************)
(* Copying blocks.                                                         *)
(***************************************************************************)
\* Mutant: an empty block is left out, entry or not.
KeptNonempty(s) == \E k \in Extent(s) : code[k].op # "nop"

\* layout_consolidate: a block with nothing left in it is kept, unless it is an
\* entry.
Kept(s) == s \in entries => \E k \in Extent(s) : code[k].op # "nop"

Emitted == {s \in reachable : Kept(s)}

\* blockcomposer_processblock: the instructions of a block that are copied. One
\* that is empty becomes a nop, at its end.
Copied(s) ==
  LET real == {k \in Extent(s) : code[k].op # "nop"}
  IN  IF real = {} THEN {block[s].end} ELSE real

Source == UNION {Copied(s) : s \in Emitted}

\* Where instruction k is copied to. Blocks are copied in the order of their code.
Place(k) == Cardinality({j \in Source : j < k})

Start(s) == Place(Min(Copied(s)))

-----------------------------------------------------------------------------
(***************************************************************************)
(* Repairs.                                                                *)
(***************************************************************************)
\* Mutant: the branch of a conditional goes to the block that follows.
TargetFollows(s) == CHOOSE t \in edges[s] : Cardinality(edges[s]) > 1 => t = block[s].end + 1

\* blockcomposer_fixbranch: a branch goes to the only block its block is linked to,
\* or the one that does not follow.
Target(s) ==
  IF edges[s] = {} THEN NoBlock
  ELSE CHOOSE t \in edges[s] : Cardinality(edges[s]) > 1 => t # block[s].end + 1

\* _fixbrnch, _mapblockostart: the blocks an emitted one has to find.
Needed(s) ==
  CASE code[block[s].end].op \in {"b", "bif"} -> {Target(s)}
    [] code[block[s].end].op = "pusherr"      -> ToSet(code[block[s].end].to)
    [] OTHER                                  -> {}

\* A branch to the next instruction is left out, if it is unconditional.
Fixed(k, i, to) == IF i.op = "b" /\ Start(to) = Place(k) + 1 THEN Nop ELSE [i EXCEPT !.to = <<Start(to)>>]

\* The instruction k as it is copied, last of block s or not.
Laid(s, k) ==
  LET i == code[k]
  IN  CASE i.op \in {"b", "bif"} -> Fixed(k, i, Target(s))
        [] i.op = "pusherr"      -> [i EXCEPT !.to = [n \in DOMAIN i.to |-> Start(i.to[n])]]
        [] OTHER                 -> i

Home(k) == CHOOSE s \in Emitted : k \in Extent(s)
Origin(n) == CHOOSE k \in Source : Place(k) = n

NewCode == [n \in 0 .. Cardinality(Source) - 1 |-> Laid(Home(Origin(n)), Origin(n))]

\* blockcomposer_fixentries: a function starts with the first block that is emitted
\* of those that can be reached from its entry.
NewEntry(s) ==
  LET kept == Emitted \cap ReachedFrom({s}, edges)
  IN  IF kept = {} THEN s ELSE Min({Start(x) : x \in kept})

-----------------------------------------------------------------------------
(***************************************************************************)
(* The whole (layout).                                                     *)
(***************************************************************************)
Missing == (UNION {Needed(s) : s \in Emitted}) \ Emitted

\* A conditional branch has both its edges, or goes to the next block.
Incoherent ==
  \E s \in Emitted : /\ code[block[s].end].op = "bif" /\ Cardinality(edges[s]) < 2
                     /\ Head(code[block[s].end].to) # block[s].end + 1

LayOut ==
  /\ Rewriting /\ out = NoLayout
  /\ out' = IF Missing # {} \/ Incoherent THEN [NoLayout EXCEPT !.status = "missing"]
            ELSE [status |-> "done", code |-> NewCode,
                  entry |-> [s \in entries |-> NewEntry(s)]]
  /\ UNCHANGED <<vars, rvars>>

LInit == RInit /\ out = NoLayout

\* The graph is built before anything is rewritten.
Build == ~Rewriting /\ Next /\ UNCHANGED <<rvars, out>>

LNext ==
  \/ Build
  \/ out = NoLayout /\ Rewrite /\ UNCHANGED out
  \/ LayOut

LSpec == LInit /\ [][LNext]_<<vars, rvars, out>> /\ WF_vars(Build)

-----------------------------------------------------------------------------
(***************************************************************************)
(* Properties.                                                             *)
(***************************************************************************)
\* Where control that comes to instruction k does something next: jumps and what
\* was deleted are passed through. None if it goes round for ever.
Lands(c, k) ==
  LET silent == {j \in DOMAIN c : c[j].op \in {"nop", "b"}}
  IN  ReachedFrom({k}, [j \in 0 .. Size |-> IF j \in silent THEN Follows(c, j) ELSE {}]) \ silent

Visible(c) == {k \in DOMAIN c : c[k].op \notin {"nop", "b"}}

\* The new code does what the old one did: control that enters a function comes to
\* the same instruction, and from each instruction to the same ones as before, on
\* each of its branches.
LaidOutRight ==
  out.status = "done" =>
    LET to(K) == {Place(k) : k \in K}
        new == out.code
    IN  /\ \A s \in entries : Lands(new, out.entry[s]) = to(Lands(code, s))
        /\ \A n \in Visible(new) :
             LET k == Origin(n)
             IN  /\ new[n].op = code[k].op /\ Len(new[n].to) = Len(code[k].to)
                 /\ \A i \in DOMAIN new[n].to :
                      Lands(new, new[n].to[i]) = to(Lands(code, code[k].to[i]))
                 /\ FallsThrough(new[n]) => Lands(new, n + 1) = to(Lands(code, k + 1))

\* Whatever has been cut and deleted, layout finds what it repairs. The only block
\* it can miss is an entry that became empty, to which a loop goes back.
OnlyEntriesMissing == Rewriting => Missing \subseteq entries /\ ~Incoherent

\* "Missing block" (layout.c:124) is said to be unreachable.
NoBlockMissing == out.status # "missing"
=============================================================================
