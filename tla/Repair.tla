------------------------------- MODULE Repair -------------------------------
(***************************************************************************)
(* What the optimizer does to the control flow graph while it rewrites the *)
(* code: edges are cut when a branch is decided or a function is dead, and *)
(* blocks that cannot be reached any more are cut off                      *)
(* (src/src/optimize.c, src/src/strategy.c). Which branches are decided,   *)
(* which functions are dead and which instructions are deleted is up to the*)
(* analysis, and any choice is allowed here.                               *)
(***************************************************************************)
EXTENDS CFGBuild

VARIABLES
  code,       \* the code as rewritten so far
  edges,      \* the links of each block (dest), as far as they are not cut
  entries,    \* the blocks that are entries (isentry)
  reachable   \* the cached set of blocks that can be reached

rvars == <<code, edges, entries, reachable>>

Nop == [op |-> "nop", to |-> <<>>]
B(t) == [op |-> "b", to |-> <<t>>]

\* Control runs through what has been deleted.
Follows(c, k) == IF c[k].op = "nop" THEN {k + 1} ELSE Successors(c, k)

-----------------------------------------------------------------------------
(***************************************************************************)
(* Reachability.                                                           *)
(***************************************************************************)
\* Mutant: the cache is not marked dirty.
KeepReachable(e, roots) == reachable

\* _optimize_refreshreachable: every cut marks the cache dirty, and the pruning
\* that follows it asks for it first.
Reachable(e, roots) == ReachedFrom(roots, e)

\* Mutant: pruning stops at the block that was cut off.
PruneOne(e, x, live) == IF x \in live THEN e ELSE [e EXCEPT ![x] = {}]

\* _pruneunreachableblock: a block that cannot be reached loses its edges, and so
\* does each it led to.
Prune(e, x, live) ==
  LET dead == ReachedFrom({x} \ live, [s \in DOMAIN e |-> e[s] \ live])
  IN  [s \in DOMAIN e |-> IF s \in dead THEN {} ELSE e[s]]

\* cfgraph_disconnect, from both ends.
Disconnect(e, s, t) == [e EXCEPT ![s] = @ \ {t}]

-----------------------------------------------------------------------------
(***************************************************************************)
(* Rewriting. Only blocks that can be reached are rewritten.               *)
(***************************************************************************)
Rewriting == edges # <<>>

\* The graph, when it is built: the first query finds the cache dirty.
StartRewriting ==
  /\ Built /\ ~Rewriting
  /\ edges' = dest
  /\ entries' = {s \in DOMAIN dest : s = prog.entry[block[s].func]}
  /\ reachable' = Reachable(edges', entries')
  /\ UNCHANGED <<vars, code>>

\* optimize_deleteinstruction, of an instruction that does not branch.
DeleteInstruction ==
  /\ Rewriting
  /\ \E s \in reachable, k \in Ix :
       /\ k \in Extent(s) /\ code[k].op = "plain"
       /\ code' = [code EXCEPT ![k] = Nop]
  /\ UNCHANGED <<vars, edges, entries, reachable>>

\* _repairconditionalbranch: block s does not go to t any more. A branch to the
\* next block has one edge, which stays.
CutEdge(s, t) ==
  IF Cardinality(edges[s]) = 1
  THEN UNCHANGED <<edges, reachable>>
  ELSE LET e == Disconnect(edges, s, t)
       IN  /\ reachable' = Reachable(e, entries)
           /\ edges' = Prune(e, t, reachable')

\* Mutant: an untaken branch loses its fallthrough, the edge of the taken one.
CutTaken(s, target) == CutEdge(s, block[s].end + 1)

\* optimize_repairerasedconditionalbranch, optimize_repairtakenconditionalbranch.
CutUntaken(s, target) == CutEdge(s, target)
CutFallthrough(s) == CutEdge(s, block[s].end + 1)

\* strategy_constant_branch_elimination: the branch at the end of a block is never
\* taken, or always.
EraseBranch ==
  /\ Rewriting
  /\ \E s \in reachable :
       LET k == block[s].end
       IN  /\ code[k].op = "bif"
           /\ \/ CutUntaken(s, Head(code[k].to)) /\ code' = [code EXCEPT ![k] = Nop]
              \/ CutFallthrough(s) /\ code' = [code EXCEPT ![k] = B(Head(code[k].to))]
  /\ UNCHANGED <<vars, entries>>

\* strategy_redundant_branch_elimination.
EraseRedundantBranch ==
  /\ Rewriting
  /\ \E s \in reachable :
       LET k == block[s].end
       IN  code[k] = B(k + 1) /\ code' = [code EXCEPT ![k] = Nop]
  /\ UNCHANGED <<vars, edges, entries, reachable>>

\* optimize_prunedeadfunctionblocks and optimize_prunedeadclassblocks, of a function
\* that is not called.
PruneFunction ==
  /\ Rewriting
  /\ \E s \in entries :
       /\ block[s].func # Global
       /\ entries' = entries \ {s}
       /\ reachable' = Reachable(edges, entries')
       /\ edges' = Prune(edges, s, reachable')
  /\ UNCHANGED <<vars, code>>

RInit ==
  /\ Init
  /\ code = prog.code
  /\ edges = <<>>
  /\ entries = {}
  /\ reachable = {}

Rewrite ==
  \/ StartRewriting \/ DeleteInstruction \/ EraseBranch \/ EraseRedundantBranch
  \/ PruneFunction

-----------------------------------------------------------------------------
(***************************************************************************)
(* Properties.                                                             *)
(***************************************************************************)
\* However branches are decided, the edges of a block that can be reached are the
\* ways its code can go: analysis and liveness follow the edges, the machine
\* follows the code.
EdgesFollowCode ==
  \A s \in reachable : edges[s] = Follows(code, block[s].end)

\* The cache is right whenever it is used: a block it leaves out is not optimized
\* and not laid out.
CacheRight ==
  Rewriting => reachable = ReachedFrom(entries, edges)

\* No edge leads from a block that cannot be reached to one that can: the facts a
\* block starts with are joined over its predecessors, and dead ones would spoil
\* them.
DeadCutOff == \A s \in DOMAIN edges \ reachable : edges[s] \cap reachable = {}
=============================================================================
