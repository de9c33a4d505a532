------------------------------ MODULE Reached ------------------------------
(***************************************************************************)
(* Depth-first walks of a graph: the builder's search of components, the   *)
(* walk to the blocks that can be reached, and that from the end of a loop *)
(* back to its header each mark what they come to, and go on from what was *)
(* not marked before.                                                      *)
(***************************************************************************)
\* What is reached from S along succ, which gives the successors of each node.
ReachedFrom(S, succ) ==
  LET reached[R \in SUBSET DOMAIN succ] ==
        LET more == R \cup UNION {succ[x] : x \in R}
        IN  IF more = R THEN R ELSE reached[more]
  IN  reached[S]
=============================================================================
