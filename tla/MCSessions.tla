----------------------------- MODULE MCSessions -----------------------------
(* Sessions for TLC, with the mapping of one login.                        *)
EXTENDS SessionsRefinement, TLC

\* Sound for the safety properties: nothing tells two users or two request
\* slots apart, nor two tokens other than TheLineage.
Symmetry ==
  Permutations(Users) \cup Permutations(Requests)
    \cup Permutations(Tokens \ {TheLineage})
=============================================================================
