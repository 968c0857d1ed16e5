--------------------------- MODULE MCTransferPipeline ---------------------------
(* Two operations that may use each other's ids, on two successive chains.     *)
EXTENDS TransferPipeline, TLC

CONSTANTS o1, o2, s1, s2, d1, d2

\* One simulation result on each chain.
OneResult == [fixture : Fixtures, n : {1}]
\* As many as a repeated simulation needs.
TwoResults == [fixture : Fixtures, n : 1..2]

\* Every state that a caller may ask for on this side of the first approval.
PipelineTargets ==
  {s \in LIFECYCLE_STATES : Stage[s] \in 1..9} \union {"REVALIDATION_REQUIRED", "EXPIRED"}

Symmetric ==
  Permutations({o1, o2}) \union Permutations({s1, s2}) \union Permutations({d1, d2})
=============================================================================
