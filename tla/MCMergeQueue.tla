----------------------------- MODULE MCMergeQueue -----------------------------
(* A pull request of the owner and one of Dependabot, a job of each kind.  *)
EXTENDS MergeQueue

MCAuthor == [p \in PRs |-> IF p = 1 THEN "owner" ELSE "dependabot"]
=============================================================================
