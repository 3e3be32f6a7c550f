------------------------- MODULE MCWorkflowOperation -------------------------
(* One workflow operation on small instances. *)
EXTENDS WorkflowOperation, TLC

\* The requests are interchangeable.
RequestSymmetry == Permutations(Requests)

NextRound == {"mcq_next_round"}

ReflectionOrProblem == {"memory_reflection", "problem_generation"}

Production == {[refreshing |-> TRUE, configured |-> TRUE]}

=============================================================================
