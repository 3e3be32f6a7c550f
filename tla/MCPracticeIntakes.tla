-------------------------- MODULE MCPracticeIntakes --------------------------
(* The baselines of a topic on small instances. *)
EXTENDS PracticeIntakes, TLC

\* Pages, records and questions are interchangeable.
IntakeSymmetry == Permutations(Tabs) \union Permutations(Records) \union Permutations(Questions)

=============================================================================
