---------------------------- MODULE MCAgentRelay ----------------------------
(* The relay alone, on small instances. *)
EXTENDS AgentRelay, TLC

\* The slots are interchangeable.
SlotSymmetry == Permutations(Slots)

=============================================================================
