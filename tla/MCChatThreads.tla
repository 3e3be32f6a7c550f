---------------------------- MODULE MCChatThreads ----------------------------
(* The conversations of a session on small instances. *)
EXTENDS ChatThreads, TLC

\* Threads and requests are interchangeable.
ChatSymmetry == Permutations(Threads) \union Permutations(Requests)

=============================================================================
