------------------------- MODULE MCCompletionMemory -------------------------
(***************************************************************************)
(* CompletionMemory on a small instance.  The submissions are              *)
(* interchangeable, and so are the helpers.                                *)
(***************************************************************************)
EXTENDS CompletionMemory, TLC

Interchangeable == Permutations(Submissions) \union Permutations(Helpers)
=============================================================================
