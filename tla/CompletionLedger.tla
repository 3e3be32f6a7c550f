-------------------------- MODULE CompletionLedger --------------------------
(***************************************************************************)
(* What "Durable Deduplication" and "Retry And Stale-Write Protection"     *)
(* promise (docs/memory-profile-maintenance.md:111 and :172), without      *)
(* versions, markers, retries or failures: the learner's memory is a       *)
(* ledger to which each completion is appended at most once, and a         *)
(* completion is reported as synced only after that.  CompletionMemory     *)
(* implements this specification.                                          *)
(***************************************************************************)
EXTENDS Naturals, Sequences

CONSTANT Submissions

VARIABLES
    folded,  \* the completions in the memory, in the order they were added
    told     \* the completions whose requests were told synced

ledgerVars == <<folded, told>>

InLedger(s) == \E i \in DOMAIN folded : folded[i] = s

Init ==
    /\ folded = <<>>
    /\ told = {}

Fold(s) ==
    /\ ~InLedger(s)
    /\ folded' = Append(folded, s)
    /\ UNCHANGED told

Tell(s) ==
    /\ InLedger(s)
    /\ told' = told \union {s}
    /\ UNCHANGED folded

Next == \E s \in Submissions : Fold(s) \/ Tell(s)

Spec == Init /\ [][Next]_ledgerVars
=============================================================================
