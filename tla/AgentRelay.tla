----------------------------- MODULE AgentRelay -----------------------------
(***************************************************************************)
(* The model relay of one workflow operation (internal/agentrelay).  A     *)
(* sandbox holds one bearer token and uses it for any number of model      *)
(* calls, several at a time.  Each call is authorised against the budget   *)
(* row and the operation's status, forwarded to the provider and charged   *)
(* to the row afterwards.                                                  *)
(*                                                                         *)
(* A slot stands for one of the calls the sandbox has in flight; it is     *)
(* reused when its call is over, so the number of calls is not bounded.    *)
(* The operation itself belongs to workflow: here it ends at any moment.   *)
(***************************************************************************)
EXTENDS Naturals, FiniteSets

CONSTANTS
    Slots,    \* the calls a sandbox can have in flight at once
    Ceiling,  \* MaxTotalTokens of the budget; MaxCostUSDMicros works alike
    MaxUse    \* what one call can cost at most

ASSUME RelayAssumption ==
    /\ IsFiniteSet(Slots)
    /\ Ceiling \in Nat \ {0}
    /\ MaxUse \in Nat \ {0}

VARIABLES
    ended,    \* whether the operation is terminal
    overdue,  \* whether the deadline of the budget has passed
    budget,   \* the agent_relay_operation_budgets row
    call      \* the local state of each slot

relayVars == <<ended, overdue, budget, call>>

-----------------------------------------------------------------------------

Budget == [row : {"none", "checked", "issued"}, revoked : BOOLEAN, used : Nat]

(***************************************************************************)
(* Of an authorization a call keeps the charges and the time it read.      *)
(* late is history: whether some reason to refuse the call held before it  *)
(* read anything.                                                          *)
(***************************************************************************)
Call ==
    [at      : {"idle", "check", "revoke_ended", "request", "charge", "record", "revoke"},
     seen    : Nat,
     expired : BOOLEAN,
     use     : 0..MaxUse,
     stream  : BOOLEAN,
     late    : BOOLEAN,
     charged : BOOLEAN,
     result  : {"none", "refused", "failed", "answered", "broken"}]

NoCall ==
    [at |-> "idle", seen |-> 0, expired |-> FALSE, use |-> 0, stream |-> FALSE,
     late |-> FALSE, charged |-> FALSE, result |-> "none"]

RelayTypeOK ==
    /\ ended \in BOOLEAN
    /\ overdue \in BOOLEAN
    /\ budget \in Budget
    /\ call \in [Slots -> Call]

RelayInit ==
    /\ ended = FALSE
    /\ overdue = FALSE
    /\ budget = [row |-> "none", revoked |-> FALSE, used |-> 0]
    /\ call = [c \in Slots |-> NoCall]

-----------------------------------------------------------------------------
(* What the workflow and the clock do.                                     *)

\* A terminal event is appended.
EndOperation ==
    /\ ~ended
    /\ ended' = TRUE
    /\ UNCHANGED <<overdue, budget, call>>

\* Issue asks whether the operation is active, then creates the row.
CheckBeforeIssue ==
    /\ budget.row = "none" /\ ~ended
    /\ budget' = [budget EXCEPT !.row = "checked"]
    /\ UNCHANGED <<ended, overdue, call>>

Issue ==
    /\ budget.row = "checked"
    /\ budget' = [budget EXCEPT !.row = "issued"]
    /\ UNCHANGED <<ended, overdue, call>>

RevokeRow == budget' = IF budget.row = "issued" THEN [budget EXCEPT !.revoked = TRUE] ELSE budget

\* RevokeOperationToken follows the terminal event; when it fails the failure is only logged.
RevokeToken ==
    /\ ended
    /\ RevokeRow
    /\ UNCHANGED <<ended, overdue, call>>

DeadlinePasses ==
    /\ ~overdue
    /\ overdue' = TRUE
    /\ UNCHANGED <<ended, budget, call>>

-----------------------------------------------------------------------------
(* Authenticate: the row first, then the operation, then the ceilings of   *)
(* the row that was read first.                                            *)

At(c, point) == call[c].at = point

Goto(c, point) == call' = [call EXCEPT ![c].at = point]

\* Of a call that is over the model keeps what the properties speak of.
Finish(c, result) ==
    call' = [call EXCEPT ![c] = [NoCall EXCEPT !.result = result, !.stream = call[c].stream,
                                               !.late = call[c].late, !.charged = call[c].charged]]

MustBeRefused == ended \/ overdue \/ budget.revoked \/ budget.used >= Ceiling

ReadBudget(c) ==
    /\ At(c, "idle") /\ budget.row = "issued"
    /\ \E stream \in BOOLEAN :
         call' = [call EXCEPT ![c] =
                    IF budget.revoked
                    THEN [NoCall EXCEPT !.result = "refused", !.stream = stream, !.late = TRUE]
                    ELSE [NoCall EXCEPT !.at = "check", !.seen = budget.used, !.expired = overdue,
                                        !.stream = stream, !.late = MustBeRefused]]
    /\ UNCHANGED <<ended, overdue, budget>>

\* A call that brings the budget exactly to its ceiling leaves room for one more.
SlipWithinCeilings(c) == ~call[c].expired /\ call[c].seen <= Ceiling

WithinCeilings(c) == ~call[c].expired /\ call[c].seen < Ceiling

\* The token of an ended operation is taken to be revoked already.
SlipCheckOperation(c) ==
    /\ At(c, "check")
    /\ \/ WithinCeilings(c) /\ Goto(c, "request")
       \/ Finish(c, "refused")
    /\ UNCHANGED <<ended, overdue, budget>>

\* A ceiling that is reached refuses the call, and so does a check that fails.
CheckOperation(c) ==
    /\ At(c, "check")
    /\ \/ ended /\ Goto(c, "revoke_ended")
       \/ ~ended /\ WithinCeilings(c) /\ Goto(c, "request")
       \/ Finish(c, "refused")
    /\ UNCHANGED <<ended, overdue, budget>>

\* A terminal operation whose token is still there has it revoked, if the write succeeds.
RevokeEnded(c) ==
    /\ At(c, "revoke_ended")
    /\ RevokeRow \/ UNCHANGED budget
    /\ Finish(c, "refused")
    /\ UNCHANGED <<ended, overdue>>

-----------------------------------------------------------------------------
(* ChatCompletions and streamChatCompletions.                              *)

\* The request is malformed, or the provider fails before it answers.
ProviderFails(c) ==
    /\ At(c, "request")
    /\ Finish(c, "failed")
    /\ UNCHANGED <<ended, overdue, budget>>

\* The whole answer is there, and a stream has been passed on to [DONE].
ProviderAnswers(c) ==
    /\ At(c, "request")
    /\ \E use \in 1..MaxUse :
         call' = [call EXCEPT ![c].at = "charge", ![c].use = use]
    /\ UNCHANGED <<ended, overdue, budget>>

\* The answer does not state its usage, or the stream ends before [DONE].
UsageIsMissing(c) ==
    /\ At(c, "request")
    /\ Goto(c, "revoke")
    /\ UNCHANGED <<ended, overdue, budget>>

\* The client of a stream goes away: the next write fails and the handler returns.
StreamBreaks(c) ==
    /\ At(c, "request") /\ call[c].stream
    /\ Finish(c, "broken")
    /\ UNCHANGED <<ended, overdue, budget>>

\* The answer is handed out and its usage recorded, but not added to the budget.
SlipCharge(c) ==
    /\ At(c, "charge")
    /\ Goto(c, "record")
    /\ UNCHANGED <<ended, overdue, budget>>

\* AddUsage increments the row, whatever has become of it.
Charge(c) ==
    /\ At(c, "charge")
    /\ budget' = [budget EXCEPT !.used = @ + call[c].use]
    /\ call' = [call EXCEPT ![c].at = "record", ![c].charged = TRUE]
    /\ UNCHANGED <<ended, overdue>>

\* RecordScoped appends the usage record; a plain answer is written after it.
Record(c) ==
    /\ At(c, "record")
    /\ Finish(c, "answered")
    /\ UNCHANGED <<ended, overdue, budget>>

AccountingFails(c) ==
    /\ At(c, "charge") \/ At(c, "record")
    /\ Goto(c, "revoke")
    /\ UNCHANGED <<ended, overdue, budget>>

\* revokeAfterAccountingFailure; its write fails when the request is cancelled.
RevokeAfterFailure(c) ==
    /\ At(c, "revoke")
    /\ RevokeRow \/ UNCHANGED budget
    /\ Finish(c, IF call[c].stream THEN "answered" ELSE "failed")
    /\ UNCHANGED <<ended, overdue>>

-----------------------------------------------------------------------------

CallStep(c) ==
    \/ ReadBudget(c) \/ CheckOperation(c) \/ RevokeEnded(c)
    \/ ProviderFails(c) \/ ProviderAnswers(c) \/ UsageIsMissing(c) \/ StreamBreaks(c)
    \/ Charge(c) \/ Record(c) \/ AccountingFails(c) \/ RevokeAfterFailure(c)

Environment == EndOperation \/ CheckBeforeIssue \/ Issue \/ RevokeToken \/ DeadlinePasses

RelayNext == Environment \/ \E c \in Slots : CallStep(c)

RelaySpec == RelayInit /\ [][RelayNext]_relayVars

-----------------------------------------------------------------------------
(* What makes the relay correct.                                           *)

Admitted(c) == call[c].at \in {"request", "charge", "record", "revoke"}

(***************************************************************************)
(* A call that begins when the operation has ended, the deadline has       *)
(* passed, the token is revoked or the ceiling is reached never gets to    *)
(* the provider (Authenticate), even when the write that should have       *)
(* revoked the token failed and although the row is read before the        *)
(* operation and not again.                                                *)
(***************************************************************************)
LateCallsAreRefused ==
    \A c \in Slots : call[c].late => ~Admitted(c) /\ call[c].result \in {"none", "refused"}

(***************************************************************************)
(* However many calls are made, the budget overshoots its ceiling by no    *)
(* more than the calls that were in flight at once: a call is admitted on  *)
(* charges that were below the ceiling when it read them, and charged      *)
(* later (Authenticate, AddUsage).                                         *)
(***************************************************************************)
OvershootIsBounded == budget.used < Ceiling + MaxUse * Cardinality(Slots)

\* An answer that is not streamed is handed out only after its charge (ChatCompletions).
PlainAnswersAreCharged ==
    \A c \in Slots : call[c].result = "answered" /\ ~call[c].stream => call[c].charged

-----------------------------------------------------------------------------
(* The inductive invariant.  A call that has read a budget below its       *)
(* ceiling may still charge; together such calls stay within the bound.    *)

MayCharge == {c \in Slots : call[c].at \in {"check", "request", "charge"} /\ call[c].seen < Ceiling}

OvershootInv ==
    budget.used + MaxUse * Cardinality(MayCharge) < Ceiling + MaxUse * Cardinality(Slots)

\* Only a call that read a budget within the ceiling and the deadline is admitted.
AdmissionInv ==
    \A c \in Slots :
        /\ Admitted(c) => WithinCeilings(c)
        /\ At(c, "record") => call[c].charged
        /\ call[c].late => ended \/ ~WithinCeilings(c) \/ call[c].at = "idle"
        /\ call[c].late /\ At(c, "idle") => call[c].result = "refused"

RelayInv ==
    /\ RelayTypeOK
    /\ OvershootInv
    /\ AdmissionInv
    /\ LateCallsAreRefused
    /\ PlainAnswersAreCharged

=============================================================================
