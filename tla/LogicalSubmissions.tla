------------------------- MODULE LogicalSubmissions -------------------------
(***************************************************************************)
(* What "Submit Tokens" promises (docs/memory-profile-maintenance.md:129), *)
(* without tables, polls or failures: the requests of one token execute    *)
(* the learner's code once, the token settles on that execution, and every *)
(* answer names it.  SubmissionRequests implements this specification.     *)
(***************************************************************************)
CONSTANTS Requests, Tokens, NoToken, NoRun

VARIABLES
    token,       \* the token each request sent
    executions,  \* the requests that executed code
    outcome,     \* the execution each token settled on
    answer       \* the execution each accepted request was told

logicalVars == <<token, executions, outcome, answer>>

Init ==
    /\ token = [r \in Requests |-> NoToken]
    /\ executions = {}
    /\ outcome = [t \in Tokens |-> NoRun]
    /\ answer = [r \in Requests |-> NoRun]

Ask(r, t) ==
    /\ token[r] = NoToken
    /\ r \notin executions
    /\ token' = [token EXCEPT ![r] = t]
    /\ UNCHANGED <<executions, outcome, answer>>

\* A request without a token is a logical submission of its own.
Execute(r) ==
    /\ r \notin executions
    /\ token[r] # NoToken => \A q \in executions : token[q] # token[r]
    /\ executions' = executions \union {r}
    /\ UNCHANGED <<token, outcome, answer>>

Settle(r) ==
    /\ r \in executions
    /\ token[r] # NoToken
    /\ outcome[token[r]] = NoRun
    /\ outcome' = [outcome EXCEPT ![token[r]] = r]
    /\ UNCHANGED <<token, executions, answer>>

Answer(r) ==
    /\ answer[r] = NoRun
    /\ IF token[r] = NoToken
       THEN r \in executions /\ answer' = [answer EXCEPT ![r] = r]
       ELSE /\ outcome[token[r]] # NoRun
            /\ answer' = [answer EXCEPT ![r] = outcome[token[r]]]
    /\ UNCHANGED <<token, executions, outcome>>

Next ==
    \E r \in Requests :
        \/ \E t \in Tokens : Ask(r, t)
        \/ Execute(r)
        \/ Settle(r)
        \/ Answer(r)

Spec == Init /\ [][Next]_logicalVars
=============================================================================
