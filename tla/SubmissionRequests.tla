------------------------- MODULE SubmissionRequests -------------------------
(***************************************************************************)
(* The first half of submission.Service.Submit                             *)
(* (backend/internal/submission/service.go): a client request token is     *)
(* reserved, the reservation's creator executes the code once and binds    *)
(* the run to the token, and every other request that carries the token    *)
(* replays or joins that run.                                              *)
(*                                                                         *)
(* A request is one HTTP handler.  Between two storage calls any other     *)
(* handler may run; every storage call may fail and the process may die,   *)
(* after which the handler writes nothing more (Abort).                    *)
(*                                                                         *)
(* A handler creates at most one run, so the run it creates is named by    *)
(* the handler itself: runs[r] is the run of handler r.                    *)
(***************************************************************************)
EXTENDS Naturals, FiniteSets

CONSTANTS
    Requests,   \* the HTTP requests that call Submit
    Tokens,     \* values of client_token
    Contents,   \* the fingerprints of mode, problem, session and files
    NoToken,    \* the request carries no client_token
    NoContent,  \* fingerprint of a token nobody reserved
    NoRun       \* an empty run_id

ASSUME NullAssumption ==
    /\ NoToken \notin Tokens
    /\ NoContent \notin Contents
    /\ NoRun \notin Requests

VARIABLES
    tokens,     \* the submission_request_tokens table
    runs,       \* the status column of the execution_runs table
    handler     \* the local state of every Submit call

requestVars == <<tokens, runs, handler>>

-----------------------------------------------------------------------------

(***************************************************************************)
(* Verdicts are the terminal statuses.  "fault" stands for timeout,        *)
(* out_of_memory, crashed and error: they are terminal and never graded.   *)
(***************************************************************************)
Verdicts == {"passed", "failed", "fault"}

RunStatus == {"absent", "queued", "running"} \union Verdicts

TokenStatus == {"absent", "in_progress", "completed"}

Reservation ==
    [status      : TokenStatus,
     fingerprint : Contents \union {NoContent},
     run         : Requests \union {NoRun},
     submission  : Requests \union {NoRun}]

Unreserved ==
    [status |-> "absent", fingerprint |-> NoContent, run |-> NoRun, submission |-> NoRun]

\* Where a Submit call stands: the storage call it makes next, or its reply.
ActivePoints ==
    {"reserve", "fetch_replay", "await_bind", "wait_run", "join",
     "create_run", "start_run", "execute", "store_outcome", "bind", "complete"}

Replies == {"accepted", "in_progress", "conflict", "error"}

HandlerState ==
    [at      : {"idle"} \union ActivePoints \union Replies,
     token   : Tokens \union {NoToken},
     content : Contents \union {NoContent},
     run     : Requests \union {NoRun},
     verdict : Verdicts \union {"none"}]

Idle ==
    [at |-> "idle", token |-> NoToken, content |-> NoContent, run |-> NoRun,
     verdict |-> "none"]

isTerminal(status) == status \in Verdicts

TypeOK ==
    /\ tokens \in [Tokens -> Reservation]
    /\ runs \in [Requests -> RunStatus]
    /\ handler \in [Requests -> HandlerState]

Init ==
    /\ tokens = [t \in Tokens |-> Unreserved]
    /\ runs = [r \in Requests |-> "absent"]
    /\ handler = [r \in Requests |-> Idle]

-----------------------------------------------------------------------------

At(r, point) == handler[r].at = point

Goto(r, point) == handler' = [handler EXCEPT ![r].at = point]

\* The mode, problem, session or files of the request are refused.
Reject(r) ==
    /\ At(r, "idle")
    /\ Goto(r, "error")
    /\ UNCHANGED <<tokens, runs>>

\* The request arrives and passes validation.
Arrive(r) ==
    /\ At(r, "idle")
    /\ \E t \in Tokens \union {NoToken}, c \in Contents :
         handler' = [handler EXCEPT ![r] =
                       [Idle EXCEPT !.at = IF t = NoToken THEN "create_run" ELSE "reserve",
                                    !.token = t, !.content = c]]
    /\ UNCHANGED <<tokens, runs>>

(***************************************************************************)
(* Operators named Slip... are the definition that follows them with a     *)
(* plausible bug in the code; the model does not use them.                 *)
(***************************************************************************)

(***************************************************************************)
(* ReserveSubmissionRequest: one atomic INSERT ... ON CONFLICT DO NOTHING, *)
(* then the branch Submit takes on what it returned.                       *)
(***************************************************************************)
ReserveFresh(r) ==
    /\ At(r, "reserve")
    /\ tokens[handler[r].token].status = "absent"
    /\ tokens' = [tokens EXCEPT ![handler[r].token] =
                    [Unreserved EXCEPT !.status = "in_progress",
                                       !.fingerprint = handler[r].content]]
    /\ Goto(r, "create_run")
    /\ UNCHANGED runs

ReserveConflict(r) ==
    /\ At(r, "reserve")
    /\ tokens[handler[r].token].status # "absent"
    /\ tokens[handler[r].token].fingerprint # handler[r].content
    /\ Goto(r, "conflict")
    /\ UNCHANGED <<tokens, runs>>

\* A duplicate of an unbound token executes the code itself.
SlipReserveImpatient(r) ==
    LET found == tokens[handler[r].token]
        next  == IF found.status = "completed" THEN "fetch_replay"
                 ELSE IF found.run = NoRun THEN "create_run" ELSE "wait_run"
    IN  /\ At(r, "reserve")
        /\ found.status # "absent"
        /\ found.fingerprint = handler[r].content
        /\ handler' = [handler EXCEPT ![r].at = next, ![r].run = found.run]
        /\ UNCHANGED <<tokens, runs>>

\* The fingerprint is not compared.
SlipReserveUnchecked(r) ==
    LET found == tokens[handler[r].token]
        next  == IF found.status = "completed" THEN "fetch_replay"
                 ELSE IF found.run = NoRun THEN "await_bind" ELSE "wait_run"
    IN  /\ At(r, "reserve")
        /\ found.status # "absent"
        /\ handler' = [handler EXCEPT ![r].at = next, ![r].run = found.run]
        /\ UNCHANGED <<tokens, runs>>

ReserveExisting(r) ==
    LET found == tokens[handler[r].token]
        next  == IF found.status = "completed"
                 THEN IF found.submission # NoRun THEN "fetch_replay" ELSE "create_run"
                 ELSE IF found.run = NoRun THEN "await_bind" ELSE "wait_run"
    IN  /\ At(r, "reserve")
        /\ found.status # "absent"
        /\ found.fingerprint = handler[r].content
        /\ handler' = [handler EXCEPT ![r].at = next, ![r].run = found.run]
        /\ UNCHANGED <<tokens, runs>>

\* A completed token: the original submission is the answer.
FetchReplay(r) ==
    /\ At(r, "fetch_replay")
    /\ runs[handler[r].run] # "absent"
    /\ Goto(r, "accepted")
    /\ UNCHANGED <<tokens, runs>>

\* awaitSubmissionRequestRun: a poll of the reservation finds its run ...
SeeBinding(r) ==
    LET found == tokens[handler[r].token]
    IN  /\ At(r, "await_bind")
        /\ found.run # NoRun
        /\ handler' = [handler EXCEPT ![r].at = "wait_run", ![r].run = found.run]
        /\ UNCHANGED <<tokens, runs>>

\* The poll has no deadline.
SlipGiveUpBinding(r) ==
    /\ At(r, "await_bind")
    /\ tokens[handler[r].token].status = "absent"
    /\ Goto(r, "in_progress")
    /\ UNCHANGED <<tokens, runs>>

\* A request that waited in vain executes the code itself.
SlipGiveUpWaiting(r) ==
    /\ At(r, "await_bind")
    /\ tokens[handler[r].token].run = NoRun
    /\ Goto(r, "create_run")
    /\ UNCHANGED <<tokens, runs>>

\* ... or finds none when bindTimeout has passed or the client has gone.
GiveUpBinding(r) ==
    /\ At(r, "await_bind")
    /\ tokens[handler[r].token].run = NoRun
    /\ Goto(r, "in_progress")
    /\ UNCHANGED <<tokens, runs>>

\* waitForSubmissionRun polls until the run is terminal.
WaitForRun(r) ==
    /\ At(r, "wait_run")
    /\ isTerminal(runs[handler[r].run])
    /\ Goto(r, "join")
    /\ UNCHANGED <<tokens, runs>>

\* CompleteSubmissionRequest: unconditional, whoever calls it.
Completed(t, run) ==
    [tokens EXCEPT ![t].status = "completed", ![t].submission = run, ![t].run = run]

JoinRun(r) ==
    /\ At(r, "join")
    /\ tokens' = Completed(handler[r].token, handler[r].run)
    /\ Goto(r, "accepted")
    /\ UNCHANGED runs

(***************************************************************************)
(* execution.Service.SubmitRun: the owner creates the run, marks it        *)
(* running, executes it in the sandbox and stores the outcome.             *)
(***************************************************************************)
CreateRun(r) ==
    /\ At(r, "create_run")
    /\ runs' = [runs EXCEPT ![r] = "queued"]
    /\ Goto(r, "start_run")
    /\ UNCHANGED tokens

\* The run is bound to its token before it is executed.
SlipStartRun(r) ==
    /\ At(r, "start_run")
    /\ runs' = [runs EXCEPT ![r] = "running"]
    /\ tokens' = IF handler[r].token = NoToken THEN tokens
                 ELSE [tokens EXCEPT ![handler[r].token].run = r]
    /\ Goto(r, "execute")

StartRun(r) ==
    /\ At(r, "start_run")
    /\ runs' = [runs EXCEPT ![r] = "running"]
    /\ Goto(r, "execute")
    /\ UNCHANGED tokens

\* The runner returns; an infrastructure error is the verdict "fault".
Execute(r) ==
    /\ At(r, "execute")
    /\ \E v \in Verdicts :
         handler' = [handler EXCEPT ![r].at = "store_outcome", ![r].verdict = v]
    /\ UNCHANGED <<tokens, runs>>

\* The request is accepted before its run is bound.
SlipStoreOutcome(r) ==
    /\ At(r, "store_outcome")
    /\ runs' = [runs EXCEPT ![r] = handler[r].verdict]
    /\ handler' = [handler EXCEPT ![r].at = "accepted", ![r].run = r]
    /\ UNCHANGED tokens

StoreOutcome(r) ==
    /\ At(r, "store_outcome")
    /\ runs' = [runs EXCEPT ![r] = handler[r].verdict]
    /\ handler' = [handler EXCEPT
                     ![r].at = IF handler[r].token = NoToken THEN "accepted" ELSE "bind",
                     ![r].run = r]
    /\ UNCHANGED tokens

BindRun(r) ==
    /\ At(r, "bind")
    /\ tokens' = [tokens EXCEPT ![handler[r].token].run = r]
    /\ Goto(r, "complete")
    /\ UNCHANGED runs

CompleteRun(r) ==
    /\ At(r, "complete")
    /\ tokens' = Completed(handler[r].token, r)
    /\ Goto(r, "accepted")
    /\ UNCHANGED runs

(***************************************************************************)
(* A storage call returns an error, the runner is unavailable, the client  *)
(* disconnects or the process dies: Submit returns (or vanishes) without   *)
(* another write.  Nothing releases the reservation or the run.            *)
(***************************************************************************)
Abort(r) ==
    /\ handler[r].at \in ActivePoints
    /\ Goto(r, "error")
    /\ UNCHANGED <<tokens, runs>>

Step(r) ==
    \/ ReserveFresh(r)  \/ ReserveConflict(r) \/ ReserveExisting(r)
    \/ FetchReplay(r)   \/ SeeBinding(r)      \/ GiveUpBinding(r)
    \/ WaitForRun(r)    \/ JoinRun(r)
    \/ CreateRun(r)     \/ StartRun(r)        \/ Execute(r)
    \/ StoreOutcome(r)  \/ BindRun(r)         \/ CompleteRun(r)

Next == \E r \in Requests : Arrive(r) \/ Reject(r) \/ Step(r) \/ Abort(r)

Spec == Init /\ [][Next]_requestVars

(***************************************************************************)
(* A handler is a goroutine that keeps running: its polls, timers and      *)
(* storage calls return.  Nothing is assumed about new requests arriving   *)
(* or about failures.                                                      *)
(***************************************************************************)
FairSpec == Spec /\ \A r \in Requests : WF_requestVars(Step(r))

-----------------------------------------------------------------------------

Replied(r) == handler[r].at \in Replies

\* The handlers that hold a token without having replied for it.
StillWorking(r) == handler[r].at \in ActivePoints

(***************************************************************************)
(* However duplicates, retries, failures and crashes interleave, a token   *)
(* never leads to two executions of the learner's code                     *)
(* (ReserveSubmissionRequest, the replay and join branches of Submit).     *)
(***************************************************************************)
OneExecutionPerToken ==
    \A t \in Tokens : \A q, r \in Requests :
        (/\ handler[q].token = t /\ handler[r].token = t
         /\ runs[q] # "absent" /\ runs[r] # "absent") => q = r

(***************************************************************************)
(* A run that a token names is over: a duplicate that joins it finds its   *)
(* outcome in the table, even when the request that executed it died right *)
(* after the binding (BindSubmissionRequestRun, waitForSubmissionRun).     *)
(***************************************************************************)
BoundRunIsOver ==
    \A t \in Tokens :
        tokens[t].run # NoRun => isTerminal(runs[tokens[t].run])

(***************************************************************************)
(* Accepted requests that sent one token sent one content and were told    *)
(* one submission, executed by a request with that token and content.      *)
(***************************************************************************)
SameTokenSameAnswer ==
    \A q, r \in Requests :
        (/\ At(q, "accepted") /\ At(r, "accepted")
         /\ handler[q].token = handler[r].token /\ handler[q].token # NoToken)
        => /\ handler[q].run = handler[r].run
           /\ handler[q].content = handler[r].content
           /\ handler[handler[r].run].token = handler[r].token
           /\ handler[handler[r].run].content = handler[r].content

(***************************************************************************)
(* The inductive invariant behind the properties above.  A request holds   *)
(* its token from the reservation that created it until its run exists and *)
(* for ever after: two requests never hold one token.                      *)
(***************************************************************************)
HolderPoints ==
    {"create_run", "start_run", "execute", "store_outcome", "bind", "complete"}

Holds(r) ==
    /\ handler[r].token # NoToken
    /\ handler[r].at \in HolderPoints \/ runs[r] # "absent"

OneHolder ==
    \A q, r \in Requests :
        Holds(q) /\ Holds(r) /\ handler[q].token = handler[r].token => q = r

HolderReserved ==
    \A r \in Requests :
        Holds(r) => /\ tokens[handler[r].token].status # "absent"
                    /\ tokens[handler[r].token].fingerprint = handler[r].content

\* What a reservation says of its run.
ReservationConsistent ==
    \A t \in Tokens :
        /\ tokens[t].status = "absent" => tokens[t].run = NoRun
        /\ tokens[t].run = NoRun =>
             tokens[t].submission = NoRun /\ tokens[t].status # "completed"
        /\ tokens[t].status = "completed" => tokens[t].submission = tokens[t].run
        /\ tokens[t].submission \in {NoRun, tokens[t].run}
        /\ tokens[t].run # NoRun =>
             /\ handler[tokens[t].run].token = t
             /\ isTerminal(runs[tokens[t].run])
             /\ handler[tokens[t].run].at \in {"complete", "accepted", "error"}

\* What handler r knows at each point.
Consistent(r) ==
    LET h == handler[r]
    IN  /\ h.at = "idle" => h = Idle
        /\ h.at \in {"idle", "reserve", "fetch_replay", "await_bind", "wait_run", "join",
                     "create_run", "in_progress", "conflict"} => runs[r] = "absent"
        /\ h.at \in {"reserve", "fetch_replay", "await_bind", "wait_run", "join",
                     "bind", "complete"} => h.token # NoToken
        /\ h.at \in {"fetch_replay", "await_bind", "wait_run", "join"} =>
             /\ tokens[h.token].status # "absent"
             /\ tokens[h.token].fingerprint = h.content
        /\ h.at \in {"fetch_replay", "wait_run", "join"} =>
             h.run # NoRun /\ h.run = tokens[h.token].run
        /\ h.at = "store_outcome" => h.verdict \in Verdicts
        /\ h.at \in {"start_run", "execute", "store_outcome"} => runs[r] # "absent"
        /\ h.at \in {"bind", "complete"} => h.run = r /\ isTerminal(runs[r])
        /\ h.at = "complete" => tokens[h.token].run = r
        /\ (h.at = "accepted" /\ h.token = NoToken) => h.run = r /\ isTerminal(runs[r])
        /\ (h.at = "accepted" /\ h.token # NoToken) =>
             /\ h.run # NoRun
             /\ h.run = tokens[h.token].run
             /\ tokens[h.token].fingerprint = h.content

HandlersConsistent == \A r \in Requests : Consistent(r)

ReservationInv ==
    TypeOK /\ OneHolder /\ HolderReserved /\ ReservationConsistent /\ HandlersConsistent

(***************************************************************************)
(* A reservation only moves forward: its content never changes, the run it *)
(* names never changes, a completed one never reopens, and the submission  *)
(* it reports is the run it was bound to.                                  *)
(***************************************************************************)
ReservationsOnlyAdvance ==
    [][\A t \in Tokens :
         /\ tokens[t].status # "absent" => tokens'[t].fingerprint = tokens[t].fingerprint
         /\ tokens[t].run # NoRun => tokens'[t].run = tokens[t].run
         /\ tokens[t].status = "completed" => tokens'[t] = tokens[t]
         /\ tokens'[t].submission \in {NoRun, tokens'[t].run}]_requestVars

(***************************************************************************)
(* Every request that arrives is answered: a duplicate waits neither for a *)
(* binding that never comes nor for a run whose handler died.              *)
(***************************************************************************)
EveryRequestIsAnswered ==
    \A r \in Requests : StillWorking(r) ~> Replied(r)

(***************************************************************************)
(* The protocol of reservations, polls and bindings implements execution   *)
(* at most once with one answer per token (LogicalSubmissions).            *)
(***************************************************************************)
Logical ==
    INSTANCE LogicalSubmissions WITH
        token      <- [r \in Requests |-> handler[r].token],
        executions <- {r \in Requests : runs[r] # "absent"},
        outcome    <- [t \in Tokens |-> tokens[t].run],
        answer     <- [r \in Requests |->
                         IF handler[r].at = "accepted" THEN handler[r].run ELSE NoRun]

ImplementsLogical == Logical!Spec

=============================================================================
