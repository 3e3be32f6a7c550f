-------------------------- MODULE WorkflowOperation --------------------------
(***************************************************************************)
(* One workflow operation: the row, its log of progress events, and the    *)
(* requests that report to it.  The processes:                             *)
(*                                                                         *)
(*   create    POST /workflow-operations (workflow/service.go Create);     *)
(*   maintain  POST /memory/profile/maintain attached to the operation     *)
(*             (api/handlers/generate.go, generation/profile.go);          *)
(*   generate  POST /generate attached to it (api/handlers/generate.go,    *)
(*             generation/mcq.go, generation/problem.go);                  *)
(*   cancel    POST /workflow-operations/{id}/cancel;                      *)
(*   viewer    the browser's event stream with its reconnects              *)
(*             (api/handlers/workflow.go, useWorkflowProgress.ts).         *)
(*                                                                         *)
(* A request works, queues the events that its work calls for and reports  *)
(* them one by one.  A report is two storage calls: the operation is read, *)
(* its next status computed, and the event appended under the row's lock.  *)
(***************************************************************************)
EXTENDS Naturals, Sequences, FiniteSets, Functions

CONSTANTS
    Kinds,          \* the kinds of operation considered
    Requests,       \* the requests that may attach to it or cancel it
    Creator,        \* the request that creates it
    Deployments,    \* the server's configurations considered
    MaxFaults,      \* how often storage calls fail and requests die
    Watching,       \* whether the browser follows the event stream
    MaxReconnects   \* MAX_STREAM_RECONNECTS

MemorySteps == <<"load_evidence", "synthesize_profile", "validate_profile", "save_profile">>

QuestionSteps ==
    <<"load_context", "generate_questions", "validate_questions", "repair_questions",
      "questions_ready">>

kindSteps ==
    [mcq_generation     |-> QuestionSteps,
     memory_reflection  |-> MemorySteps \o <<"memory_ready">>,
     mcq_next_round     |-> MemorySteps \o QuestionSteps,
     problem_generation |-> <<"load_context", "generate_problem", "verify_solution",
                              "save_problem", "problem_ready">>]

\* Whether a completed set refreshes memory, and whether a provider is configured.
Deployment == [refreshing : BOOLEAN, configured : BOOLEAN]

ASSUME WorkflowAssumption ==
    /\ Kinds \subseteq DOMAIN kindSteps
    /\ Creator \notin Requests
    /\ Deployments \subseteq Deployment
    /\ MaxFaults \in Nat
    /\ Watching \in BOOLEAN
    /\ MaxReconnects \in Nat \ {0}

Steps == UNION {Range(kindSteps[kind]) : kind \in DOMAIN kindSteps}

Actors == Requests \union {Creator}

VARIABLES
    deployment, \* the server's configuration
    operation,  \* the workflow_operations row
    latest,     \* of the log: the latest status of each step
    finals,     \* of the log: the events marked terminal
    request,    \* the local state of every request
    viewer,     \* the event stream of the browser and what it has received
    faults      \* how many faults there were

workflowVars == <<deployment, operation, latest, finals, request, viewer, faults>>

-----------------------------------------------------------------------------

Status == {"queued", "running", "succeeded", "failed"}

Terminal(status) == status \in {"succeeded", "failed"}

Ev(step, status)    == [step |-> step, status |-> status, final |-> FALSE]
Final(step, status) == [step |-> step, status |-> status, final |-> TRUE]

Event == [step : Steps, status : Status, final : BOOLEAN]

Points ==
    {"idle", "insert", "issue", "pick",
     "skip", "profile", "pending", "evidence", "completion", "synthesize", "validate", "save",
     "settle", "complete",
     "require", "prepare", "context", "draft", "check", "verify", "persist",
     "ok", "fail", "done", "dead"}

(***************************************************************************)
(* cached is the operation in the Reporter; read is what appendScoped has  *)
(* read; gone says that the client has left; detached that a report is     *)
(* repeated without the request's context; saved is history: the memory    *)
(* update is stored, or there was nothing to update.                       *)
(***************************************************************************)
Request ==
    [role : {"none", "create", "maintain", "generate", "cancel"},
     at : Points, phase : {"work", "read", "append"}, queue : Seq(Event),
     read : Status \union {"absent"}, cached : Status, gone : BOOLEAN, detached : BOOLEAN,
     attempt : 1..2, saved : BOOLEAN, reply : {"none", "ok", "failed"}]

Fresh(role, point) ==
    [role |-> role, at |-> point, phase |-> "work", queue |-> <<>>, read |-> "queued",
     cached |-> "queued", gone |-> FALSE, detached |-> FALSE, attempt |-> 1,
     saved |-> FALSE, reply |-> "none"]

\* sent is the cursor of the handler, got the cursor of the browser.
Viewer == [at : {"off", "list", "check", "ended", "fallback"}, sent : Nat, got : Nat, reconnects : Nat]

TypeOK ==
    /\ deployment \in Deployment
    /\ operation \in [kind : DOMAIN kindSteps, status : Status \union {"absent"}, last : Nat]
    /\ latest \in [Steps -> Status \union {"none"}]
    /\ finals \in SUBSET [sequence : Nat, by : Actors]
    /\ request \in [Actors -> Request]
    /\ viewer \in Viewer
    /\ faults \in 0..MaxFaults

Init ==
    /\ deployment \in Deployments
    /\ \E kind \in Kinds : operation = [kind |-> kind, status |-> "absent", last |-> 0]
    /\ latest = [step \in Steps |-> "none"]
    /\ finals = {}
    /\ request = [a \in Actors |-> IF a = Creator THEN Fresh("create", "insert")
                                   ELSE Fresh("none", "idle")]
    /\ viewer = [at |-> "off", sent |-> 0, got |-> 0, reconnects |-> 0]
    /\ faults = 0

At(a, point) == request[a].at = point

\* A request that has reported all it had to goes on with its work.
Works(a) == request[a].phase = "work"

\* The client knows the operation once its creation is answered.
Published == request[Creator].reply = "ok"

-----------------------------------------------------------------------------
(* Creating and attaching.                                                 *)

Set(a, local) == request' = [request EXCEPT ![a] = local]

Queue(local, events) ==
    [local EXCEPT !.queue = events, !.phase = IF events = <<>> THEN "work" ELSE "read"]

\* Of a request that has answered the model keeps what the properties speak of.
Ended(local, reply) ==
    [Fresh(local.role, "done") EXCEPT !.saved = local.saved, !.reply = reply]

\* Request a does its work at a point, reports the events and goes on at the next point.
Does(a, point, events, next) ==
    /\ At(a, point) /\ Works(a)
    /\ Set(a, [Queue(request[a], events) EXCEPT !.at = next])

logVars == <<deployment, operation, latest, finals>>

\* CreateOperation; then one queued event for each step of the kind.
Insert ==
    /\ At(Creator, "insert")
    /\ operation' = [operation EXCEPT !.status = "queued"]
    /\ Set(Creator, [Queue(request[Creator], [i \in DOMAIN kindSteps[operation.kind] |->
                                                Ev(kindSteps[operation.kind][i], "queued")])
                     EXCEPT !.at = "issue"])
    /\ UNCHANGED <<deployment, latest, finals, viewer>>

\* The relay token is issued and the operation handed out, or nobody learns of it.
IssueToken(reply) ==
    /\ At(Creator, "issue") /\ Works(Creator)
    /\ Set(Creator, Ended(request[Creator], reply))
    /\ UNCHANGED <<logVars, viewer>>

MaintainKinds == {"memory_reflection", "mcq_next_round"}

Serves(role) ==
    \/ role = "maintain" /\ operation.kind \in MaintainKinds
    \/ role = "generate" /\ operation.kind # "memory_reflection" /\ deployment.configured
    \/ role = "cancel"

FirstPoint(role) ==
    CASE role = "maintain" -> IF deployment.refreshing THEN "pending" ELSE "skip"
      [] role = "generate" -> IF operation.kind = "mcq_next_round" THEN "require" ELSE "prepare"
      [] OTHER -> "pick"

\* Attach and Cancel refuse an operation that is terminal.
Attach(r, role) ==
    /\ Published /\ At(r, "idle") /\ Serves(role)
    /\ ~Terminal(operation.status)
    /\ Set(r, [Fresh(role, FirstPoint(role)) EXCEPT !.cached = operation.status])
    /\ UNCHANGED <<logVars, viewer>>

-----------------------------------------------------------------------------
(* MaintainProfile and refreshProfileOnce: each disjunct is one outcome of *)
(* the call made at that point, with the events it reports.                *)

Skipped(steps) == [i \in DOMAIN steps |-> Ev(steps[i], "succeeded")]

\* The refresh is switched off: the four steps are reported as skipped.
SkipRefresh(r) ==
    \/ /\ At(r, "skip")
       /\ Set(r, [Queue(request[r], Skipped(MemorySteps)) EXCEPT !.at = "profile", !.saved = TRUE])
    \/ Does(r, "profile", <<>>, "complete")
    \/ Does(r, "profile", <<>>, "fail")

LoadEvidence(r) ==
    \/ Does(r, "pending", <<Ev("load_evidence", "running")>>, "evidence")
    \/ Does(r, "pending", <<>>, "fail")
    \/ Does(r, "evidence", <<Ev("load_evidence", "succeeded")>>, "completion")
    \/ Does(r, "evidence", <<Final("load_evidence", "failed")>>, "fail")

(***************************************************************************)
(* A completion that is marked already, or no evidence at all, leaves      *)
(* nothing to do; without a provider the refresh falls back and the        *)
(* request still succeeds; missing evidence and failing notes end it.      *)
(***************************************************************************)
CheckCompletion(r) ==
    /\ At(r, "completion") /\ Works(r)
    /\ \/ Does(r, "completion", <<>>, "fail")
       \/ Set(r, [request[r] EXCEPT !.at = "settle", !.saved = TRUE])
       \/ Set(r, [Queue(request[r], Skipped(Tail(MemorySteps))) EXCEPT !.at = "settle", !.saved = TRUE])
       \/ Does(r, "completion", <<Final("synthesize_profile", "failed")>>, "fail")
       \/ /\ ~deployment.configured
          /\ Does(r, "completion", <<Final("synthesize_profile", "failed")>>, "settle")
       \/ /\ deployment.configured
          /\ Does(r, "completion", <<Ev("synthesize_profile", "running")>>, "synthesize")

Synthesize(r) ==
    \/ Does(r, "synthesize", <<Ev("synthesize_profile", "succeeded"),
                               Ev("validate_profile", "running")>>, "validate")
    \/ Does(r, "synthesize", <<Final("synthesize_profile", "failed")>>, "fail")
    \/ Does(r, "validate", <<Ev("validate_profile", "succeeded"),
                             Ev("save_profile", "running")>>, "save")
    \/ Does(r, "validate", <<Final("validate_profile", "failed")>>, "fail")

\* RefreshProfile starts again once, on a stale profile.
Restart(r) ==
    /\ request[r].attempt = 1
    /\ Set(r, [Queue(request[r], <<Final("save_profile", "failed"), Ev("load_evidence", "running")>>)
               EXCEPT !.at = "evidence", !.attempt = 2])

(***************************************************************************)
(* The save commits, finds the completion marked by another refresh, or    *)
(* fails.  A failure is reported as final even when it is a stale profile  *)
(* and the refresh starts again.                                           *)
(***************************************************************************)
Save(r) ==
    /\ At(r, "save") /\ Works(r)
    /\ \/ Set(r, [Queue(request[r], <<Ev("save_profile", "succeeded")>>)
                  EXCEPT !.at = "settle", !.saved = TRUE])
       \/ Set(r, [request[r] EXCEPT !.at = "settle", !.saved = TRUE])
       \/ Does(r, "save", <<>>, "fail")
       \/ Does(r, "save", <<Final("save_profile", "failed")>>, "fail")
       \/ Restart(r)

\* The session's memory status; then completeMemoryWorkflow.
SettleMemory(r) ==
    \/ Does(r, "settle", <<>>, "complete")
    \/ Does(r, "settle", <<>>, "fail")
    \/ /\ operation.kind = "memory_reflection"
       /\ Does(r, "complete", <<Final("memory_ready", "succeeded")>>, "ok")
    \/ /\ operation.kind = "mcq_next_round"
       /\ Does(r, "complete", <<>>, "ok")

-----------------------------------------------------------------------------
(* Generate, GenerateMCQSet, generateProblem.                              *)

\* A step that has not failed is taken for done.
SlipMet == \A step \in Range(MemorySteps) : latest[step] # "failed"

\* RequireSucceeded: what the log says last of every memory step.
Met == \A step \in Range(MemorySteps) : latest[step] = "succeeded"

\* A request that the gate refuses has not deferred anything yet.
Require(r) ==
    /\ At(r, "require")
    /\ Set(r, IF Met THEN [request[r] EXCEPT !.at = "prepare"]
              ELSE Ended(request[r], "failed"))

DraftStep(r) ==
    IF operation.kind = "problem_generation" THEN "generate_problem"
    ELSE IF request[r].attempt = 1 THEN "generate_questions" ELSE "repair_questions"

\* The gate, the spec and the intake; then LoadProfile.
LoadContext(r) ==
    \/ Does(r, "prepare", <<>>, "fail")
    \/ Does(r, "prepare", <<Ev("load_context", "running")>>, "context")
    \/ Does(r, "context", <<Ev("load_context", "succeeded"), Ev(DraftStep(r), "running")>>, "draft")
    \/ Does(r, "context", <<Final("load_context", "failed")>>, "fail")

\* The first rejection is reported as final like the second.
SlipRejectQuestions(r) ==
    /\ At(r, "check") /\ Works(r)
    /\ IF request[r].attempt = 2
       THEN Does(r, "check", <<Final("validate_questions", "failed")>>, "fail")
       ELSE Set(r, [Queue(request[r], <<Final("validate_questions", "failed"),
                                        Ev("repair_questions", "running")>>)
                    EXCEPT !.at = "draft", !.attempt = 2])

RejectQuestions(r) ==
    /\ At(r, "check") /\ Works(r)
    /\ IF request[r].attempt = 2
       THEN Does(r, "check", <<Final("validate_questions", "failed")>>, "fail")
       ELSE Set(r, [Queue(request[r], <<Ev("validate_questions", "failed"),
                                        Ev("repair_questions", "running")>>)
                    EXCEPT !.at = "draft", !.attempt = 2])

\* One draft, and one more when the first is not valid.
DraftQuestions(r) ==
    /\ operation.kind # "problem_generation"
    /\ \/ Does(r, "draft", <<Ev(DraftStep(r), "succeeded"), Ev("validate_questions", "running")>>, "check")
       \/ Does(r, "draft", <<Final(DraftStep(r), "failed")>>, "fail")
       \/ Does(r, "check", <<Ev("validate_questions", "succeeded")>>
                             \o (IF request[r].attempt = 1 THEN <<Ev("repair_questions", "succeeded")>>
                                                            ELSE <<>>)
                             \o <<Final("questions_ready", "succeeded")>>, "ok")
       \/ RejectQuestions(r)

DraftProblem(r) ==
    /\ operation.kind = "problem_generation"
    /\ \/ Does(r, "draft", <<Ev("generate_problem", "succeeded"), Ev("verify_solution", "running")>>, "verify")
       \/ Does(r, "draft", <<Final("generate_problem", "failed")>>, "fail")
       \/ /\ At(r, "draft") /\ Works(r) /\ request[r].attempt = 1
          /\ Set(r, [Queue(request[r], <<Ev("generate_problem", "failed"),
                                         Ev("generate_problem", "running")>>)
                     EXCEPT !.attempt = 2])
       \/ Does(r, "verify", <<Ev("verify_solution", "succeeded"), Ev("save_problem", "running")>>, "persist")
       \/ Does(r, "verify", <<Final("verify_solution", "failed")>>, "fail")
       \/ request[r].gone /\ Does(r, "verify", <<>>, "fail")
       \/ Does(r, "persist", <<Ev("save_problem", "succeeded"), Final("problem_ready", "succeeded")>>, "ok")
       \/ Does(r, "persist", <<Final("save_problem", "failed")>>, "fail")

\* The first step of the log that runs, else the first that is queued, else the last.
FirstActiveStep ==
    LET steps == kindSteps[operation.kind]
        having(status) == {i \in DOMAIN steps : latest[steps[i]] = status}
        active == IF having("running") # {} THEN having("running")
                  ELSE IF having("queued") # {} THEN having("queued") ELSE {Len(steps)}
    IN steps[CHOOSE i \in active : \A j \in active : i <= j]

PickStep(r) == Does(r, "pick", <<Final(FirstActiveStep, "failed")>>, "done")

Fallback(role) ==
    CASE role = "maintain" -> IF operation.kind = "mcq_next_round" THEN "save_profile" ELSE "memory_ready"
      [] OTHER -> IF operation.kind = "problem_generation" THEN "problem_ready" ELSE "questions_ready"

\* The request answers and leaves the operation as it is.
SlipFinishRequest(r) ==
    /\ At(r, "ok") \/ At(r, "fail")
    /\ Works(r)
    /\ Set(r, Ended(request[r], IF At(r, "ok") THEN "ok" ELSE "failed"))

(***************************************************************************)
(* The request answers; ensureWorkflowTerminal then closes the operation   *)
(* as failed unless the reporter has seen it closed.                       *)
(***************************************************************************)
FinishRequest(r) ==
    /\ At(r, "ok") \/ At(r, "fail")
    /\ Works(r)
    /\ LET answered == Ended(request[r], IF At(r, "ok") THEN "ok" ELSE "failed")
       IN Set(r, IF Terminal(request[r].cached) THEN answered
                 ELSE [Queue(answered, <<Final(Fallback(request[r].role), "failed")>>)
                       EXCEPT !.detached = TRUE])

Work(r) ==
    /\ \/ SkipRefresh(r) \/ LoadEvidence(r) \/ CheckCompletion(r) \/ Synthesize(r) \/ Save(r)
       \/ SettleMemory(r) \/ Require(r) \/ LoadContext(r) \/ DraftQuestions(r) \/ DraftProblem(r)
       \/ PickStep(r) \/ FinishRequest(r)
    /\ UNCHANGED <<logVars, viewer>>

-----------------------------------------------------------------------------
(* Reporting: appendScoped and the stores' AppendEvent.                    *)

ReadStatus(a) ==
    /\ request[a].phase = "read"
    /\ Set(a, [request[a] EXCEPT !.phase = "append", !.read = operation.status])
    /\ UNCHANGED <<logVars, viewer>>

\* Any report that says that a step failed fails the operation.
SlipNextStatus(read, event) ==
    IF event.status = "failed" THEN "failed" ELSE IF event.final THEN "succeeded"
    ELSE IF event.status = "running" /\ read = "queued" THEN "running" ELSE read

NextStatus(read, event) ==
    IF event.final THEN IF event.status = "failed" THEN "failed" ELSE "succeeded"
    ELSE IF event.status = "running" /\ read = "queued" THEN "running" ELSE read

Reported(local) ==
    [local EXCEPT !.queue = Tail(@), !.detached = FALSE, !.read = "queued",
                  !.phase = IF Len(local.queue) = 1 THEN "work" ELSE "read"]

(***************************************************************************)
(* A failed report ends Create and Cancel.  The other requests go on, but  *)
(* one whose client has left repeats the report without its context.       *)
(***************************************************************************)
NotReported(local) ==
    IF local.role \in {"create", "cancel"}
    THEN Ended(local, "failed")
    ELSE IF local.gone /\ ~local.detached
    THEN [local EXCEPT !.phase = "read", !.detached = TRUE, !.read = "queued"]
    ELSE Reported(local)

\* The status is checked when it is read and not again under the lock.
SlipAppend_(a) ==
    LET event  == Head(request[a].queue)
    IN /\ ~Terminal(request[a].read)
       /\ operation' = [operation EXCEPT !.status = NextStatus(request[a].read, event), !.last = @ + 1]
       /\ latest' = [latest EXCEPT ![event.step] = event.status]
       /\ finals' = IF event.final THEN finals \union {[sequence |-> operation.last + 1, by |-> a]}
                    ELSE finals
       /\ UNCHANGED <<deployment, viewer>>

\* The append succeeds under the lock, with the status computed before it; that a final event
\* also has the relay token revoked, or not, changes nothing here.
Append_(a) ==
    LET event  == Head(request[a].queue)
    IN /\ ~Terminal(operation.status)
       /\ operation' = [operation EXCEPT !.status = NextStatus(request[a].read, event), !.last = @ + 1]
       /\ latest' = [latest EXCEPT ![event.step] = event.status]
       /\ finals' = IF event.final THEN finals \union {[sequence |-> operation.last + 1, by |-> a]}
                    ELSE finals
       /\ UNCHANGED <<deployment, viewer>>

AppendEvent(a) ==
    /\ request[a].phase = "append"
    /\ Append_(a)
    /\ Set(a, [Reported(request[a]) EXCEPT !.cached = operation'.status])

\* ErrTerminal: the operation was closed by another request.
AppendRefused(a) ==
    /\ request[a].phase = "append" /\ Terminal(operation.status)
    /\ Set(a, NotReported(request[a]))
    /\ UNCHANGED <<logVars, viewer>>

\* The client of a request goes away, and the request's context is cancelled.
Leave(r) ==
    /\ request[r].role \in {"maintain", "generate"} /\ ~request[r].gone
    /\ request[r].at \notin {"done", "dead"}
    /\ Set(r, [request[r] EXCEPT !.gone = TRUE])
    /\ UNCHANGED <<logVars, viewer>>

\* A storage call that runs under a cancelled context fails, unless it was quicker.
ReportCancelled(a) ==
    /\ request[a].phase \in {"read", "append"}
    /\ request[a].gone /\ ~request[a].detached
    /\ Set(a, NotReported(request[a]))
    /\ UNCHANGED <<logVars, viewer>>

-----------------------------------------------------------------------------
(* Failures.                                                               *)

\* A storage call of a report fails.
ReportFails(a) ==
    /\ request[a].phase \in {"read", "append"}
    /\ Set(a, NotReported(request[a]))
    /\ UNCHANGED <<logVars, viewer>>

\* The append commits, but its caller sees an error.
AppendUnseen(a) ==
    /\ request[a].phase = "append"
    /\ Append_(a)
    /\ Set(a, NotReported(request[a]))

\* The process of a request dies.
Die(a) ==
    /\ request[a].at \notin {"idle", "dead"} /\ (~At(a, "done") \/ ~Works(a))
    /\ Set(a, [Ended(request[a], request[a].reply) EXCEPT !.at = "dead"])
    /\ UNCHANGED <<logVars, viewer>>

-----------------------------------------------------------------------------
(* The event stream: the handler lists the events after its cursor and     *)
(* sends them, then reads the operation, until that is terminal and all    *)
(* its events are sent.  The browser reconnects from what it has got.      *)

ViewerAt(point) == viewer.at = point

OpenStream ==
    /\ Watching /\ Published /\ ViewerAt("off")
    /\ viewer' = [viewer EXCEPT !.at = "list", !.sent = viewer.got]
    /\ UNCHANGED <<logVars, request>>

SendEvents ==
    /\ ViewerAt("list")
    /\ viewer' = [viewer EXCEPT !.at = "check", !.sent = operation.last]
    /\ UNCHANGED <<logVars, request>>

\* A terminal operation has no more events than those that were sent.
SlipOver == Terminal(operation.status)

\* The cursor must pass the last event.
SlipNotOver == Terminal(operation.status) /\ viewer.sent > operation.last

Over == Terminal(operation.status) /\ viewer.sent >= operation.last

\* A stream that ends is received whole; otherwise the handler polls again.
CheckEnd ==
    /\ ViewerAt("check")
    /\ viewer' = IF Over THEN [viewer EXCEPT !.at = "ended", !.got = viewer.sent]
                 ELSE [viewer EXCEPT !.at = "list"]
    /\ UNCHANGED <<logVars, request>>

\* The stream breaks when the browser has got some of the events that were sent.
DropStream ==
    /\ viewer.at \in {"list", "check"}
    /\ LET reconnects == viewer.reconnects + 1
       IN \E got \in viewer.got..viewer.sent :
            viewer' = [viewer EXCEPT !.reconnects = reconnects, !.got = got,
                                     !.at = IF reconnects >= MaxReconnects THEN "fallback" ELSE "off"]
    /\ UNCHANGED <<logVars, request>>

-----------------------------------------------------------------------------

Report(a) ==
    ReadStatus(a) \/ AppendEvent(a) \/ AppendRefused(a) \/ ReportCancelled(a)

Step(a) ==
    /\ \/ a = Creator /\ (Insert \/ IssueToken("ok"))
       \/ a # Creator /\ Work(a)
       \/ Report(a)
    /\ UNCHANGED faults

Stream == (OpenStream \/ SendEvents \/ CheckEnd \/ DropStream) /\ UNCHANGED faults

Fault ==
    /\ faults < MaxFaults
    /\ faults' = faults + 1
    /\ \/ IssueToken("failed")
       \/ \E a \in Actors : ReportFails(a) \/ AppendUnseen(a) \/ Die(a)

Next ==
    \/ \E a \in Actors : Step(a)
    \/ \E r \in Requests, role \in {"maintain", "generate", "cancel"} : Attach(r, role) /\ UNCHANGED faults
    \/ \E r \in Requests : Leave(r) /\ UNCHANGED faults
    \/ Stream
    \/ Fault

Spec == Init /\ [][Next]_workflowVars

\* Without faults, every handler goes on to its end and the browser opens the stream again.
FairSpec ==
    /\ Spec
    /\ \A a \in Actors : WF_workflowVars(Step(a))
    /\ WF_workflowVars((OpenStream \/ SendEvents \/ CheckEnd) /\ UNCHANGED faults)

-----------------------------------------------------------------------------
(* What makes an operation correct.                                        *)

(***************************************************************************)
(* The log has at most one final event, it is the last one, and it is      *)
(* there just when the row says that the operation is over: the status is  *)
(* computed from a row read before the lock, yet requests that end, fail   *)
(* or are cancelled together close the operation once (AppendEvent).       *)
(***************************************************************************)
OneFinalEvent ==
    /\ Terminal(operation.status) <=> finals # {}
    /\ \A event \in finals : event.sequence = operation.last

\* The operation and its log are well typed and tell the same end (AppendEvent).
EventLogInv == TypeOK /\ OneFinalEvent

\* An operation that is over never changes: no event, no other status (AppendEvent).
ClosedStaysClosed ==
    [][Terminal(operation.status) => UNCHANGED <<operation, latest, finals>>]_workflowVars

(***************************************************************************)
(* The questions of a next round are generated only after the learner's    *)
(* memory was updated, or there was nothing to update (RequireSucceeded):  *)
(* the log that the gate reads is written by several requests, some of     *)
(* whose reports are lost.                                                 *)
(***************************************************************************)
GenerationFollowsMemory ==
    operation.kind = "mcq_next_round" =>
        \A r \in Requests :
            request[r].at \in {"prepare", "context", "draft", "check"} =>
                \E m \in Requests : request[m].saved

\* A stream that the server ends has delivered every event, the final one too (Events).
StreamsAreComplete ==
    ViewerAt("ended") => Terminal(operation.status) /\ viewer.got = operation.last

ClosesTruthfully(role) ==
    \A r \in Requests :
        request[r].role = role /\ request[r].reply = "ok" /\ operation.status = "failed" =>
            \A event \in finals : event.by # r

(***************************************************************************)
(* A generation that answers with success has not closed its operation as  *)
(* failed, unless a report of it was lost: the drafts that it rejected and *)
(* repaired are failed steps, and it must have seen its own final event    *)
(* although its client left (GenerateMCQSet, ensureWorkflowTerminal).      *)
(***************************************************************************)
GenerationClosesTruthfully == faults = 0 => ClosesTruthfully("generate")

(***************************************************************************)
(* Violated: the same of MaintainProfile, which closes a next round that   *)
(* went well as failed, and so a reflection whose stale save it repeats.   *)
(***************************************************************************)
MaintenanceClosesTruthfully == ClosesTruthfully("maintain")

(***************************************************************************)
(* An operation that a request works on is closed in the end, whatever the *)
(* request meets and although its client leaves (ensureWorkflowTerminal,   *)
(* ReportDetached).                                                        *)
(***************************************************************************)
AttachedOperationsClose ==
    \A r \in Requests :
        (request[r].role \in {"maintain", "generate"} /\ request[r].at \notin {"require", "done"})
            ~> Terminal(operation.status)

(***************************************************************************)
(* The browser does not follow an operation that is over for ever: its     *)
(* stream comes to its end, unless it has given up reconnecting (Events,   *)
(* consume).                                                               *)
(***************************************************************************)
StreamsEnd == (Terminal(operation.status) /\ Published) ~> viewer.at \in {"ended", "fallback"}

=============================================================================
