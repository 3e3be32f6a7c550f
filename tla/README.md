# CodeGym: a TLA+ verification project

CodeGym is a practice platform: a Go backend (`src/backend`), a React frontend
(`src/frontend`) and a Postgres database. A learner submits code, the backend
runs it in a sandbox, grades it, records the outcome as *evidence* and folds
the evidence into the learner's long-lived *memory profile*, from which new
problems are generated. What is hard about it is not any one step but that all
of this is retried: by the browser, by the learner, by a daily worker, and
after crashes.

The modules here model that core. Every definition is translated from the
source; `PROJECT.json` maps each one to the lines it stands for. Paths below
are relative to `src/backend/internal/` unless they say otherwise.

## 1. Inventory

| Component | State | Operations | Hard behaviour | What makes it correct |
| --- | --- | --- | --- | --- |
| submission (`submission/service.go`) | none of its own; drives `submission_request_tokens`, runs, evidence, session | `Submit`, `Get` | duplicates and retries of one `client_token` at every stage; failure between execute, bind and complete; replay of old submissions | one execution and one answer per token; evidence reaches memory |
| execution (`execution/service.go`, stores) | `execution_runs`, `submission_request_tokens`, timings | `SubmitRun`, `Reserve/Bind/CompleteSubmissionRequest` | unconditional updates by several requests; a run whose handler died | reservations only advance; a bound run is terminal |
| execution sandbox (`execution/daytona_runner.go`, `supervisor.py`, `judge_protocol.go`) | a remote sandbox per run | create, upload, execute, read the verdict, delete | timeouts, failed clean-up, contradictory verdict sources | every run gets one verdict; sandboxes are deleted |
| session (`session/service.go`, stores) | `practice_sessions` (status, JSON state), draft files | `Create`, `Update`, `UpsertFiles`, `SetMemoryUpdateStatus…`, `HasPendingMemoryUpdate` | `Update` is a read-modify-write of the whole row | a newer submission's status is never overwritten |
| memory (`memory/service.go`, stores, `worker.go`) | `user_memory_profiles` with a version, `memory_profile_completions`, events | `ProfileInputs`, `ReplaceProfile…IfVersion`, `RecordEvent` | concurrent refreshes; failure after commit | no lost update, no double counting |
| profile synthesis (`generation/profile.go`, `notes.go`) | none | `RefreshProfile`, `RefreshAllProfiles` | optimistic save with one retry; minutes of model calls between read and save | every refresh ends; outcomes are reported truthfully |
| memory and generation handlers (`api/handlers/generate.go`) | none | `MaintainProfile`, generate | gate on pending memory; retries of old completions | generation sees the memory it waited for |
| practice page (`src/frontend/src/features/problems/ProblemDetailPage.tsx`) | its own copy of the session state | load, submit, PATCH, retry | writes back state it read long ago; several tabs | does not undo what the server settled |
| workflow (`workflow/`) | `workflow_operations`, `workflow_progress_events` | `Create`, `Attach`, `Report`, `Cancel`, `RequireSucceeded` | a status is read, then written with a later event; cancel races completion | terminal stays terminal; one terminal event |
| agent relay (`agentrelay/`) | `agent_relay_operation_budgets` | `Issue`, `Authenticate`, `ChatCompletions`, `AddUsage`, `Revoke` | budget checked before, charged after a call; disconnects | nothing is served after the end of an operation; overshoot is bounded |
| chat (`chat/service.go`, stores) | threads, messages, interview events | `CreateOrResume`, `Turn`, `Reset`, `Finish`, `Exit` | turns overlap with closing; everything is sent again; errors of look-ups are ignored | one active thread; one reply per message, one event per interview; what is over stays over |
| intake (`intake/service.go`, stores) | intake records | `Prepare`, `Update`, `Context` | read-modify-write around a model call; several pages | a baseline is whole; a page is told the truth; closed is closed |
| generate page (`features/generate/`) | a copy of one record, the answers of the open modal | restore, start, answer, skip, update | its copy is older than the record | practice starts only from a closed baseline |
| router and adapters (`generation/router.go`, `openaicompat/`) | none | `Generate`, `Stream`, repeated requests | fallback after part of an answer; rejected parameters | one provider answers; every request ends |
| generation (`generation/problem.go`, `mcq.go`, `interview.go`, `problemverify/`) | the stored problem | draft, validate, run, adjudicate, repair, store | repairs and runs alternate; the profile moves | only a verified, presentable problem is stored |
| marathon page (`features/marathon/MarathonPage.tsx`) | a run of rounds, a queue of saves, pending events | generate, answer, reflect, finish, exit, reload | every call answers later; handlers keep the view they were rendered with | events before reflection, reflection before the next round, one verdict per question, no save overtaken |
| usage, identity, auth, config, router, remaining frontend | append-only records, request scope | CRUD, lookups, wiring | none beyond their database | not modelled |

How they interact: a browser calls `POST /submissions`; `Submit` reserves the
token, calls `execution.SubmitRun` synchronously, then records evidence through
`memory.RecordEvent`, completes the session through `session.Update`, claims the
session's memory status, calls `ProfileSynthesizer.RefreshProfile` (which calls a
model provider for notes and profile, then saves with a version check) and
settles the status. A replay or a join does only the session part and reports a
status. `POST /memory/profile/maintain` runs the same refresh again for one
submission, and the memory worker runs it daily for everybody. Everything shared
is a database row; there are no locks that span two calls.

## 2. Plan

| Module | What it models | Abstract specification | Theorems |
| --- | --- | --- | --- |
| `SubmissionRequests` | tokens and execution | `LogicalSubmissions` | `SubmissionRequestsProofs` |
| `CompletionMemory` | evidence, session status, refreshes | `CompletionLedger` | `CompletionMemoryProofs` |
| `AgentRelay` | budget and revocation of a relay token | | in `SandboxProofs` |
| `WorkflowOperation` | an operation, its log, its requests and its browser | | `WorkflowOperationProofs` |
| `ChatThreads` | the conversations of a session | | `ChatThreadsProofs` |
| `PracticeIntakes` | the baselines of a topic and the pages that ask for them | | `PracticeIntakesProofs` |
| `SandboxRuns` | one run: runner, sandbox, supervisor, code | `Reconstruct`, the backend's statement of the protocol | `SandboxProofs` |
| `ProviderRouter` | one request to the providers | | in `ProblemPipelineProofs` |
| `ProfileNotes` | what a refresh does with the content of the profile | | in `ProblemPipelineProofs` |
| `ProblemPipeline` | one generation job, or refresh, over `ProviderRouter` and `ProfileNotes` | | `ProblemPipelineProofs` |
| `MarathonRun` | one run of the marathon in its page | | `MarathonRunProofs` |

`ProblemPipeline` composes with `ProviderRouter` and `ProfileNotes` by EXTENDS:
the router has its variables and its steps, the job asks it and takes its answer;
the notes have their variables and their operators, the job applies them. The other modules
meet in values that one writes and the other is handed: an outcome
(`SandboxRuns` to `SubmissionRequests`), a completed submission
(`SubmissionRequests` to `CompletionMemory`), an ended operation
(`WorkflowOperation` to `AgentRelay`), a reflection (`MarathonRun` to
`CompletionMemory`).

Every invariant and action property of the runs is a theorem; section 13 gives the
arguments. The liveness properties stay with TLC.

## 3. `SubmissionRequests`

The first half of `submission.Service.Submit` (service.go:79-184) with
`execution.Service.SubmitRun` and the token store. A request is one HTTP
handler. Its local state is the storage call it makes next (`at`), the token,
the fingerprint of its content, the run it was told and the verdict it got.

| Action | Code |
| --- | --- |
| `Arrive`, `Reject` | validation, service.go:80-113 |
| `ReserveFresh`, `ReserveConflict`, `ReserveExisting` | `ReserveSubmissionRequest` and the branches on its result, 115-145 |
| `FetchReplay` | the completed-token replay, 126-135 |
| `SeeBinding`, `GiveUpBinding` | `awaitSubmissionRequestRun`, 286-315 |
| `WaitForRun`, `JoinRun` | `waitForSubmissionRun` 317-338 and the join branch 146-155 |
| `CreateRun`, `StartRun`, `Execute`, `StoreOutcome` | `SubmitRun`, execution/service.go:46-155 |
| `BindRun`, `CompleteRun` | 176-184 |
| `Abort` | any storage call fails, the client goes away, or the process dies |

Every storage call is one step, so handlers interleave between any two of them.
`Abort` is always possible and unbounded. `GiveUpBinding` is possible at any
time while the token is unbound: it covers the bind timeout and a cancelled
request, without modelling time. A handler creates at most one run, so the run
of handler `r` is called `r`.

`LogicalSubmissions` is what all this is for: a token is executed at most
once, settles on that execution, and every answer names it.

Runs (`MCSubmissionRequests`):

- `submit_answers` has three requests, one token and two contents, plus
  requests without a token: an owner, a joiner and a late replayer or a conflict
  at once. Nothing a request does reads or writes the row of another token, so
  one token is enough here; the theorems hold for any number. It checks the
  inductive `ReservationInv`, the invariants that follow from it, the refinement
  `ImplementsLogical`, and `EveryRequestIsAnswered` under `FairSpec`: every
  handler keeps taking steps. That is justified by Go's scheduler and by the
  polls and storage calls having deadlines; nothing is assumed about `Abort`,
  `Arrive` or `Reject`. The property would fail if a run were bound before it
  is over, since a joiner would poll for the outcome of a dead handler; it
  holds because binding comes after the terminal update.
  That a reservation never goes back (`ReservationsOnlyAdvance`) is proved.

## 4. `CompletionMemory`

The rest of `Submit` (185-244) and everything else that touches the memory of
one practice session. A worker is an owner (the `Submit` call that executed), a
replay, a maintenance retry, a daily refresh or a browser tab.

| Action | Code |
| --- | --- |
| `Graded`, `RecordEvidence` | submission/service.go:185-228 |
| `ReadSession`, `WriteSession` | `session.Service.Update`, session/service.go:92-126, called at 229-234 |
| `Claim`, `Settle`, `SettleFails` | `refreshMemory`, 349-390, and `SetMemoryUpdateStatusIfCurrent` |
| `Report` | `settledMemoryStatus`, 392-412 |
| `SetPending`, `Settle`, `SettleFails` | `MaintainProfile`, api/handlers/generate.go:352-502 |
| `ReadEvidence`, `ReadProfile` | `memory.Service.ProfileInputs`, memory/service.go:50-73 |
| `CheckCompletion`, `CheckDigest`, `Generate` | `refreshProfileOnce`, generation/profile.go:143-346 |
| `SaveFindsMarker`, `SaveIsStale`, `SaveCommits` | `ReplaceProfileAndMarkCompletionIfVersion` and the one retry, profile.go:121-141, 347-384 |
| `RefreshFails`, `Abort` | any call fails; the process dies |
| `LoadTab`, `MergeAnswer`, `ReadForPatch`, `WritePatch` | ProblemDetailPage.tsx and the PATCH it sends |

Abstractions. A profile is its version, the sequence of completions folded into
its notes and the evidence its digest covers; what a model writes is
irrelevant. `Generate` is one step that may fail. An update of the session is
*two* steps, because the code reads and writes without a lock; the status
writes are one step, because the code locks the row. A tab PATCHes once.

`CompletionLedger` is the promise: memory is an append-only list, a completion
enters it at most once, and its owner or a retry is told "synced" only
afterwards. `CompletionMemory` implements it with every kind of helper.

Runs (`MCCompletionMemory`):

- `memory_safety`: two submissions and one helper that may replay, retry or
  refresh daily. Two owners already interleave their refreshes and their claims;
  the helper adds a third refresh, which is what makes a stale save retry and
  become stale again. Invariants `ProfileIsLedger`, `SyncedIsRecorded`, the inductive `MemoryInv`, and the refinement.
- `memory_liveness`: one submission and two helpers, each a daily refresh or a
  tab. `EveryRefreshEnds`, under weak fairness of every worker's own steps,
  although three refreshes make each other stale.

`SyncedIsRecorded` is checked, and proved, without tabs. With tabs it is false
for the reason given under Findings: a tab may merge the answer to one
submission with the copy of the state that another one left.

Deadlock is not checked in any run of the project: every handler ends, and a state in which all have ended is a proper end.

## 5. `AgentRelay`

The relay lets a sandbox make model calls with a bearer token that belongs to
one workflow operation. A slot is one of the calls in flight; it is reused, so
the number of calls is not bounded.

| Action | Code |
| --- | --- |
| `EndOperation`, `RevokeToken` | a terminal event, and the revocation after it, workflow/service.go:251-266 |
| `CheckBeforeIssue`, `Issue` | `Service.Issue`, agentrelay/service.go:86-138 |
| `DeadlinePasses` | the clock |
| `ReadBudget`, `CheckOperation`, `RevokeEnded` | `Service.Authenticate`, 142-176: the row, then the operation, then the ceilings of the row read first |
| `ProviderFails`, `ProviderAnswers`, `UsageIsMissing`, `StreamBreaks` | `ChatCompletions` and `streamChatCompletions`, agentrelay/http.go:70-239 |
| `Charge`, `Record`, `AccountingFails`, `RevokeAfterFailure` | `recordUsage`, `AddUsage` and `revokeAfterAccountingFailure`, 356-386 |

`relay_safety` has three slots, a ceiling of 2 and calls that cost up to 2: a
single call can take the budget from below the ceiling to beyond it, and three
calls overshoot together. The row may be revoked before it is created, which
does nothing, and every revocation may fail.

- `LateCallsAreRefused`: a call that begins when there is a reason to refuse it
  never reaches the provider, although the row is read once, before the
  operation, and revocations fail.
- `OvershootIsBounded`: checking before and charging after lets the budget
  exceed its ceiling by less than `MaxUse` for each call in flight.
- `PlainAnswersAreCharged`: what is not streamed is charged first.
A stream whose client leaves is not charged (`StreamBreaks`), nor is its token
revoked when the request is cancelled: `PlainAnswersAreCharged` is therefore
about the other answers only.

The model speaks of tokens; the cost ceiling works alike. That one call costs
at most `MaxUse` is an assumption: nothing in the relay enforces it.

## 6. `WorkflowOperation`

One operation: its row, its log and the requests that report to it.

| Action | Code |
| --- | --- |
| `Insert`, `IssueToken` | `Service.Create`, workflow/service.go:40-101 |
| `Attach` | `Service.Attach`, 103-130, from `MaintainProfile` and `Generate`; `Cancel` |
| `SkipRefresh`, `LoadEvidence`, `CheckCompletion`, `Synthesize`, `Save`, `SettleMemory` | `MaintainProfile` (api/handlers/generate.go:355-481) and the steps that `refreshProfileOnce` reports |
| `Require`, `LoadContext`, `DraftQuestions`, `DraftProblem` | `Generate` (84-352), `GenerateMCQSet`, `generateProblem` |
| `PickStep` | `Service.Cancel`, 155-202 |
| `FinishRequest` | the answer, then the deferred `ensureWorkflowTerminal`, generate.go:563-577 |
| `ReadStatus`, `AppendEvent`, `AppendRefused` | `appendScoped`, 204-268, with the stores' `AppendEvent` |
| `ReportCancelled`, `ReportFails`, `AppendUnseen` | a report that fails, and its repetition by `ReportDetached`, generate.go:527-542 |
| `Leave`, `Die` | the client goes away; the process dies |
| `OpenStream`, `SendEvents`, `CheckEnd`, `DropStream` | the event stream (api/handlers/workflow.go:43-112) and `consume` in useWorkflowProgress.ts |

A request works (each disjunct is one outcome of one call, with the events that
outcome reports), then reports the queued events one by one. A report is two
steps, a read of the operation and an append, because `appendScoped` computes
the next status before the store takes the lock. Of the log the model keeps
what the code asks of it: the latest status of each step, the number of events
and the terminal ones.

`Deployments` holds the configurations considered: memory refreshes on or off,
a provider or none. `MaxFaults` bounds how often storage fails and requests die;
a client that leaves, and the cancelled context it leaves behind, are not faults
and are always possible, since the code answers them by repeating the report.
`MaxReconnects` is the hook's own constant (3 in the code; 2 in the run, which
is enough to resume a resumed stream and to give up).

Runs (`MCWorkflowOperation`):

- `workflow_safety` takes a next round, the kind that has the steps of both
  reflection and generation, with two requests of any role, every deployment and
  one fault. Two requests are what interleaves here: the two requests of the
  round, two workers, or a worker with a canceller; the creator is a third
  process. One fault covers a report that is lost, one that is repeated although
  it was not, and a request that dies. `EventLogInv` and `ClosedStaysClosed`
  say that the operation is closed once and for ever, although the status is
  computed before the lock is taken; `GenerationFollowsMemory` that the gate of
  a next round cannot be passed by lost or skipped reports;
  `GenerationClosesTruthfully` that rejected drafts, which are failed steps, do
  not fail an operation that succeeds.
- `workflow_liveness` takes the other kinds with one request and a browser:
  `AttachedOperationsClose`, although the client leaves at any moment (another
  request could only close the operation earlier); `StreamsAreComplete` and
  `StreamsEnd`, with a stream that breaks and is resumed from the browser's
  cursor.
- `workflow_next_round` is violated: see Findings.

Fairness: every handler goes on to its end, since Go schedules it and the calls
it makes have deadlines; the stream handler polls, and the browser opens the
stream again after a break. Nothing is assumed about clients attaching, leaving
or breaking the stream. The liveness run has no faults: a process that dies, or
a store that fails for ever, leaves its operation open, as in the code.

## 7. `ChatThreads`

The conversations of one interview session. A request works on the row that it
read first, and writes that whole row back, while others do the same.

| Action | Code (`chat/service.go`) |
| --- | --- |
| `Create`, `FindActive`, `LookAtMessages`, `InsertThread`, `GenerateOpening` | `CreateOrResume`, 58-163; also called by `Reset` |
| `ReadForTurn`, `AppendTurn`, `FindReply`, `EndStream`, `TouchThread` | `Turn`, 214-315 |
| `ReadForReset`, `CloseThread`, `LinkSuccessor` | `Reset`, 317-348 |
| `ReadForFinish`, `Assess`, `CompleteThread`, `CompleteSession`, `LookForEvent`, `RecordInterview`, `Refresh`, `SetStatus` | `Finish`, 350-475 |
| `Abandon` | a call fails, the client leaves, the server stops |

The two unique indexes of the tables are part of the operations that meet them:
`UpdateThread` is refused when another thread is active (and `Turn` and `Reset`
ignore that), `AppendMessage` stores a learner's message once. A step whose error
is ignored may fail and go on.

`chat_safety` has two requests, two threads, one `client_message_id`, three
messages on a thread and three requests that read a thread: a turn, its
repetition and a reset or a finish, or two turns around a reset. Requests end and
begin again, so more than two happen.

- `ThreadInv`: one thread is active although late turns reactivate theirs.
- `RepeatsAreHarmless`: a second complete reply or a second event of one
  interview comes only of requests that overlap, or that could not look for the
  first. `unseen` remembers these, per thread and message, so that the exception
  covers no other.
- `OverStaysOver`: a thread that is over becomes active again only by a turn
  that read it before it was over.

## 8. `PracticeIntakes`

The baselines of one topic: the records, and the pages with one request each.

| Action | Code |
| --- | --- |
| `Restore`, `Leave` | GeneratePage.tsx 180-208; the page is closed |
| `Prepare`, `FindLatest`, `CheckFamiliar`, `CreateRecord` | `prepareIntake`, `startPractice`, "Update baseline", and `Service.Prepare`, intake/service.go:39-97 |
| `WriteDraft` | `retryGeneration`, 99-117 |
| `Ask` | the choices and buttons of QuestionModal.tsx, `saveIntakeAnswer`, `finishIntake` |
| `GetRecord`, `PutRecord` | `Service.Update`, 138-173, as a read and a later write of the whole record |
| `BecomeFamiliar` | evidence of the topic, as `isFamiliar` will find it |

`intake_safety`: two pages, two records, two questions and two drafts, hence two
drafts of one record and a record restarted while the other page still shows it.
`raced` becomes true when two requests work on one record (or both find none) at
the same time.

- `IntakeInv`: whatever overlaps, a record's answers belong to its questions, and
  a completed one has them all.
- `PagesAreRight`, `ClosedForGood`: without a race, what a page was told is
  stored, a practice starts from a closed baseline, and what is closed is not
  reopened. With a race neither holds (Findings).

## 9. `SandboxRuns`

One submission, its sandbox and what runs in it.

| Action | Code |
| --- | --- |
| `CreateRun`, `StartRun`, `SaveRun` | `SubmitRun`, execution/service.go:48-155 |
| `Create`, `Backoff` | `createSandbox`, execution/daytona_runner.go:246-280 |
| `Upload`, `ExecEnds`, `ExecFails`, `Download`, `Delete` | `Run`, 112-244, with the deferred deletion 150-165 |
| `ReadBack` | `timeoutRunOutcome`, 296-325, under its own context |
| `Spawn`, `KillChild`, `WriteResult`, `SupervisorFails` | `run` and `main`, supervisor.py:294-400 |
| `WriteEvent`, `WriteLine`, `WriteVerdict`, `ChildDies` | the code under test, which may write anything and die anyhow |
| `Expire`, `Leave` | the budget of the run; the client of the request |

`Judge` is the supervisor's reading of the files, `Reconstruct` the backend's
(`ReconstructJudgeResult`): the same protocol, written twice. Both keep the
precedence of verdict.json, the printed result line and the progress lines, but
each has checks of its own, and each is modelled with its own: `NormalVerdict`,
`LegacyLine`, `Counts(e, "supervisor")` and `Raises` follow supervisor.py,
`WellFormed`, `Decodes` and `Counts(e, "backend")` follow judge_protocol.go. What
is written carries what they look at: the kind of a name, a status, a duration, an
error and a compile error, and which of the two can decode it (`readers`, `stops`).
They differ on:

| Where | What | supervisor.py | judge_protocol.go |
| --- | --- | --- | --- |
| anywhere | a name of spaces | takes it (139-144, 169) | rejects it (205-209) |
| anywhere | a duration beyond 64 bits or `true` | takes it | does not decode it |
| anywhere | a list or object as a status | raises; `main` then reports a crash (387-396) | rejects it |
| verdict.json | a case without a duration, or null | rejects it (179-181) | takes it as zero |
| verdict.json | neither cases nor a compile error | takes it | rejects it (199-202) |
| result line | an error or compile error that is no string | keeps it (203-236) | rejects it (262-291) |
| result line | a name that is no string | makes it one | rejects it |
| result line | a duration of null | rejects it | takes it |
| cases.jsonl | a bad duration, an error that is no string | mends them (146-151) | drops the line (218-255) |
| cases.jsonl | a line of 64KB, bytes that are no UTF-8 | the bytes end its reading | the line ends the scan |

`SupervisorAgrees` claims agreement on everything else (`ReadAlike`), and both
readings are stated in full, so that it is a fact about the two checks side by side.
`Parse` is a third reading, `ParseJudgeResult` of what the supervisor wrote: what
the supervisor let through and the backend cannot read becomes an error of the
platform, which `BlameIsRight` names (`Unreadable`).

Both readings of the progress lines are loops in the code,
`Loop` in `MCSandboxRuns`. `Progress` says what the loops compute: the n-th case is
that of the n-th line that tells one (`Finished`), and a case is unfinished when no
line after its start, the last one, starts or finishes it (`Unfinished`). TLC
compares the two for every file of up to four lines (`ProgressIsTheLoop`).

`sandbox_safety`: two progress lines of six (a start, a pass, a pass with a wide
duration and an error that is no string, a result of a blank name and a negative
duration that only the supervisor decodes, a list as a status, a line of 64KB), four
result lines and six verdicts (as they should be, empty, broken, and with one oddity
each), one kind of fault beside the expiry and the client. Two lines are a case that
is running and one that is over, in any order; a row of the table above is one
oddity, so that one odd file and one good one are enough to make the readers differ.
How keys are spelt and how output is split into lines are left out: the result line
of the model is the one that the supervisor finds.

- `VerdictInv`: a stored pass or fail is the verdict that the code wrote, and the
  cases of a death are finished ones, in order, though read while written.
- `BlameIsRight`: timeouts and errors say the truth about who is to blame.
- `NoStrandedSandbox`: what is left at the provider was lost with the answer to
  its creation, or could not be deleted, and the run says so.
- `RunsEnd`: under weak fairness of the handler and the deadline. The handler is
  a goroutine whose calls return when their context is over; the deadline is a
  timer. Nothing is assumed of the code, the supervisor, the provider's success or
  the client.

## 10. `ProviderRouter` and `ProblemPipeline`

`ProviderRouter` is one request to the providers: the route that the policy gives
(`selectProviders`), the adapter's repeated requests to one provider, and the
fallback to the next.

| Action | Code |
| --- | --- |
| `GiveUp`, `PassOver`, `Take`, `Fallback` | `Router.Generate` and `Router.Stream`, generation/router.go:62-165 |
| `AnswersObject`, `AnswersProse` | generation/openaicompat/adapter.go:171-252 and `extractJSON` |
| `RejectsFormat`, `RejectsLimit`, `SendFails` | the same, with `sendChatCompletion` and the two rejections, 368-480 |
| `Emits`, `StreamEnds`, `StreamFails` | `Adapter.Stream`, 255-366, and router.go:146-165 |

`ProblemPipeline` extends it by one job: a problem, a set of questions, an
assessment, a job with a single attempt, a chat turn, or a refresh of the profile.

| Action | Code |
| --- | --- |
| `Refuse`, `Begin` | api/handlers/generate.go:142-178, 244-270 |
| `LoadProfile`, `Ask`, `Unanswered`, `Answered`, `ProfileMoves` | generation/orchestrator.go:37-147 |
| `Reject`, `BuildFails`, `AcceptProblem`, `AcceptAnswer` | `GenerateProblem`, problem.go:381-451; `GenerateMCQSet`; `AssessInterview` |
| `RunReference`, `RunFails`, `Adjudicate`, `Condemned`, `Repair` | `Verify`, problemverify/verify.go:118-193, `applyRepair` 363-424 |
| `Save`, `SaveFails`, `Report` | generate.go:214-241, problems/service.go:77-92 |
| `BeginRefresh`, `ReadEvents`, `ReadProfile`, `Skip`, `EvidenceMissing` | `RefreshProfile` and the first half of `refreshProfileOnce`, generation/profile.go |
| `ChangeNotes`, `MaintainNotes` | `MaintainNotes`, `ApplyNoteActions`, `validateMaintainedNotes`, generation/notes.go |
| `AcceptProfile`, `SaveProfile`, `SaveIsStale`, `ProfileLost` | `ParseCuratedProfile`, and the versioned save with its one retry, profile.go |

`ProfileNotes` has the content: a note is its concepts (a problem, a title), the
length of its text, its time and what is to be done with it. The changes that the
model proposes are applied one after the other, then the notes are deduplicated,
capped and validated. Where `CompletionMemory` counts which completions a profile
has, this module asks what becomes of what the profile said.

A case is its visibility and whether the reference solution agrees with it; a
suite is a function from names to cases. `Presentable` is what
`ValidateGeneratedProblemForLanguage` asks of the cases.

`generation_safety`: three providers, the last two of which stream; five cases
with none, one or two of them wrong, and repairs of three of them one at a time
in each of three passes; the profile is rewritten once. Policies vary for single
attempts only: the router does not know which job asks. A refresh has three ids,
three titles and two problems for notes, a cap of two notes (20 in the code) and
two of six changes at a time (10 in the code): the cap is exceeded, a note is
pruned before another takes its concept, and a change meets a note under another
id. A concept that is pruned and created again in one pass gets the old id and a
new time, which the validation refuses.

- `OneVoice`: at most one provider answers a request with content.
- `PipelineInv`: drafts of one job share a profile; what is stored is what ran
  last, all passing and presentable; repairs neither expose nor hide a case;
  memory is told of a generated problem only when it is stored; the stored notes
  are whole, distinct and within the cap, whatever changes were proposed, and no
  skill is claimed without evidence.
- `ProfileKeepsWhatWas`: a save never loses the time or most of the text of a note
  that stays, nor most of a long summary, and a coding completion touches only
  notes of its problem, although others rewrite the profile meanwhile.
- `JobsEnd`, under weak fairness of the job and of the router: the handler goes
  on, and the adapter's client and the sandbox have timeouts. No rejection or
  repair may go round for ever.

## 11. `MarathonRun`

One run of the marathon, in one page of one browser, with its server. Handlers of
the page are steps; what they await is answered by later steps, in which a
handler still has the view it was rendered with.

| Action | Code (`features/marathon/MarathonPage.tsx`) |
| --- | --- |
| `Open` | the effect `initialize`, 830-900: `Start` with a launch (`handleStart`, 738-778), which the browser keeps over a reload, else `Resume` |
| `Reload` | the browser |
| `Generate`, `EnterRound`, `TryAgain` | `generateRound`, `enterGeneratedRound`, `handleRetryGeneration`, `handleUsePracticeSet`, 520-624, 780-821 |
| `SaveDraft`, `Confirm`, `Evaluate`, `Evaluated`, `NextQuestion` | `handleSelect`, `handleConfirm`, `handleSkip`, `handleNext`, 981-1220 |
| `Reflect`, `FlushRound`, `Maintain` | `handleNextRound`, `handleFinish`, `reflectOnRound`, 700-735, 904-978 |
| `Exit`, `FlushExit` | `handleExit`, 1158-1179 |
| `SendPatch` | the queue of `persistSession`, 649-665, and the session's `Update` |
| `SendEvent`, `Flushed`, `FlushFails` | `trackMcqEvent`, `flushPendingMemoryEvents`, 485-507 |

The page knows of its gradings only whether it is `evaluating`
(MarathonPage.tsx:998). A new set (613), the next question and the end of any
grading (1037, 1040) make it forget, while other gradings may be in flight. So the
model has `Graders` of them at once, each with the view of its handler, and records
two things: a question is *overtaken* when the page forgets that it is in grading
(`Overtake`), and a grade has *strayed* when it is of an overtaken question and the
page has gone on, to another question, set or verdict, when it comes.

A handler that builds a round, or finishes, saves the verdicts that it was rendered
with (`held`); those that come while it waits stay on the page.

`marathon_safety`: two rounds of two questions, the first of which is graded by the
server; two gradings at once, any number of which fail; one other fault (a call, or
a reload); and two calls on the way when the learner goes on. A second round is what
reflection precedes; two questions have a first and a last; two calls are what can be
overtaken, and two gradings what can overtake each other; a written answer at the
head of a set is one whose grade can come after the set. The failure of a grading
needs no fault budget, as two of them, or one and a failed save, are what makes the
page forget.

- `RunInv`: no round is built before the ones before it were reflected upon
  (`RoundsAreReflected`), and when the page asks the memory to reflect, all events
  it has told are recorded, however often it tried before (`ReflectsOnAllEvents`),
  unless a grade has strayed since the page was opened.
- `OneVerdictPerQuestion`: a question is judged once in memory, unless the page
  went before it had saved the verdict (`forgot`) or the question was overtaken.
- `ExitSavesTheRun`: an exit's save is not overtaken by an older one, unless a grade
  has strayed since the page was opened.

The exceptions are what the code does, not what its comments promise: see Findings.

## 12. Findings

`workflow_next_round` is violated: a reflection that succeeds ahead of a next
round fails the operation it shares with the generation, because
`ensureWorkflowTerminal` does not know that the operation was left open on
purpose (api/handlers/generate.go:553-577). docs/workflow-progress.md:75-76
promises that the generation is then accepted on the same operation.

The modules contain these other disagreements between the code and what its
documents or comments say; the properties are stated so that they hold in spite
of them, and name the exception where there is one.

- A token whose owner dies or fails before the binding stays `in_progress` for
  ever; execution/store.go:18-19 advises to retry with it.
- `session.Service.Update` writes back the row it read, so that completing the
  session of an older submission takes the memory status from a newer one
  (docs/memory-profile-maintenance.md:169-170 says it cannot).
- Evidence that the owner failed to store is never stored; "not available yet.
  Retry this update" (api/handlers/generate.go:418) cannot help.
- A tab PATCHes the state it loaded over the `pending` of another tab's
  submission (ProblemDetailPage.tsx:617-618 says it must not).
- A stale save is reported as final before the refresh starts again
  (generation/profile.go:380-384), so that a retry that succeeds has its
  operation closed as failed. `EventLogInv` shows that its later reports are refused;
  no run is about this one, as `workflow_next_round` has another cause.
- A replay reports the status of the session, not of the submission it replays; a
  retry for an older submission maintains memory without setting `pending`; one
  failing scope ends the daily refresh of the others; a stream whose client leaves
  costs nothing.
- A turn that overlaps with a reset reopens the closed thread, and the reset then
  links it to itself as its successor (docs/openapi-contract.md:50 promises "a clean
  successor").
- Finishing an interview says "synced" when the generated profile was invalid and
  nothing was saved (chat/service.go:468 looks for the word "failed").
- Two overlapping requests on one baseline may reopen a closed one or drop an
  answer (docs/ai-prompts/01-intake-clarifying-agent.md:38-41).
- A case that a repair drops and adds again has the visibility of the repair;
  problemverify/verify.go:389-391 says that repairs do not change visibility.
- An answer that is not JSON ends the job, although generation/router.go:92-93
  returns it "so validate/repair can retry the same provider".
- When the answer to the finishing PATCH is lost, the session is completed while
  the learner may go on to rounds that are never reflected upon
  (MarathonPage.tsx:949). When the save of a new round fails, the page offers to
  build it again although the learner already saw it.
- The only guard against a second grading is `evaluating`, which a new round (613)
  and the end of any grading (1037, 1040) reset. When the save of a round fails while
  a written answer is graded, and the round is built again, a second
  `/mcq/evaluate` may be sent, and its failure enables Skip, Next Round and Exit
  while the first is in flight. Its grade then gives a question a second verdict,
  queues a save of the old view behind an exit's, or tells of an event that no
  reflection waits for (MarathonPage.tsx:998-1066). The comments at
  MarathonPage.tsx:457-458 ("an awaited Exit save cannot be overtaken") and 462-463
  ("every write must settle successfully before the round-level memory refresh can
  run") exclude the last two; the properties of `MarathonRun` except just these cases.
- A reload of a launched page starts the run again in the same session, round 1
  without results, as the browser keeps `location.state.newPractice`
  (MarathonPage.tsx:834-838); what the session held is replaced at the first save.
- supervisor.py and judge_protocol.go state one protocol and check it differently
  (the table of section 9). A result line whose error is no string passes the
  supervisor, the backend cannot read the result, and the run is stored as an error
  although no part of the platform failed; a list as a status makes the supervisor
  raise, and the run is stored as a crash although the code may have printed a verdict.

## 13. What is proved

TLAPS checks every proof; the theorems hold for all values of the constants that
satisfy the named assumptions, which TLC evaluates on the runs' values: null values
are not elements of the sets they complete, names are distinct, bounds are natural
numbers. Every module has one inductive invariant, a conjunction of named parts;
TLC checked it on the run's instance before it was proved. The properties of the
runs are consequences of it, or of it and one step.

`SubmissionRequestsProofs`. The inductive invariant is `ReservationInv`. That
two requests never execute one token is not inductive alone: it needs that a
request *holds* its token from the reservation that created it until its run
exists and for ever after (`OneHolder`), that what a handler remembers of the
reservation is still what the table says (`HandlersConsistent`), and that a
bound run belongs to the token and is over (`ReservationConsistent`). From it
follow `AtMostOneExecution`, `BoundRunsAreOver`, `DuplicatesAgree`,
`ReservationsAdvance` and `SubmitImplementsLogical`.

`CompletionMemoryProofs`. The inductive invariant is `MemoryInv`. That the
notes hold each completion once needs that the version a refresh read tells
whether the profile it read is still stored (`Bases`): the save appends to what
was read, so equality of versions must imply equality of notes. That "synced" is
true needs that it is never *known* (`KnowledgeIsTrue`), stored or remembered in
a copy of the row (`SessionsAreTrue`) for a completion that is not marked.
`SyncedStaysTrue` assumes that no helper is a tab; the others assume nothing
about the helpers.

`SandboxProofs` is about what runs in a sandbox, in two parts. The first is the run of
`SandboxRuns`, from `SandboxAssumption`. `SandboxInv` says that a result, once the
supervisor has ended and written one, is still what `Judge` makes of the files, as
nobody writes them any more, or the supervisor's own failure (`FilesFit`); where the
outcome in the handler's hands comes from (`OutcomeFits`); at which points it has one,
and that the stored row is final only as its copy (`PointFits`); and which sandboxes
may be live, for each point (`BoxesFit`). `VerdictsAreReal` needs that the finished
cases are those of the lines, in their order and with none left out: `NthIs` and
`EveryLineIsNth` count the lines, by the pigeonhole principle, instead of following
the loop. `SupervisorFollowsProtocol` compares the two sets of checks where
`ReadAlike` holds: on a case (`CasesAlike`), a verdict (`VerdictsAgree`), a line
(`LinesAgree`) and a progress line (`EventsAgree`), from which both see the same
lines. `BlameRight` needs that a result which `Parse` rejects was made of something
`Unreadable` that the code wrote (`OddResultIsWritten`). `NoSandboxStranded` follows
from `BoxesFit`.

The second part is `AgentRelay`, from `RelayAssumption` (finitely many slots, a positive
ceiling and cost). The inductive invariant is `RelayInv`. That the overshoot is
bounded needs to count the calls that may still charge (`MayCharge`, those that
read a budget below its ceiling), each worth `MaxUse`: a call joins them only
while the charges are below the ceiling, and trades its share for its charge
when it leaves. That late calls are refused needs that what made a call late is
either visible in the row it read or in the operation it reads next
(`AdmissionInv`). `OvershootBound`, `LateCallsRefused` and `PlainAnswersCharged`
follow.

`WorkflowOperationProofs`. The invariant is `Inv`, of what the requests hold
(`RequestsFit`), the log (`LogFits`), the stream (`StreamFits`) and the gate
(`GateFits`). That an operation has one terminal event (`OneFinalEventHolds`) and
stays closed (`ClosedStaysClosedHolds`), although the next status is computed from
a row read before the lock, needs that a request never holds a terminal reading of
an operation that is still open. `GenerationFollowsMemoryHolds` needs that the step
which the gate reads is never succeeded unless some request saved the profile or
found nothing to save, through lost, repeated and skipped reports.
`GenerationClosesTruthfullyHolds` is about runs without faults: what a request has
yet to report either closes the operation or spares it (`Truthful`), and an
operation fails only for the request that failed. `StreamsAreCompleteHolds` holds
for any number of reconnects.

`ChatThreadsProofs`, from `ChatAssumption`. `ThreadInv` (`ThreadsAreSound`) is
inductive with what a point of a handler says of the row in its hands
(`WholeRequests`). `RepeatsAreHarmlessHolds` needs, for every thread and message
that `unseen` does not name, that one request at most is answering it, that none
answers what has a complete reply, and that a complete reply is the last one
(`AnswerInv`); and the like of recordings (`RecordInv`). `OverStaysOverHolds` is an
action property: what a reset or a finish writes back is a row that it closed.

`PracticeIntakesProofs`, from `IntakeAssumption`. `IntakeWhole` carries what a page
holds between reading and writing, so that a record stays fit whoever writes it
last (`BaselinesAreFit`, without any condition). `Undisturbed` says what `raced`
must have noticed: without a race each page agrees with its record and at most one
writes it. `PagesAreRightHolds` and `ClosedForGoodHolds` follow.

`ProblemPipelineProofs`, from the assumptions of its three modules, is about any
number of providers, drafts and changes of notes. `CallFits` says which provider
may have spoken (`OneVoiceHolds`); `JobFits` what each point of the job knows of
the suite it holds: that it is the one that ran last, or has still to run
(`PipelineIsSound`); `RefreshFits` that while the version is the one a refresh
read, so is the content, and that a drafted refresh was validated against it
(`ProfileKeepsWhatWasHolds`).

`MarathonRunProofs`, from `MarathonAssumption`. Every view that is shown, saved,
queued, held by a grade or stored is one that the run may come back to
(`SnapshotsFit`): its earlier rounds are reflected upon, and it shows no judged
question as open (`VerdictsFit`) except those of `forgot` and `overtaken` (`Spared`).
Of the gradings: one whose question was not overtaken is of the question on the page,
which waits for it (`GradingFits`); this is what makes several of them harmless until
the page forgets. Of the queue: what somebody waits for is in it once (`QueueFits`),
and behind an exit's save there is nothing older, unless a grade has strayed
(`ExitFits`). Of the handlers: what they hold is of questions that were shown, and
during a reflection what the page shows, unless a grade has strayed (`HeldFits`). Of
the events: each one told is recorded or still to be settled, and a reflection waits
for all of these (`EventsFit`). `RunHolds`, `OneVerdictHolds` and
`ExitSavesTheRunHolds` follow, for any number of rounds, sets, calls, gradings and
faults, with the exceptions that the properties name.

Only model-checked:

- liveness (`EveryRequestIsAnswered`, `EveryRefreshEnds`, `AttachedOperationsClose`,
  `StreamsEnd`, `RunsEnd`, `JobsEnd`): fairness and ENABLED are beyond the prover;
- that `Progress` is what the two loops compute (`ProgressIsTheLoop`): a proof would go
  by induction over the lines.

## 14. What is left out

- The content of submissions and drafts, and the texts of profiles and notes; the
  graded files a submission writes to the session.
- Submissions that end in a fault (they are not graded and touch neither
  evidence nor memory), MCQ and interview completions (the same refresh under
  another identity).
- The wiring without sessions, profiles or a token store.
- Several learners: every row is scoped by workspace and user, and the models
  have one scope.
- Of the relay: the token's signature and expiry (a refusal), the shape of
  requests and answers (a failure), the list of models.
- Of workflow operations: metadata and labels; several operations at once; that
  `Create` may fail after the insert and leave an operation nobody knows of; that
  a status may go from running back to queued, which nothing acts upon.
- Of chat: `Exit` (it only records an event), the workspace and question context
  of a turn, coaching conversations. Of intakes: how long evidence counts, the
  aliases of topics.
- Of runs: output caps, the spelling of keys and the splitting of lines, resource limits, the generated harnesses and
  comparators, the timings. Of generation: prompts, schemas, the Go and HTTP
  strategies, usage.
- Of the marathon: the timer, drafts of answers, help, Try Again (a new session).
- Of the profile: `memory/summarizer.go` (what it gives the prompts), the levels
  and trends of skills, the evidence and the audit events of notes.
- The components marked `not_modelled` in `PROJECT.json`, each with its reason.
