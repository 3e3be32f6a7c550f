----------------------------- MODULE SandboxRuns -----------------------------
(***************************************************************************)
(* One submission in the sandbox: SubmitRun (execution/service.go) and the *)
(* Daytona runner on one side, the supervisor and the submitted code on    *)
(* the other.  Either side can be cut off: the request's client leaves,    *)
(* the run's budget expires, calls of the provider fail or their answers   *)
(* are lost.  What the code under test writes decides the verdict.         *)
(***************************************************************************)
EXTENDS Naturals, Sequences, FiniteSets

CONSTANTS
    Names,     \* the names of test cases
    Blank,     \* a name of nothing but spaces
    Number,    \* a name that is no string
    Verdicts,  \* what the code writes to verdict.json
    Lines,     \* what it prints in a CODEGYM_RESULT line
    Events,    \* what it writes as a line of cases.jsonl
    MaxEvents, \* bound: progress lines that it writes
    MaxFaults  \* bound: the kinds of calls that fail

VARIABLES
    row,      \* the stored run
    at,       \* where SubmitRun and Run are
    attempt,  \* how many sandboxes have been asked for
    boxes,    \* the sandboxes at the provider
    ctx,      \* the context of Run: live, expired or cancelled
    client,   \* whether the request still has its client
    outcome,  \* what Run returns
    files,    \* what the code under test and the supervisor have written
    child,    \* the process under test
    faults    \* history: the calls of the provider or of the store that failed

runVars == <<row, at, attempt, boxes, ctx, client, outcome, files, child, faults>>

-----------------------------------------------------------------------------
(* What is written in a sandbox *)

\* Both read what the code writes: supervisor.py, and judge_protocol.go in the backend.
Reader == {"supervisor", "backend"}

AnyName == Names \union {Blank, Number}

(***************************************************************************)
(* A case as it is written.  Its status may be another string, or a list   *)
(* or object ("list"); its duration may be missing, null, below zero, with *)
(* a fraction or no number ("fraction"), or true or beyond 64 bits, which  *)
(* is an int in Python alone ("wide"); its error may be no string.  An     *)
(* empty name is like Blank and a missing one like Number, but both are    *)
(* like Blank in a CODEGYM_RESULT line and like Number in cases.jsonl.     *)
(***************************************************************************)
Case == [name     : AnyName,
         status   : {"pass", "fail", "other", "list"},
         duration : {"ms", "absent", "null", "negative", "fraction", "wide"},
         error    : {"text", "other"}]

(***************************************************************************)
(* A line of cases.jsonl.  Who cannot decode it, or finds no event in it,  *)
(* is not among its readers; those in stops read neither it nor a line     *)
(* after it: 64KB end the backend's scanner, bytes that are no UTF-8 the   *)
(* supervisor's loop.                                                      *)
(***************************************************************************)
Event == [kind : {"start", "result"}, case : Case, readers : SUBSET Reader, stops : SUBSET Reader]

\* A verdict.json; its readers are those who find an object with the schema and objects as cases.
Verdict == [status  : {"passed", "failed", "list"},
            cases   : Seq(Case),
            compile : {"none", "text", "other"},
            readers : SUBSET Reader]

Absent == [status |-> "absent", cases |-> <<>>, compile |-> "none", readers |-> {}]

LineStatus(line) ==
    IF line.compile # "none" \/ \E i \in DOMAIN line.cases : line.cases[i].status = "fail"
    THEN "failed" ELSE "passed"

\* The last CODEGYM_RESULT line of the output, with the status that follows from the rest.
IsLine(v) == v \in Verdict /\ v.status = LineStatus(v)

ASSUME SandboxAssumption ==
    /\ Blank \notin Names /\ Number \notin Names /\ Blank # Number
    /\ Verdicts \subseteq Verdict
    /\ \A v \in Lines : IsLine(v)
    /\ Events \subseteq Event
    /\ MaxEvents \in Nat
    /\ MaxFaults \in Nat

Death == {"timeout", "out_of_memory", "crashed"}

\* during is the case that was running when the code died, Number for none.
JudgeResult ==
    [status  : Death \union {"passed", "failed"},
     cases   : Seq(Case),
     compile : {"none", "text", "other"},
     during  : AnyName]

Nothing(status) == [status |-> status, cases |-> <<>>, compile |-> "none", during |-> Number]

NoResult == Nothing("none")
Error    == Nothing("error")
Crash    == Nothing("crashed")

(***************************************************************************)
(* Operators named Slip... are the definition that follows them with a     *)
(* plausible mistake in it; no action uses them.                           *)
(***************************************************************************)

\* The decoder of the backend takes the case, and validateCase has no objection to it.
Decodes(c) ==
    c.name # Number /\ c.status # "list" /\ c.duration \notin {"fraction", "wide"} /\ c.error = "text"

Valid(c) == Decodes(c) /\ c.name # Blank /\ c.status \in {"pass", "fail"} /\ c.duration # "negative"

\* What is kept of a case: no duration is zero, a number as a name is its text.
Stored(c) ==
    [name |-> c.name, status |-> c.status, error |-> c.error,
     duration |-> IF c.duration = "wide" THEN "wide" ELSE "ms"]

\* The supervisor also makes an error a text.
CaseOf(e) == [name |-> e.case.name, status |-> e.case.status, error |-> "text",
              duration |-> Stored(e.case).duration]

(***************************************************************************)
(* cases.jsonl, as parseCaseProgress and as progress_cases read it: the    *)
(* latter mends durations and errors, the former passes such lines over.   *)
(***************************************************************************)
Heard(events, who) == {i \in DOMAIN events : \A j \in 1..i : who \notin events[j].stops}

Counts(e, who) ==
    /\ who \in e.readers
    /\ CASE who = "backend" ->
              Decodes(e.case) /\ e.case.name # Blank /\ (e.kind = "result" => Valid(e.case))
         [] who = "supervisor" ->
              e.case.name # Number /\ (e.kind = "result" => e.case.status \in {"pass", "fail"})

LinesOf(events, who, kind) == {i \in Heard(events, who) : events[i].kind = kind /\ Counts(events[i], who)}

Nth(n, lines) == CHOOSE i \in lines : Cardinality({j \in lines : j <= i}) = n

\* The finished cases, in the order of their lines.
Finished(events, who) ==
    LET lines == LinesOf(events, who, "result")
    IN [n \in 1..Cardinality(lines) |-> CaseOf(events[Nth(n, lines)])]

\* The case that was started last, unless it has finished since.
Unfinished(events, who) ==
    LET starts == LinesOf(events, who, "start")
        IsLast(i) ==
            /\ \A j \in starts : j <= i
            /\ \A j \in LinesOf(events, who, "result") : events[j].case.name = events[i].case.name => j < i
    IN IF \E i \in starts : IsLast(i) THEN events[CHOOSE i \in starts : IsLast(i)].case.name ELSE Number

Progress(events, who) == [cases |-> Finished(events, who), during |-> Unfinished(events, who)]

FromVerdict(v) ==
    [status |-> v.status, cases |-> [i \in DOMAIN v.cases |-> Stored(v.cases[i])],
     compile |-> v.compile, during |-> Number]

FromProgress(death, p) ==
    [status |-> death, cases |-> p.cases, compile |-> "none", during |-> p.during]

HasContent(v) == v.cases # <<>> \/ v.compile # "none"

\* The backend on a verdict (validateHarnessVerdict) and on a line (parseLegacyVerdict).
WellFormed(v) ==
    /\ "backend" \in v.readers
    /\ v.status # "list" /\ v.compile # "other"
    /\ \A i \in DOMAIN v.cases : Valid(v.cases[i])
    /\ HasContent(v)

\* ReconstructJudgeResult: the protocol as the backend states it.
Reconstruct(verdict, line, events, death) ==
    IF WellFormed(verdict) THEN FromVerdict(verdict)
    ELSE IF WellFormed(line) THEN FromVerdict(line)
    ELSE FromProgress(death, Progress(events, "backend"))

(***************************************************************************)
(* The supervisor on a verdict (normalized_verdict), which need not say    *)
(* anything, and on a line (legacy_verdict), whose names, errors and       *)
(* compile error may be of any type.                                       *)
(***************************************************************************)
NormalCase(c) ==
    c.name # Number /\ c.status \in {"pass", "fail"} /\ c.duration \in {"ms", "wide"} /\ c.error = "text"

NormalVerdict(v) ==
    /\ "supervisor" \in v.readers
    /\ v.status # "list" /\ v.compile # "other"
    /\ \A i \in DOMAIN v.cases : NormalCase(v.cases[i])

LegacyCase(c) == c.status \in {"pass", "fail"} /\ c.duration \in {"ms", "absent", "wide"}

LegacyLine(v) ==
    /\ "supervisor" \in v.readers
    /\ HasContent(v)
    /\ \A i \in DOMAIN v.cases : LegacyCase(v.cases[i])

\* A list is not hashable: looking it up in a set of statuses is an exception.
ProgressRaises(events) ==
    \E i \in Heard(events, "supervisor") :
        /\ "supervisor" \in events[i].readers
        /\ events[i].kind = "result" /\ events[i].case.name # Number /\ events[i].case.status = "list"

VerdictRaises(v) ==
    /\ "supervisor" \in v.readers
    /\ \/ v.status = "list"
       \/ \E i \in DOMAIN v.cases :
             /\ v.cases[i].name # Number /\ v.cases[i].status = "list"
             /\ \A j \in 1..(i - 1) : NormalCase(v.cases[j])

LineRaises(v) ==
    /\ "supervisor" \in v.readers
    /\ \E i \in DOMAIN v.cases :
          v.cases[i].status = "list" /\ \A j \in 1..(i - 1) : LegacyCase(v.cases[j])

Raises(verdict, line, events) ==
    ProgressRaises(events) \/ VerdictRaises(verdict) \/ (~NormalVerdict(verdict) /\ LineRaises(line))

\* Slip: the cases of a verdict are not looked at.
SlipJudge(verdict, line, events, death) ==
    IF Raises(verdict, line, events) THEN Crash
    ELSE IF "supervisor" \in verdict.readers /\ verdict.compile # "other" THEN FromVerdict(verdict)
    ELSE IF LegacyLine(line) THEN FromVerdict(line)
    ELSE FromProgress(death, Progress(events, "supervisor"))

\* supervisor.py: what run returns of the files, and main when run raises.
Judge(verdict, line, events, death) ==
    IF Raises(verdict, line, events) THEN Crash
    ELSE IF NormalVerdict(verdict) THEN FromVerdict(verdict)
    ELSE IF LegacyLine(line) THEN FromVerdict(line)
    ELSE FromProgress(death, Progress(events, "supervisor"))

\* A kept case that ParseJudgeResult decodes, with a name.
Readable(c) == c.name # Blank /\ c.duration # "wide" /\ c.error # "other"

\* ParseJudgeResult: a result that the backend cannot read is a platform error.
Parse(result) ==
    IF result.compile # "other" /\ \A i \in DOMAIN result.cases : Readable(result.cases[i])
    THEN result ELSE Error

-----------------------------------------------------------------------------

Sandboxes == 1..2  \* sandboxCreateAttempts

NoFiles == [events |-> <<>>, verdict |-> Absent, line |-> Absent, result |-> NoResult]

Points ==
    {"new", "claim", "create", "backoff", "upload", "exec", "download", "readback", "delete",
     "save", "ended"}

TypeOK ==
    /\ row \in [status : {"absent", "queued", "running", "passed", "failed", "error"} \union Death,
                cases : Seq(Case)]
    /\ at \in Points
    /\ attempt \in 0..2
    /\ boxes \in [Sandboxes -> {"none", "live", "deleted"}]
    /\ ctx \in {"live", "expired", "cancelled"}
    /\ client \in BOOLEAN
    /\ outcome \in JudgeResult \union {NoResult, Error}
    /\ files \in [events : Seq(Events), verdict : Verdicts \union {Absent},
                  line : Lines \union {Absent}, result : JudgeResult \union {NoResult}]
    /\ Len(files.events) <= MaxEvents
    /\ child \in [state : {"none", "running", "exited", "noisy", "alarm", "kill"},
                  timed : BOOLEAN, reaped : BOOLEAN]
    /\ faults \subseteq {"create", "sandbox", "exec", "slow", "delete", "store", "supervisor"}

Init ==
    /\ row = [status |-> "absent", cases |-> <<>>]
    /\ at = "new"
    /\ attempt = 0
    /\ boxes = [b \in Sandboxes |-> "none"]
    /\ ctx = "live"
    /\ client = TRUE
    /\ outcome = NoResult
    /\ files = NoFiles
    /\ child = [state |-> "none", timed |-> FALSE, reaped |-> FALSE]
    /\ faults = {}

Fault(f) ==
    /\ Cardinality(faults \union {f}) <= MaxFaults
    /\ faults' = faults \union {f}

Held == attempt

-----------------------------------------------------------------------------
(* SubmitRun *)

\* The store works under the context of the request, and may fail.
Store(new, next) ==
    \/ client /\ row' = new /\ at' = next /\ UNCHANGED faults
    \/ row' = row /\ at' = "ended" /\ (IF client THEN Fault("store") ELSE UNCHANGED faults)

CreateRun ==
    /\ at = "new"
    /\ Store([row EXCEPT !.status = "queued"], "claim")
    /\ UNCHANGED <<attempt, boxes, ctx, client, outcome, files, child>>

StartRun ==
    /\ at = "claim"
    /\ Store([row EXCEPT !.status = "running"], "create")
    /\ attempt' = 1
    /\ UNCHANGED <<boxes, ctx, client, outcome, files, child>>

\* When the last update fails the outcome is lost.
SaveRun ==
    /\ at = "save"
    /\ Store([status |-> outcome.status, cases |-> outcome.cases], "ended")
    /\ UNCHANGED <<attempt, boxes, ctx, client, outcome, files, child>>

-----------------------------------------------------------------------------
(* Run: create, upload, execute, read the result, delete *)

Return(o, next) == outcome' = o /\ at' = next

\* A sandbox is there, or the call fails; its answer may be lost although the sandbox is there.
Create ==
    /\ at = "create"
    /\ \/ /\ ctx = "live"
          /\ boxes' = [boxes EXCEPT ![attempt] = "live"]
          /\ Return(NoResult, "upload")
          /\ UNCHANGED faults
       \/ /\ boxes' \in {boxes, [boxes EXCEPT ![attempt] = "live"]}
          /\ IF attempt = 1 THEN Return(NoResult, "backoff") ELSE Return(Error, "save")
          /\ IF ctx = "live" THEN Fault("create") ELSE UNCHANGED faults
    /\ UNCHANGED <<row, attempt, ctx, client, files, child>>

\* The timer of the backoff and the end of the context may both be ready.
Backoff ==
    /\ at = "backoff"
    /\ \/ attempt' = 2 /\ Return(NoResult, "create")
       \/ ctx # "live" /\ Return(Error, "save") /\ UNCHANGED attempt
    /\ UNCHANGED <<row, boxes, ctx, client, files, child, faults>>

\* Slip: an error of the upload returns before the deletion is deferred.
SlipUploadFails == outcome' = Error /\ at' = "save"

UploadFails == Return(Error, "delete")

Upload ==
    /\ at = "upload"
    /\ \/ ctx = "live" /\ Return(NoResult, "exec") /\ UNCHANGED faults
       \/ UploadFails /\ (IF ctx = "live" THEN Fault("sandbox") ELSE UNCHANGED faults)
    /\ UNCHANGED <<row, attempt, boxes, ctx, client, files, child>>

\* Slip: every error of the execution is taken for one that ran out of time.
SlipDeadlineExceeded(slow) == ctx \in {"live", "expired"} \/ slow

\* slow: the message of the error speaks of a deadline, of "timed out" or of a timeout.
DeadlineExceeded(slow) == ctx = "expired" \/ slow

\* The supervisor has ended, and so has the command.
ExecEnds ==
    /\ at = "exec"
    /\ ctx = "live"
    /\ child.reaped
    /\ Return(NoResult, "download")
    /\ UNCHANGED <<row, attempt, boxes, ctx, client, files, child, faults>>

\* The command is given up, because the context is over or the provider fails or is slow.
ExecFails(slow) ==
    /\ at = "exec"
    /\ \/ DeadlineExceeded(slow) /\ Return(NoResult, "readback")
       \/ ~DeadlineExceeded(slow) /\ Return(Error, "delete")
    /\ IF slow THEN Fault("slow") ELSE IF ctx = "live" THEN Fault("exec") ELSE UNCHANGED faults
    /\ UNCHANGED <<row, attempt, boxes, ctx, client, files, child>>

Download ==
    /\ at = "download"
    /\ \/ /\ ctx = "live"
          /\ files.result # NoResult
          /\ Return(Parse(files.result), "delete")
          /\ UNCHANGED faults
       \/ /\ Return(Error, "delete")
          /\ IF ctx = "live" /\ files.result # NoResult THEN Fault("sandbox") ELSE UNCHANGED faults
    /\ UNCHANGED <<row, attempt, boxes, ctx, client, files, child>>

\* Slip: progress without a failed case is taken for a verdict.
SlipTimeoutOutcome(events) ==
    LET cases == Progress(events, "backend").cases
        written == [status |-> "passed", cases |-> cases, compile |-> "none", readers |-> Reader]
    IN Reconstruct(IF LineStatus(written) = "passed" THEN written ELSE Absent, Absent, events, "timeout")

TimeoutOutcome(events) == Reconstruct(Absent, Absent, events, "timeout")

\* Under a context of its own: the progress so far, or none of it.
ReadBack ==
    /\ at = "readback"
    /\ \E events \in {files.events, <<>>} : Return(TimeoutOutcome(events), "delete")
    /\ UNCHANGED <<row, attempt, boxes, ctx, client, files, child, faults>>

\* A deletion that fails is an error of the run, whatever its outcome was.
DeleteFails == Error

Delete ==
    /\ at = "delete"
    /\ at' = "save"
    /\ \/ boxes' = [boxes EXCEPT ![Held] = "deleted"] /\ UNCHANGED <<outcome, faults>>
       \/ outcome' = DeleteFails /\ Fault("delete") /\ UNCHANGED boxes
    /\ UNCHANGED <<row, attempt, ctx, client, files, child>>

-----------------------------------------------------------------------------
(* The sandbox: the supervisor and the code it runs *)

\* What is written after the last reading is not followed.
Running == at \in {"exec", "readback"} /\ boxes[Held] = "live"

Spawn ==
    /\ at = "exec"
    /\ ctx = "live"
    /\ child.state = "none" /\ ~child.reaped
    /\ child' = [child EXCEPT !.state = "running"]
    /\ UNCHANGED <<row, at, attempt, boxes, ctx, client, outcome, files, faults>>

Writes(f) ==
    /\ Running
    /\ child.state = "running"
    /\ files' = f
    /\ UNCHANGED <<row, at, attempt, boxes, ctx, client, outcome, child, faults>>

WriteEvent ==
    /\ files.verdict = Absent /\ files.line = Absent
    /\ Len(files.events) < MaxEvents
    /\ \E e \in Events : Writes([files EXCEPT !.events = Append(@, e)])

WriteLine ==
    /\ files.verdict = Absent /\ files.line = Absent
    /\ \E l \in Lines : Writes([files EXCEPT !.line = l])

WriteVerdict ==
    /\ files.verdict = Absent
    /\ \E v \in Verdicts : Writes([files EXCEPT !.verdict = v])

(***************************************************************************)
(* The code ends by itself: by an exit or a signal, with or without a word *)
(* about memory on its stderr ("noisy"), by SIGALRM or by SIGKILL.         *)
(***************************************************************************)
ChildDies ==
    /\ Running
    /\ child.state = "running"
    /\ \E how \in {"exited", "noisy", "alarm", "kill"} : child' = [child EXCEPT !.state = how]
    /\ UNCHANGED <<row, at, attempt, boxes, ctx, client, outcome, files, faults>>

\* The supervisor kills the process group when the time of the language is over.
KillChild ==
    /\ Running
    /\ child.state = "running"
    /\ child' = [child EXCEPT !.state = "kill", !.timed = TRUE]
    /\ UNCHANGED <<row, at, attempt, boxes, ctx, client, outcome, files, faults>>

\* classify_death
DeathStatus ==
    IF child.timed \/ child.state = "alarm" THEN "timeout"
    ELSE IF child.state \in {"kill", "noisy"} THEN "out_of_memory"
    ELSE "crashed"

Dead == child.state \in {"exited", "noisy", "alarm", "kill"} /\ ~child.reaped

\* What is made of the files, written to result.json in one step.
WriteResult ==
    /\ Running
    /\ Dead
    /\ files' = [files EXCEPT !.result = Judge(files.verdict, files.line, files.events, DeathStatus)]
    /\ child' = [child EXCEPT !.reaped = TRUE]
    /\ UNCHANGED <<row, at, attempt, boxes, ctx, client, outcome, faults>>

\* main: the supervisor itself fails, and says so, or cannot write at all.
SupervisorFails ==
    /\ Running
    /\ Dead \/ (child.state = "none" /\ ~child.reaped /\ at = "exec")
    /\ files' \in {files, [files EXCEPT !.result = Crash]}
    /\ child' = [child EXCEPT !.reaped = TRUE]
    /\ Fault("supervisor")
    /\ UNCHANGED <<row, at, attempt, boxes, ctx, client, outcome>>

-----------------------------------------------------------------------------
(* The contexts *)

\* Slip: the deadline is only that of the creation.
SlipExpire ==
    /\ ctx = "live"
    /\ at \in {"create", "backoff"}
    /\ ctx' = "expired"
    /\ UNCHANGED <<row, at, attempt, boxes, client, outcome, files, child, faults>>

Expire ==
    /\ ctx = "live"
    /\ at \in {"create", "backoff", "upload", "exec", "download"}
    /\ ctx' = "expired"
    /\ UNCHANGED <<row, at, attempt, boxes, client, outcome, files, child, faults>>

Leave ==
    /\ client
    /\ at # "ended"
    /\ client' = FALSE
    /\ ctx' = IF ctx = "live" THEN "cancelled" ELSE ctx
    /\ UNCHANGED <<row, at, attempt, boxes, outcome, files, child, faults>>

Handle ==
    \/ CreateRun \/ StartRun \/ Create \/ Backoff \/ Upload \/ ExecEnds \/ Download \/ ReadBack
    \/ Delete \/ SaveRun
    \/ ctx # "live" /\ ExecFails(FALSE)

Code == WriteEvent \/ WriteLine \/ WriteVerdict \/ ChildDies

Supervise == Spawn \/ KillChild \/ WriteResult

Next ==
    \/ Handle \/ Code \/ Supervise \/ Expire \/ Leave
    \/ SupervisorFails
    \/ \E slow \in BOOLEAN : ctx = "live" /\ ExecFails(slow)

(***************************************************************************)
(* SubmitRun runs to its end in its goroutine; every call it makes returns *)
(* at the latest when its context is over, and the context of Run has a    *)
(* deadline.  Nothing is assumed of the sandbox.                           *)
(***************************************************************************)
Spec == Init /\ [][Next]_runVars /\ WF_runVars(Handle) /\ WF_runVars(Expire)

-----------------------------------------------------------------------------
(* Properties *)

(***************************************************************************)
(* A run is stored as passed or failed only with the verdict that its code *)
(* wrote: verdict.json when that is one, else the last CODEGYM_RESULT line *)
(* (run in supervisor.py, Run, SubmitRun), with its cases as they are      *)
(* kept.  No timeout, cut-off, retry or partial progress turns into a      *)
(* verdict.                                                                *)
(***************************************************************************)
VerdictsAreWritten ==
    row.status \in {"passed", "failed"} =>
        LET v == IF NormalVerdict(files.verdict) THEN files.verdict ELSE files.line
        IN /\ NormalVerdict(v) \/ LegacyLine(v)
           /\ v.status = row.status
           /\ row.cases = [i \in DOMAIN v.cases |-> Stored(v.cases[i])]

(***************************************************************************)
(* The cases of a run that timed out, ran out of memory or crashed are     *)
(* cases that the code did finish: each has its result line, the lines are *)
(* in the order of the cases, and no result line that is written as the    *)
(* protocol wants it is passed over before the last of them, even when     *)
(* they were read back while the code was still writing (timeoutRun-       *)
(* Outcome).                                                               *)
(***************************************************************************)
AsMeant(e) ==
    /\ e.readers = Reader
    /\ e.case.name \in Names /\ e.case.status \in {"pass", "fail"}
    /\ e.case.duration = "ms" /\ e.case.error = "text"

AreRead(cases, events) ==
    \E line \in [DOMAIN cases -> DOMAIN events] :
        /\ \A n \in DOMAIN cases :
               events[line[n]].kind = "result" /\ cases[n] = CaseOf(events[line[n]])
        /\ \A m, n \in DOMAIN cases : m < n => line[m] < line[n]
        /\ \A i \in DOMAIN events, n \in DOMAIN cases :
               i < line[n] /\ events[i].kind = "result" /\ AsMeant(events[i])
                   => \E m \in DOMAIN cases : line[m] = i

RecoveredCasesAreReal ==
    row.status \in Death =>
        /\ AreRead(row.cases, files.events)
        /\ \A n \in DOMAIN row.cases : Readable(row.cases[n])

\* What is stored of a run is what its code did.
VerdictInv == TypeOK /\ VerdictsAreWritten /\ RecoveredCasesAreReal

(***************************************************************************)
(* What supervisor.py concludes from the files of a dead child is what     *)
(* ReconstructJudgeResult says the protocol is, whatever mixture of files  *)
(* that are missing, broken or invalid the child leaves, except in the     *)
(* forms that the two read differently, each of which is named here:       *)
(* names of spaces, wide durations and lists as statuses anywhere; in      *)
(* verdict.json a case without a duration, and a verdict without content;  *)
(* in the line a name, an error or a compile error of another type, and a  *)
(* duration of null; in cases.jsonl a duration below zero or none, and an  *)
(* error of another type; what only one of the decoders takes.             *)
(***************************************************************************)
CaseAlike(c) == c.name # Blank /\ c.duration # "wide" /\ c.status # "list"

VerdictAlike(v) ==
    v.readers = Reader =>
        /\ v.status # "list" /\ HasContent(v)
        /\ \A i \in DOMAIN v.cases :
              CaseAlike(v.cases[i]) /\ v.cases[i].duration \notin {"absent", "null"}

LineAlike(v) ==
    v.readers = Reader =>
        /\ v.compile # "other"
        /\ \A i \in DOMAIN v.cases :
              /\ CaseAlike(v.cases[i])
              /\ v.cases[i].name # Number /\ v.cases[i].duration # "null" /\ v.cases[i].error = "text"

EventAlike(e) ==
    /\ e.stops = {}
    /\ e.readers = Reader =>
           CaseAlike(e.case) /\ e.case.duration \in {"ms", "absent", "null"} /\ e.case.error = "text"

ReadAlike ==
    /\ VerdictAlike(files.verdict) /\ LineAlike(files.line)
    /\ \A i \in DOMAIN files.events : EventAlike(files.events[i])
    /\ {files.verdict.readers, files.line.readers}
          \union {files.events[i].readers : i \in DOMAIN files.events} \subseteq {{}, Reader}

SupervisorAgrees ==
    files.result # NoResult /\ "supervisor" \notin faults /\ ReadAlike =>
        files.result = Reconstruct(files.verdict, files.line, files.events, DeathStatus)

(***************************************************************************)
(* A run ends as a timeout only when the code ran out of its time, or the  *)
(* run out of its budget, or the execution call did (executionDeadline-    *)
(* Exceeded).  It ends as an error only when the platform failed or gave   *)
(* up, or when the code wrote what the supervisor lets pass and the        *)
(* backend cannot read: a name of spaces or a wide duration anywhere, or   *)
(* an error or a compile error of another type in its result line.         *)
(***************************************************************************)
Unreadable ==
    LET cases == {files.verdict.cases[i] : i \in DOMAIN files.verdict.cases}
                   \union {files.line.cases[i] : i \in DOMAIN files.line.cases}
                   \union {files.events[i].case : i \in DOMAIN files.events}
    IN \/ \E c \in cases : c.name = Blank \/ c.duration = "wide"
       \/ files.line.compile = "other"
       \/ \E i \in DOMAIN files.line.cases : files.line.cases[i].error = "other"

BlameIsRight ==
    /\ outcome.status = "timeout" =>
           child.timed \/ child.state = "alarm" \/ ctx = "expired" \/ "slow" \in faults
    /\ outcome.status = "error" => faults # {} \/ ctx # "live" \/ Unreadable

(***************************************************************************)
(* When the run is over, whatever cut it off, no sandbox that it held is   *)
(* left at the provider unless the run reports an error: what is left was  *)
(* lost with the answer to its creation, or could not be deleted.          *)
(***************************************************************************)
NoStrandedSandbox ==
    at = "ended" =>
        \A b \in Sandboxes : boxes[b] = "live" =>
            \/ b # Held
            \/ outcome.status = "error" /\ (faults \cap {"create", "delete"} # {} \/ ctx # "live")

(***************************************************************************)
(* Every submission comes to its end, even when its code never stops, its  *)
(* supervisor never answers and its client stays: the budget of the run    *)
(* cuts off every wait (SubmitRun, createSandbox, Run).                    *)
(***************************************************************************)
RunsEnd == <>(at = "ended")

=============================================================================
