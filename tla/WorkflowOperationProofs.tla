----------------------- MODULE WorkflowOperationProofs -----------------------
(***************************************************************************)
(* Proofs about WorkflowOperation, for any requests that attach to the     *)
(* operation, any configuration of the server and any number of faults.    *)
(* The inductive invariant says what the log, the stream and the local     *)
(* state of every request know of each other: above all, that a request    *)
(* appends with a status that it read before the lock was taken.           *)
(***************************************************************************)
EXTENDS WorkflowOperation, SequenceTheorems, WellFoundedInduction, TLAPS

-----------------------------------------------------------------------------
(* The invariant.                                                          *)

\* What an event does to the operation, and what it says of the memory.
Condemns(event) == event.final /\ event.status = "failed"

Saves(event) == event.step = "save_profile" /\ event.status = "succeeded"

Spares(events) == \A i \in DOMAIN events : ~Condemns(events[i])

Closes(events) == events # <<>> /\ events[Len(events)].final

\* Where a request for a generation may be, and where it is past the gate.
GeneratePoints ==
    {"require", "prepare", "context", "draft", "check", "verify", "persist", "ok", "fail",
     "done", "dead"}

Gated == {"prepare", "context", "draft", "check"}

Owns(a, log) == \E event \in log : event.by = a

(***************************************************************************)
(* A generation reports a final failure only when it fails.  When it goes  *)
(* well, its last report is final, and so the operation is over when all   *)
(* reports are made: nothing is left for ensureWorkflowTerminal to close.  *)
(***************************************************************************)
Truthful(a, local, status, log) ==
    /\ local.at \notin {"fail", "done"} => Spares(local.queue)
    /\ local.at = "ok" => Terminal(status) \/ Closes(local.queue)
    /\ local.at = "done" => local.reply # "none"
    /\ local.at = "done" /\ local.reply = "ok" /\ local.queue # <<>> => Terminal(status)
    /\ status = "failed" /\ Owns(a, log) => local.at = "fail" \/ local.reply = "failed"

\* The local state of a request, beside a row with some status.
LocalFits(a, local, status) ==
    /\ local \in Request
    /\ local.phase = "work" <=> local.queue = <<>>
    /\ local.phase = "append" =>
         local.read # "absent" /\ (Terminal(local.read) => Terminal(status))
    /\ local.role = "create" <=> a = Creator
    /\ local.at \in {"insert", "issue"} => a = Creator
    /\ local.at = "insert" => status = "absent"
    /\ status = "absent" =>
         local.at \in {"idle", "insert", "dead"} /\ local.queue = <<>> /\ local.reply # "ok"
    /\ local.at \notin {"done", "dead"} => local.reply = "none"
    /\ local.role = "generate" => local.at \in GeneratePoints
    /\ \A i \in DOMAIN local.queue : Saves(local.queue[i]) => a # Creator /\ local.saved
    /\ local.at = "idle" => ~local.saved

RequestsFit ==
    /\ request \in [Actors -> Request]
    /\ \A a \in Actors :
        /\ LocalFits(a, request[a], operation.status)
        /\ faults = 0 /\ request[a].role = "generate"
             => Truthful(a, request[a], operation.status, finals)

LogFits ==
    /\ deployment \in Deployment
    /\ operation \in [kind : DOMAIN kindSteps, status : Status \union {"absent"}, last : Nat]
    /\ latest \in [Steps -> Status \union {"none"}]
    /\ finals \in SUBSET [sequence : Nat, by : Actors]
    /\ faults \in 0..MaxFaults
    /\ OneFinalEvent

StreamFits ==
    /\ viewer \in Viewer
    /\ viewer.got <= viewer.sent /\ viewer.sent <= operation.last
    /\ StreamsAreComplete

\* The gate reads that the profile is saved only when somebody saved it.
Updated == \E m \in Requests : request[m].saved

GateFits ==
    /\ latest["save_profile"] = "succeeded" => Updated
    /\ operation.kind = "mcq_next_round" /\ (\E r \in Requests : request[r].at \in Gated) => Updated

Inv == RequestsFit /\ LogFits /\ StreamFits /\ GateFits

-----------------------------------------------------------------------------
(* The steps of the kinds, and events.                                     *)

LEMMA StatusesFit == \A status \in Status : status # "absent" /\ status # "none"
BY DEF Status

NamedSteps ==
    {"load_evidence", "synthesize_profile", "validate_profile", "save_profile", "memory_ready",
     "load_context", "generate_questions", "validate_questions", "repair_questions",
     "questions_ready", "generate_problem", "verify_solution", "save_problem", "problem_ready"}

\* The literals as sequences, entry by entry.
LEMMA MemoryStepsFit ==
    /\ MemorySteps \in Seq(NamedSteps) /\ Len(MemorySteps) = 4
    /\ MemorySteps[1] = "load_evidence" /\ MemorySteps[2] = "synthesize_profile"
    /\ MemorySteps[3] = "validate_profile" /\ MemorySteps[4] = "save_profile"
BY DEF MemorySteps, NamedSteps

LEMMA QuestionStepsFit ==
    /\ QuestionSteps \in Seq(NamedSteps) /\ Len(QuestionSteps) = 5
    /\ QuestionSteps[1] = "load_context" /\ QuestionSteps[2] = "generate_questions"
    /\ QuestionSteps[3] = "validate_questions" /\ QuestionSteps[4] = "repair_questions"
    /\ QuestionSteps[5] = "questions_ready"
BY DEF QuestionSteps, NamedSteps

LEMMA ProblemStepsFit ==
    LET steps == <<"load_context", "generate_problem", "verify_solution", "save_problem", "problem_ready">>
    IN  /\ steps \in Seq(NamedSteps) /\ Len(steps) = 5
        /\ steps[1] = "load_context" /\ steps[2] = "generate_problem" /\ steps[3] = "verify_solution"
        /\ steps[4] = "save_problem" /\ steps[5] = "problem_ready"
BY DEF NamedSteps

LEMMA ReadyFits ==
    /\ <<"memory_ready">> \in Seq(NamedSteps) /\ Len(<<"memory_ready">>) = 1
    /\ <<"memory_ready">>[1] = "memory_ready"
BY DEF NamedSteps

LEMMA JoinedFits ==
    ASSUME NEW s \in Seq(NamedSteps), NEW t \in Seq(NamedSteps)
    PROVE  /\ s \o t \in Seq(NamedSteps) /\ Len(s \o t) = Len(s) + Len(t)
           /\ \A i \in 1..Len(s) : (s \o t)[i] = s[i]
           /\ \A i \in 1..Len(t) : (s \o t)[Len(s) + i] = t[i]
<1>1. s \o t \in Seq(NamedSteps) /\ Len(s \o t) = Len(s) + Len(t)
    BY ConcatProperties
<1>2. \A i \in 1..Len(s) + Len(t) :
        (s \o t)[i] = IF i <= Len(s) THEN s[i] ELSE t[i - Len(s)]
    BY ConcatProperties
<1> DEFINE m == Len(s)
           n == Len(t)
<1>3. m \in Nat /\ n \in Nat
    BY LenProperties
<1> HIDE DEF m, n
<1>4. /\ \A i \in 1..m : i \in 1..m + n /\ i <= m
      /\ \A i \in 1..n : m + i \in 1..m + n /\ ~(m + i <= m) /\ (m + i) - m = i
    BY <1>3
<1> QED
    BY <1>1, <1>2, <1>4 DEF m, n

LEMMA KindsAre ==
    /\ kindSteps["mcq_generation"] = QuestionSteps
    /\ kindSteps["memory_reflection"] = MemorySteps \o <<"memory_ready">>
    /\ kindSteps["mcq_next_round"] = MemorySteps \o QuestionSteps
    /\ kindSteps["problem_generation"] =
            <<"load_context", "generate_problem", "verify_solution", "save_problem", "problem_ready">>
    /\ DOMAIN kindSteps = {"mcq_generation", "memory_reflection", "mcq_next_round", "problem_generation"}
BY DEF kindSteps

LEMMA KindStepsFit ==
    \A kind \in DOMAIN kindSteps :
        /\ kindSteps[kind] \in Seq(Steps) /\ Len(kindSteps[kind]) \in Nat \ {0}
        /\ \A i \in 1..Len(kindSteps[kind]) : kindSteps[kind][i] \in Steps
<1> SUFFICES ASSUME NEW kind \in DOMAIN kindSteps
             PROVE  /\ kindSteps[kind] \in Seq(Steps) /\ Len(kindSteps[kind]) \in Nat \ {0}
                    /\ \A i \in 1..Len(kindSteps[kind]) : kindSteps[kind][i] \in Steps
    OBVIOUS
<1> DEFINE steps == kindSteps[kind]
<1>1. steps \in Seq(NamedSteps) /\ Len(steps) \in Nat \ {0}
    <2> DEFINE ready == <<"memory_ready">>
               problem == <<"load_context", "generate_problem", "verify_solution", "save_problem", "problem_ready">>
    <2>1. ready \in Seq(NamedSteps) /\ Len(ready) = 1 /\ problem \in Seq(NamedSteps) /\ Len(problem) = 5
        BY ReadyFits, ProblemStepsFit
    <2>2. steps \in {QuestionSteps, MemorySteps \o ready, MemorySteps \o QuestionSteps, problem}
        BY KindsAre
    <2> HIDE DEF ready, problem, steps
    <2>3. MemorySteps \in Seq(NamedSteps) /\ QuestionSteps \in Seq(NamedSteps)
        BY MemoryStepsFit, QuestionStepsFit
    <2>4. /\ MemorySteps \o QuestionSteps \in Seq(NamedSteps)
          /\ Len(MemorySteps \o QuestionSteps) = Len(MemorySteps) + Len(QuestionSteps)
        BY <2>3, JoinedFits
    <2>5. MemorySteps \o ready \in Seq(NamedSteps) /\ Len(MemorySteps \o ready) = Len(MemorySteps) + Len(ready)
        BY <2>1, <2>3, JoinedFits
    <2>6. Len(MemorySteps) = 4 /\ Len(QuestionSteps) = 5
        BY MemoryStepsFit, QuestionStepsFit
    <2>7. /\ Len(MemorySteps \o QuestionSteps) \in Nat \ {0} /\ Len(MemorySteps \o ready) \in Nat \ {0}
          /\ Len(QuestionSteps) \in Nat \ {0} /\ Len(problem) \in Nat \ {0}
        BY <2>1, <2>4, <2>5, <2>6
    <2> QED
        BY <2>1, <2>2, <2>3, <2>4, <2>5, <2>7
<1>2. DOMAIN steps = 1..Len(steps)
    BY <1>1, LenProperties
<1>3. \A i \in 1..Len(steps) : steps[i] \in Steps
    BY <1>2 DEF Steps, Range
<1>4. steps \in [1..Len(steps) -> NamedSteps]
    BY <1>1, LenProperties
<1> HIDE DEF steps
<1>5. steps \in [1..Len(steps) -> Steps]
    BY <1>3, <1>4
<1>6. steps \in Seq(Steps)
    BY <1>1, <1>5, SeqDef
<1> QED
    BY <1>1, <1>3, <1>6 DEF steps

LEMMA StepsAre == NamedSteps \subseteq Steps
<1>1. \A i \in 1..5 : QuestionSteps[i] \in Steps
    BY KindStepsFit, KindsAre, QuestionStepsFit
<1>2. {"load_context", "generate_problem", "verify_solution", "save_problem", "problem_ready"} \subseteq Steps
    <2> DEFINE steps == <<"load_context", "generate_problem", "verify_solution", "save_problem", "problem_ready">>
    <2>1. \A i \in 1..5 : steps[i] \in Steps
        BY KindStepsFit, KindsAre, ProblemStepsFit
    <2> QED
        BY <2>1, ProblemStepsFit
<1>3. {"load_evidence", "synthesize_profile", "validate_profile", "save_profile", "memory_ready"} \subseteq Steps
    <2> DEFINE ready == <<"memory_ready">>
               steps == MemorySteps \o ready
    <2>0. ready \in Seq(NamedSteps) /\ Len(ready) = 1 /\ ready[1] = "memory_ready"
        BY ReadyFits
    <2>1. /\ Len(steps) = 5 /\ \A i \in 1..4 : steps[i] = MemorySteps[i]
          /\ steps[5] = "memory_ready"
        <3> HIDE DEF ready
        <3>1. MemorySteps \in Seq(NamedSteps) /\ Len(MemorySteps) = 4
            BY MemoryStepsFit
        <3>2. /\ Len(steps) = Len(MemorySteps) + Len(ready)
              /\ \A i \in 1..Len(MemorySteps) : steps[i] = MemorySteps[i]
              /\ \A i \in 1..Len(ready) : steps[Len(MemorySteps) + i] = ready[i]
            BY <2>0, <3>1, JoinedFits
        <3>3. steps[4 + 1] = ready[1]
            BY <2>0, <3>1, <3>2
        <3> QED
            BY <2>0, <3>1, <3>2, <3>3
    <2>2. \A i \in 1..5 : steps[i] \in Steps
        <3>1. kindSteps["memory_reflection"] = steps /\ "memory_reflection" \in DOMAIN kindSteps
            BY KindsAre
        <3> HIDE DEF steps
        <3> QED
            BY <2>1, <3>1, KindStepsFit
    <2> QED
        BY <2>1, <2>2, MemoryStepsFit
<1> QED
    BY <1>1, <1>2, <1>3, QuestionStepsFit DEF NamedSteps

\* Reports of one, two and three events; the steps that are skipped.
LEMMA EventsFit ==
    ASSUME NEW step \in Steps, NEW status \in Status
    PROVE  Ev(step, status) \in Event /\ Final(step, status) \in Event
BY DEF Ev, Final, Event

LEMMA NoEvents == <<>> \in Seq(Event) /\ Spares(<<>>) /\ \A i \in DOMAIN <<>> : ~Saves(<<>>[i])
BY DEF Spares

LEMMA OneEvent ==
    ASSUME NEW e \in Event
    PROVE  /\ <<e>> \in Seq(Event) /\ <<e>> # <<>> /\ \A i \in DOMAIN <<e>> : <<e>>[i] = e
           /\ e.final => Closes(<<e>>)
BY DEF Closes

LEMMA TwoEvents ==
    ASSUME NEW e \in Event, NEW f \in Event
    PROVE  /\ <<e, f>> \in Seq(Event) /\ <<e, f>> # <<>>
           /\ \A i \in DOMAIN <<e, f>> : <<e, f>>[i] \in {e, f}
           /\ f.final => Closes(<<e, f>>)
BY DEF Closes

LEMMA ThreeEvents ==
    ASSUME NEW e \in Event, NEW f \in Event, NEW g \in Event
    PROVE  /\ <<e, f, g>> \in Seq(Event) /\ <<e, f, g>> # <<>>
           /\ \A i \in DOMAIN <<e, f, g>> : <<e, f, g>>[i] \in {e, f, g}
           /\ g.final => Closes(<<e, f, g>>)
BY DEF Closes

LEMMA SkippedFits ==
    ASSUME NEW steps \in Seq(Steps)
    PROVE  Skipped(steps) \in Seq(Event) /\ Spares(Skipped(steps))
<1>1. /\ DOMAIN Skipped(steps) = 1..Len(steps) /\ Len(steps) \in Nat
      /\ \A i \in 1..Len(steps) : Skipped(steps)[i] = Ev(steps[i], "succeeded") /\ steps[i] \in Steps
    BY LenProperties, ElementOfSeq DEF Skipped
<1>2. \A i \in 1..Len(steps) : Skipped(steps)[i] \in Event /\ ~Skipped(steps)[i].final
    <2>1. \A step \in Steps : Ev(step, "succeeded") \in Event /\ ~Ev(step, "succeeded").final
        BY DEF Ev, Event, Status
    <2> QED
        BY <1>1, <2>1
<1>3. Skipped(steps) \in [1..Len(steps) -> Event]
    BY <1>1, <1>2 DEF Skipped
<1>4. Skipped(steps) \in Seq(Event)
    BY <1>1, <1>3, SeqDef
<1> QED
    BY <1>1, <1>2, <1>4 DEF Spares, Condemns

LEMMA FirstActiveFits == ASSUME operation.kind \in DOMAIN kindSteps PROVE FirstActiveStep \in Steps
<1> DEFINE steps == kindSteps[operation.kind]
           having(status) == {i \in DOMAIN steps : latest[steps[i]] = status}
           active == IF having("running") # {} THEN having("running")
                     ELSE IF having("queued") # {} THEN having("queued") ELSE {Len(steps)}
<1>1. steps \in Seq(Steps) /\ Len(steps) \in Nat \ {0} /\ DOMAIN steps = 1..Len(steps)
    BY KindStepsFit, LenProperties
<1>2. active \subseteq 1..Len(steps) /\ active # {}
    BY <1>1
<1>3. \E i \in active : \A j \in active : i <= j
    <2>1. active \subseteq Nat
        BY <1>1, <1>2
    <2> DEFINE less == OpToRel(<, Nat)
    <2>2. IsWellFoundedOn(less, Nat)
        BY NatLessThanWellFounded
    <2>3. less = {pair \in Nat \X Nat : pair[1] < pair[2]}
        BY DEF OpToRel
    <2> HIDE DEF less, active
    <2>4. PICK i \in active : \A j \in active : <<j, i>> \notin less
        BY <1>2, <2>1, <2>2, WFMin
    <2>5. \A m, n \in Nat : <<m, n>> \in less <=> m < n
        BY <2>3
    <2>6. \A j \in active : i \in Nat /\ j \in Nat /\ ~(j < i)
        BY <2>1, <2>4, <2>5
    <2> QED
        BY <2>6
<1> HIDE DEF active
<1>4. (CHOOSE i \in active : \A j \in active : i <= j) \in active
    BY <1>3
<1>5. FirstActiveStep = steps[CHOOSE i \in active : \A j \in active : i <= j]
    BY DEF FirstActiveStep, active
<1> QED
    BY <1>1, <1>2, <1>4, <1>5, ElementOfSeq

-----------------------------------------------------------------------------
(* Initially, and a step that changes one request and nothing else.        *)

LEMMA FreshFits ==
    ASSUME NEW role \in {"none", "create", "maintain", "generate", "cancel"}, NEW point \in Points
    PROVE  /\ Fresh(role, point) \in Request
           /\ LET l == Fresh(role, point)
              IN  /\ l.role = role /\ l.at = point /\ l.phase = "work" /\ l.queue = <<>>
                  /\ ~l.saved /\ l.reply = "none" /\ l.read = "queued"
BY DEF Fresh, Request, Status, Event, Points

LEMMA InitInv == Init => Inv
<1> SUFFICES ASSUME Init PROVE Inv
    OBVIOUS
<1>1. PICK kind \in Kinds : operation = [kind |-> kind, status |-> "absent", last |-> 0]
    BY DEF Init
<1>2. \A a \in Actors : LocalFits(a, request[a], operation.status)
                        /\ request[a] \in Request /\ request[a].role # "generate"
                        /\ request[a].at \notin Gated
    <2>1. ASSUME NEW a \in Actors, NEW role \in {"none", "create"}, NEW point \in {"idle", "insert"},
                 request[a] = Fresh(role, point), role = "create" <=> a = Creator,
                 point = "insert" <=> a = Creator
          PROVE  LocalFits(a, request[a], operation.status) /\ request[a] \in Request
                 /\ request[a].role # "generate" /\ request[a].at \notin Gated
        <3>1. point \in Points
            BY DEF Points
        <3>2. DOMAIN <<>> = {}
            OBVIOUS
        <3> QED
            BY <1>1, <2>1, <3>1, <3>2, FreshFits DEF LocalFits, Gated, Terminal
    <2>2. ASSUME NEW a \in Actors
          PROVE  request[a] = IF a = Creator THEN Fresh("create", "insert") ELSE Fresh("none", "idle")
        BY DEF Init
    <2> QED
        BY <2>1, <2>2
<1>3. RequestsFit
    BY <1>2 DEF RequestsFit, Init
<1>4. LogFits
    <2>1. operation.kind \in DOMAIN kindSteps
        BY <1>1, WorkflowAssumption
    <2> QED
        BY <1>1, <2>1, WorkflowAssumption DEF Init, LogFits, OneFinalEvent, Terminal
<1>5. StreamFits
    BY <1>1 DEF Init, StreamFits, Viewer, StreamsAreComplete, ViewerAt
<1>6. GateFits
    <2>1. latest["save_profile"] = "none"
        BY StepsAre DEF Init, NamedSteps
    <2>2. \A r \in Requests : request[r].at \notin Gated
        BY <1>2 DEF Actors
    <2> QED
        BY <2>1, <2>2 DEF GateFits
<1> QED
    BY <1>3, <1>4, <1>5, <1>6 DEF Inv

LEMMA RequestIs ==
    ASSUME Inv, NEW a \in Actors
    PROVE  /\ request \in [Actors -> Request] /\ request[a] \in Request
           /\ LocalFits(a, request[a], operation.status)
           /\ faults = 0 /\ request[a].role = "generate"
                => Truthful(a, request[a], operation.status, finals)
BY DEF Inv, RequestsFit

LEMMA SetFits ==
    ASSUME Inv, NEW a \in Actors, NEW local \in Request, Set(a, local)
    PROVE  /\ request' \in [Actors -> Request]
           /\ request'[a] = local /\ \A b \in Actors \ {a} : request'[b] = request[b]
BY DEF Inv, RequestsFit, Set

\* Who has saved the memory has done so for good.
LEMMA UpdatedStays ==
    ASSUME Inv, NEW a \in Actors, NEW local \in Request, Set(a, local), request[a].saved => local.saved,
           Updated
    PROVE  Updated'
<1>1. PICK m \in Requests : request[m].saved
    BY DEF Updated
<1>2. m \in Actors
    BY DEF Actors
<1>3. request'[m].saved
    BY <1>1, <1>2, SetFits
<1> QED
    BY <1>3 DEF Updated

LEMMA SetInv ==
    ASSUME Inv, NEW a \in Actors, NEW local, Set(a, local), UNCHANGED <<logVars, viewer>>,
           faults' \in 0..MaxFaults, faults' = 0 => faults = 0,
           LocalFits(a, local, operation.status),
           faults' = 0 /\ local.role = "generate" => Truthful(a, local, operation.status, finals),
           request[a].saved => local.saved,
           local.at \in Gated /\ operation.kind = "mcq_next_round" => request[a].at \in Gated \/ Updated
    PROVE  Inv'
<1>1. /\ deployment' = deployment /\ operation' = operation /\ latest' = latest /\ finals' = finals
      /\ viewer' = viewer
    BY DEF logVars
<1>2. local \in Request
    BY DEF LocalFits
<1>3. /\ request' \in [Actors -> Request]
      /\ request'[a] = local /\ \A b \in Actors \ {a} : request'[b] = request[b]
    BY <1>2, SetFits
<1>4. RequestsFit'
    <2>1. ASSUME NEW b \in Actors
          PROVE  /\ LocalFits(b, request'[b], operation'.status)
                 /\ faults' = 0 /\ request'[b].role = "generate"
                      => Truthful(b, request'[b], operation'.status, finals')
        BY <1>1, <1>3, RequestIs
    <2> QED
        BY <1>3, <2>1 DEF RequestsFit
<1>5. LogFits' /\ StreamFits'
    BY <1>1 DEF Inv, LogFits, OneFinalEvent, StreamFits, StreamsAreComplete, ViewerAt
<1>6. GateFits'
    <2>1. Updated => Updated'
        BY <1>2, UpdatedStays
    <2>2. ASSUME operation.kind = "mcq_next_round", NEW r \in Requests, request'[r].at \in Gated
          PROVE  Updated
        <3>1. r \in Actors
            BY DEF Actors
        <3> QED
            BY <1>3, <2>2, <3>1 DEF Inv, GateFits
    <2> QED
        BY <1>1, <2>1, <2>2 DEF Inv, GateFits
<1> QED
    BY <1>4, <1>5, <1>6 DEF Inv

-----------------------------------------------------------------------------
(* The work of a request.                                                  *)

Rests == UNCHANGED <<logVars, viewer, faults>>

\* Points at which a generation works.
DraftingPoints == GeneratePoints \ {"ok", "fail", "done", "dead"}

\* A request reports events and goes on.
LEMMA WorkInv ==
    ASSUME Inv, Rests, NEW r \in Requests, NEW local \in Request, Set(r, local),
           request[r].at \in Points \ {"idle", "insert", "issue", "ok", "fail", "done", "dead"},
           local.at \in Points \ {"idle", "insert", "issue", "dead"},
           local.role = request[r].role, local.reply = request[r].reply,
           local.phase \in {"work", "read"}, local.phase = "work" <=> local.queue = <<>>,
           request[r].saved => local.saved,
           \A i \in DOMAIN local.queue : Saves(local.queue[i]) => local.saved,
           request[r].at \in DraftingPoints =>
               /\ local.at \in GeneratePoints \ {"done"}
               /\ local.at # "fail" => Spares(local.queue)
               /\ local.at = "ok" => Closes(local.queue),
           local.at \in Gated => request[r].at \in Gated \/ Updated
    PROVE  Inv'
<1>1. r \in Actors /\ r # Creator
    BY WorkflowAssumption DEF Actors
<1>2. /\ LocalFits(r, request[r], operation.status) /\ request[r] \in Request
      /\ faults = 0 /\ request[r].role = "generate" => Truthful(r, request[r], operation.status, finals)
    BY <1>1, RequestIs
<1>3. request[r].reply = "none"
    BY <1>2 DEF LocalFits
<1>4. request[r].role = "generate" => request[r].at \in DraftingPoints
    BY <1>2 DEF LocalFits, DraftingPoints
<1>5. LocalFits(r, local, operation.status)
    BY <1>1, <1>2, <1>3, <1>4 DEF LocalFits
<1>6. faults = 0 /\ local.role = "generate" => Truthful(r, local, operation.status, finals)
    BY <1>2, <1>3, <1>4 DEF Truthful
<1>7. faults \in 0..MaxFaults
    BY DEF Inv, LogFits
<1> QED
    BY <1>1, <1>5, <1>6, <1>7, SetInv DEF Rests

LEMMA QueueFits ==
    ASSUME NEW local \in Request, NEW events \in Seq(Event)
    PROVE  /\ Queue(local, events) \in Request
           /\ LET l == Queue(local, events)
              IN  /\ l.queue = events /\ l.phase = (IF events = <<>> THEN "work" ELSE "read")
                  /\ l.role = local.role /\ l.reply = local.reply /\ l.saved = local.saved
                  /\ l.at = local.at /\ l.attempt = local.attempt
<1> DEFINE phase == IF events = <<>> THEN "work" ELSE "read"
<1>1. Queue(local, events) = [local EXCEPT !.queue = events, !.phase = phase] /\ phase \in {"work", "read"}
    BY DEF Queue
<1> HIDE DEF phase
<1>2. /\ Queue(local, events) \in Request
      /\ Queue(local, events).queue = events /\ Queue(local, events).phase = phase
      /\ Queue(local, events).role = local.role /\ Queue(local, events).reply = local.reply
      /\ Queue(local, events).saved = local.saved
      /\ Queue(local, events).at = local.at /\ Queue(local, events).attempt = local.attempt
    BY <1>1 DEF Request
<1> QED
    BY <1>2 DEF phase

\* Some events, the point where the request is next, and its attempt.
LEMMA GoesOnFits ==
    ASSUME NEW local \in Request, NEW events \in Seq(Event), NEW next \in Points
    PROVE  LET l == [Queue(local, events) EXCEPT !.at = next]
           IN  /\ l \in Request
               /\ l.queue = events /\ l.phase \in {"work", "read"} /\ (l.phase = "work" <=> events = <<>>)
               /\ l.role = local.role /\ l.reply = local.reply /\ l.saved = local.saved
               /\ l.at = next /\ l.attempt = local.attempt
<1> DEFINE queued == Queue(local, events)
<1>1. /\ queued \in Request /\ queued.queue = events /\ queued.phase \in {"work", "read"}
      /\ queued.phase = "work" <=> events = <<>>
      /\ queued.role = local.role /\ queued.reply = local.reply /\ queued.saved = local.saved
      /\ queued.attempt = local.attempt
    BY QueueFits
<1> HIDE DEF queued
<1> QED
    BY <1>1 DEF Request, queued

LEMMA DoesInv ==
    ASSUME Inv, Rests, NEW r \in Requests, NEW point, NEW events \in Seq(Event), NEW next,
           Does(r, point, events, next),
           point \in Points \ {"idle", "insert", "issue", "ok", "fail", "done", "dead"},
           next \in Points \ {"idle", "insert", "issue", "dead"},
           \A i \in DOMAIN events : Saves(events[i]) => request[r].saved,
           point \in DraftingPoints =>
               /\ next \in GeneratePoints \ {"done"}
               /\ next # "fail" => Spares(events)
               /\ next = "ok" => Closes(events),
           next \in Gated => point \in Gated
    PROVE  Inv'
<1> DEFINE local == [Queue(request[r], events) EXCEPT !.at = next]
<1>1. request[r] \in Request
    BY RequestIs DEF Actors
<1>2. /\ local \in Request
      /\ local.queue = events /\ local.phase \in {"work", "read"} /\ (local.phase = "work" <=> events = <<>>)
      /\ local.role = request[r].role /\ local.reply = request[r].reply /\ local.saved = request[r].saved
      /\ local.at = next
    BY <1>1, GoesOnFits
<1>3. Set(r, local) /\ request[r].at = point
    BY DEF Does, At
<1> HIDE DEF local
<1> QED
    BY <1>2, <1>3, WorkInv

\* A step of the memory: nothing but what it reports of a save matters.
LEMMA MemoryDoesInv ==
    ASSUME Inv, Rests, NEW r \in Requests, NEW events \in Seq(Event),
           NEW point \in {"profile", "pending", "evidence", "completion", "synthesize", "validate",
                          "save", "settle", "complete", "pick"},
           NEW next \in Points \ {"idle", "insert", "issue", "dead"},
           next \notin Gated, Does(r, point, events, next),
           \A i \in DOMAIN events : ~Saves(events[i])
    PROVE  Inv'
<1>1. point \in Points \ {"idle", "insert", "issue", "ok", "fail", "done", "dead"}
      /\ point \notin DraftingPoints
    BY DEF Points, DraftingPoints, GeneratePoints
<1> QED
    BY <1>1, DoesInv

LEMMA SkipRefreshInv == ASSUME Inv, Rests, NEW r \in Requests, SkipRefresh(r) PROVE Inv'
<1>1. CASE At(r, "skip")
           /\ Set(r, [Queue(request[r], Skipped(MemorySteps)) EXCEPT !.at = "profile", !.saved = TRUE])
    <2> DEFINE events == Skipped(MemorySteps)
               going == [Queue(request[r], events) EXCEPT !.at = "profile"]
               local == [going EXCEPT !.saved = TRUE]
    <2>1. MemorySteps \in Seq(Steps)
        BY MemoryStepsFit, StepsAre, SeqMonotonic
    <2>2. events \in Seq(Event)
        BY <2>1, SkippedFits
    <2>3. request[r] \in Request /\ "profile" \in Points
        BY RequestIs DEF Actors, Points
    <2>4. Set(r, local)
        BY <1>1
    <2> HIDE DEF events
    <2>5. /\ going \in Request /\ going.queue = events
          /\ going.phase \in {"work", "read"} /\ (going.phase = "work" <=> events = <<>>)
          /\ going.role = request[r].role /\ going.reply = request[r].reply
          /\ going.at = "profile"
        BY <2>2, <2>3, GoesOnFits
    <2> HIDE DEF going
    <2>6. /\ local \in Request /\ local.queue = events /\ local.phase = going.phase
          /\ local.role = request[r].role /\ local.reply = request[r].reply
          /\ local.at = "profile" /\ local.saved
        BY <2>5 DEF Request
    <2> HIDE DEF local
    <2>7. request[r].at = "skip"
        BY <1>1 DEF At
    <2> QED
        BY <2>4, <2>5, <2>6, <2>7, WorkInv DEF Points, DraftingPoints, GeneratePoints, Gated
<1>2. CASE Does(r, "profile", <<>>, "complete") \/ Does(r, "profile", <<>>, "fail")
    BY <1>2, NoEvents, MemoryDoesInv DEF Points, Gated
<1> QED
    BY <1>1, <1>2 DEF SkipRefresh

LEMMA LoadEvidenceInv == ASSUME Inv, Rests, NEW r \in Requests, LoadEvidence(r) PROVE Inv'
<1> DEFINE running == Ev("load_evidence", "running")
           succeeded == Ev("load_evidence", "succeeded")
           failed == Final("load_evidence", "failed")
<1>1. /\ running \in Event /\ succeeded \in Event /\ failed \in Event
      /\ ~Saves(running) /\ ~Saves(succeeded) /\ ~Saves(failed)
    BY StepsAre, EventsFit DEF NamedSteps, Status, Ev, Final, Saves
<1> HIDE DEF running, succeeded, failed
<1>2. CASE Does(r, "pending", <<running>>, "evidence")
    BY <1>1, <1>2, OneEvent, MemoryDoesInv DEF Points, Gated
<1>3. CASE Does(r, "pending", <<>>, "fail")
    BY <1>3, NoEvents, MemoryDoesInv DEF Points, Gated
<1>4. CASE Does(r, "evidence", <<succeeded>>, "completion")
    BY <1>1, <1>4, OneEvent, MemoryDoesInv DEF Points, Gated
<1>5. CASE Does(r, "evidence", <<failed>>, "fail")
    BY <1>1, <1>5, OneEvent, MemoryDoesInv DEF Points, Gated
<1> QED
    BY <1>2, <1>3, <1>4, <1>5 DEF LoadEvidence, running, succeeded, failed

\* The memory is stored, or there was nothing to store; a second attempt begins.
LEMMA StoredFits ==
    ASSUME NEW local \in Request
    PROVE  LET l == [local EXCEPT !.saved = TRUE]
           IN  /\ l \in Request /\ l.queue = local.queue /\ l.phase = local.phase
               /\ l.role = local.role /\ l.reply = local.reply /\ l.saved /\ l.at = local.at
BY DEF Request

LEMMA AgainFits ==
    ASSUME NEW local \in Request
    PROVE  LET l == [local EXCEPT !.attempt = 2]
           IN  /\ l \in Request /\ l.queue = local.queue /\ l.phase = local.phase
               /\ l.role = local.role /\ l.reply = local.reply /\ l.saved = local.saved
               /\ l.at = local.at
<1> DEFINE second == 2
           l == [local EXCEPT !.attempt = second]
<1>1. second \in 1..2
    OBVIOUS
<1> HIDE DEF second
<1>2. /\ l \in Request /\ l.queue = local.queue /\ l.phase = local.phase
      /\ l.role = local.role /\ l.reply = local.reply /\ l.saved = local.saved
      /\ l.at = local.at
    BY <1>1 DEF Request
<1> QED
    BY <1>2 DEF second

LEMMA StoresInv ==
    ASSUME Inv, Rests, NEW r \in Requests, NEW events \in Seq(Event),
           request[r].at \in {"completion", "save"},
           Set(r, [Queue(request[r], events) EXCEPT !.at = "settle", !.saved = TRUE])
    PROVE  Inv'
<1> DEFINE going == [Queue(request[r], events) EXCEPT !.at = "settle"]
           local == [going EXCEPT !.saved = TRUE]
<1>1. request[r] \in Request /\ "settle" \in Points
    BY RequestIs DEF Actors, Points
<1>2. Set(r, local)
    OBVIOUS
<1>3. /\ going \in Request /\ going.queue = events /\ going.at = "settle"
      /\ going.phase \in {"work", "read"} /\ (going.phase = "work" <=> events = <<>>)
      /\ going.role = request[r].role /\ going.reply = request[r].reply
    BY <1>1, GoesOnFits
<1> HIDE DEF going
<1>4. /\ local \in Request /\ local.queue = events /\ local.phase = going.phase
      /\ local.role = request[r].role /\ local.reply = request[r].reply
      /\ local.at = "settle" /\ local.saved
    BY <1>1, <1>3, StoredFits
<1> HIDE DEF local
<1> QED
    BY <1>2, <1>3, <1>4, WorkInv DEF Points, DraftingPoints, GeneratePoints, Gated

\* There was nothing to store and nothing to report.
LEMMA StoresNothingInv ==
    ASSUME Inv, Rests, NEW r \in Requests, Works(r), request[r].at \in {"completion", "save"},
           Set(r, [request[r] EXCEPT !.at = "settle", !.saved = TRUE])
    PROVE  Inv'
<1> DEFINE local == [request[r] EXCEPT !.at = "settle", !.saved = TRUE]
<1>1. request[r] \in Request /\ "settle" \in Points
    BY RequestIs DEF Actors, Points
<1>2. request[r].phase = "work" /\ request[r].queue = <<>>
    BY RequestIs DEF Actors, Works, LocalFits
<1>3. Set(r, local)
    OBVIOUS
<1>4. /\ local \in Request /\ local.queue = request[r].queue /\ local.phase = request[r].phase
      /\ local.role = request[r].role /\ local.reply = request[r].reply
      /\ local.at = "settle" /\ local.saved
    BY <1>1 DEF Request
<1> HIDE DEF local
<1> QED
    BY <1>2, <1>3, <1>4, NoEvents, WorkInv DEF Points, DraftingPoints, GeneratePoints, Gated

LEMMA CheckCompletionInv == ASSUME Inv, Rests, NEW r \in Requests, CheckCompletion(r) PROVE Inv'
<1> DEFINE running == Ev("synthesize_profile", "running")
           failed == Final("synthesize_profile", "failed")
           skipped == Skipped(Tail(MemorySteps))
<1>1. running \in Event /\ failed \in Event /\ ~Saves(running) /\ ~Saves(failed)
    BY StepsAre, EventsFit DEF NamedSteps, Status, Ev, Final, Saves
<1>2. skipped \in Seq(Event)
    <2>1. MemorySteps \in Seq(Steps)
        BY MemoryStepsFit, StepsAre, SeqMonotonic
    <2>2. MemorySteps # <<>>
        BY DEF MemorySteps
    <2>3. Tail(MemorySteps) \in Seq(Steps)
        BY <2>1, <2>2, HeadTailProperties
    <2> QED
        BY <2>3, SkippedFits
<1>3. Works(r) /\ request[r].at = "completion"
    BY DEF CheckCompletion, At
<1> HIDE DEF running, failed, skipped
<1>4. CASE Does(r, "completion", <<>>, "fail")
    BY <1>4, NoEvents, MemoryDoesInv DEF Points, Gated
<1>5. CASE Set(r, [request[r] EXCEPT !.at = "settle", !.saved = TRUE])
    BY <1>3, <1>5, StoresNothingInv
<1>6. CASE Set(r, [Queue(request[r], skipped) EXCEPT !.at = "settle", !.saved = TRUE])
    BY <1>2, <1>3, <1>6, StoresInv
<1>7. CASE Does(r, "completion", <<failed>>, "fail")
    BY <1>1, <1>7, OneEvent, MemoryDoesInv DEF Points, Gated
<1>8. CASE Does(r, "completion", <<failed>>, "settle")
    BY <1>1, <1>8, OneEvent, MemoryDoesInv DEF Points, Gated
<1>9. CASE Does(r, "completion", <<running>>, "synthesize")
    BY <1>1, <1>9, OneEvent, MemoryDoesInv DEF Points, Gated
<1> QED
    BY <1>4, <1>5, <1>6, <1>7, <1>8, <1>9 DEF CheckCompletion, running, failed, skipped

LEMMA SynthesizeInv == ASSUME Inv, Rests, NEW r \in Requests, Synthesize(r) PROVE Inv'
<1> DEFINE synthesized == Ev("synthesize_profile", "succeeded")
           validating == Ev("validate_profile", "running")
           validated == Ev("validate_profile", "succeeded")
           saving == Ev("save_profile", "running")
           unsynthesized == Final("synthesize_profile", "failed")
           invalid == Final("validate_profile", "failed")
<1>1. /\ synthesized \in Event /\ validating \in Event /\ validated \in Event
      /\ saving \in Event /\ unsynthesized \in Event /\ invalid \in Event
    BY StepsAre, EventsFit DEF NamedSteps, Status
<1>2. /\ ~Saves(synthesized) /\ ~Saves(validating) /\ ~Saves(validated)
      /\ ~Saves(saving) /\ ~Saves(unsynthesized) /\ ~Saves(invalid)
    BY DEF Ev, Final, Saves
<1> HIDE DEF synthesized, validating, validated, saving, unsynthesized, invalid
<1>3. CASE Does(r, "synthesize", <<synthesized, validating>>, "validate")
    <2>1. \A i \in DOMAIN <<synthesized, validating>> : ~Saves(<<synthesized, validating>>[i])
        BY <1>1, <1>2, TwoEvents
    <2> QED
        BY <1>1, <1>3, <2>1, TwoEvents, MemoryDoesInv DEF Points, Gated
<1>4. CASE Does(r, "synthesize", <<unsynthesized>>, "fail")
    BY ZenonT(60), <1>1, <1>2, <1>4, OneEvent, MemoryDoesInv DEF Points, Gated
<1>5. CASE Does(r, "validate", <<validated, saving>>, "save")
    <2>1. \A i \in DOMAIN <<validated, saving>> : ~Saves(<<validated, saving>>[i])
        BY <1>1, <1>2, TwoEvents
    <2> QED
        BY <1>1, <1>5, <2>1, TwoEvents, MemoryDoesInv DEF Points, Gated
<1>6. CASE Does(r, "validate", <<invalid>>, "fail")
    BY ZenonT(60), <1>1, <1>2, <1>6, OneEvent, MemoryDoesInv DEF Points, Gated
<1> QED
    BY <1>3, <1>4, <1>5, <1>6
    DEF Synthesize, synthesized, validating, validated, saving, unsynthesized, invalid

LEMMA SaveInv == ASSUME Inv, Rests, NEW r \in Requests, Save(r) PROVE Inv'
<1> DEFINE saved == Ev("save_profile", "succeeded")
           failed == Final("save_profile", "failed")
           running == Ev("load_evidence", "running")
<1>1. /\ saved \in Event /\ failed \in Event /\ running \in Event
      /\ ~Saves(failed) /\ ~Saves(running)
    BY StepsAre, EventsFit DEF NamedSteps, Status, Ev, Final, Saves
<1>2. Works(r) /\ request[r].at = "save"
    BY DEF Save, At
<1> HIDE DEF saved, failed, running
<1>3. CASE Set(r, [Queue(request[r], <<saved>>) EXCEPT !.at = "settle", !.saved = TRUE])
    BY <1>1, <1>2, <1>3, OneEvent, StoresInv
<1>4. CASE Set(r, [request[r] EXCEPT !.at = "settle", !.saved = TRUE])
    BY <1>2, <1>4, StoresNothingInv
<1>5. CASE Does(r, "save", <<>>, "fail")
    BY <1>5, NoEvents, MemoryDoesInv DEF Points, Gated
<1>6. CASE Does(r, "save", <<failed>>, "fail")
    BY <1>1, <1>6, OneEvent, MemoryDoesInv DEF Points, Gated
<1>7. CASE Restart(r)
    <2> DEFINE events == <<failed, running>>
               going == [Queue(request[r], events) EXCEPT !.at = "evidence"]
               local == [going EXCEPT !.attempt = 2]
    <2>1. /\ events \in Seq(Event) /\ \A i \in DOMAIN events : ~Saves(events[i])
        BY <1>1, TwoEvents
    <2>2. request[r] \in Request /\ "evidence" \in Points
        BY RequestIs DEF Actors, Points
    <2>3. Set(r, local)
        BY <1>7 DEF Restart, failed, running
    <2> HIDE DEF events
    <2>4. /\ going \in Request /\ going.queue = events /\ going.at = "evidence"
          /\ going.phase \in {"work", "read"} /\ (going.phase = "work" <=> events = <<>>)
          /\ going.role = request[r].role /\ going.reply = request[r].reply
          /\ going.saved = request[r].saved
        BY <2>1, <2>2, GoesOnFits
    <2> HIDE DEF going
    <2>5. /\ local \in Request /\ local.queue = events /\ local.phase = going.phase
          /\ local.role = request[r].role /\ local.reply = request[r].reply
          /\ local.saved = request[r].saved /\ local.at = "evidence"
        BY <2>4, AgainFits
    <2> HIDE DEF local
    <2> QED
        BY <1>2, <2>1, <2>3, <2>4, <2>5, WorkInv DEF Points, DraftingPoints, GeneratePoints, Gated
<1> QED
    BY <1>3, <1>4, <1>5, <1>6, <1>7 DEF Save, saved, failed

LEMMA SettleMemoryInv == ASSUME Inv, Rests, NEW r \in Requests, SettleMemory(r) PROVE Inv'
<1> DEFINE ready == Final("memory_ready", "succeeded")
<1>1. ready \in Event /\ ~Saves(ready)
    BY StepsAre, EventsFit DEF NamedSteps, Status, Final, Saves
<1> HIDE DEF ready
<1>2. CASE Does(r, "settle", <<>>, "complete") \/ Does(r, "settle", <<>>, "fail")
           \/ Does(r, "complete", <<>>, "ok")
    BY <1>2, NoEvents, MemoryDoesInv DEF Points, Gated
<1>3. CASE Does(r, "complete", <<ready>>, "ok")
    BY <1>1, <1>3, OneEvent, MemoryDoesInv DEF Points, Gated
<1> QED
    BY <1>2, <1>3 DEF SettleMemory, ready

-----------------------------------------------------------------------------
(* The work of a generation.                                               *)

\* A step of a generation: a final failure leads to the end, and the end is final.
LEMMA DraftDoesInv ==
    ASSUME Inv, Rests, NEW r \in Requests, NEW events \in Seq(Event),
           NEW point \in {"prepare", "context", "draft", "check", "verify", "persist"},
           NEW next \in {"context", "draft", "check", "verify", "persist", "ok", "fail"},
           Does(r, point, events, next),
           next \in Gated => point \in Gated,
           \A i \in DOMAIN events : ~Saves(events[i]),
           next # "fail" => Spares(events),
           next = "ok" => Closes(events)
    PROVE  Inv'
<1>1. /\ point \in Points \ {"idle", "insert", "issue", "ok", "fail", "done", "dead"}
      /\ next \in Points \ {"idle", "insert", "issue", "dead"}
      /\ next \in GeneratePoints \ {"done"}
    BY DEF Points, GeneratePoints
<1> QED
    BY <1>1, DoesInv

\* A report of events that are neither final failures nor saves, and one that ends it.
Harmless(event) == ~Condemns(event) /\ ~Saves(event)

LEMMA HarmlessFits ==
    ASSUME NEW step \in Steps, NEW status \in Status, status # "succeeded" \/ step # "save_profile"
    PROVE  /\ Ev(step, status) \in Event /\ Harmless(Ev(step, status))
           /\ Final(step, status) \in Event /\ ~Saves(Final(step, status)) /\ Final(step, status).final
           /\ status = "succeeded" => Harmless(Final(step, status))
BY EventsFit DEF Ev, Final, Harmless, Condemns, Saves

LEMMA ReportInv ==
    ASSUME Inv, Rests, NEW r \in Requests, NEW e \in Event, NEW f \in Event,
           NEW point \in {"prepare", "context", "draft", "check", "verify", "persist"},
           NEW next \in {"context", "draft", "check", "verify", "persist", "ok", "fail"},
           next \in Gated => point \in Gated,
           Harmless(e), Harmless(f), next = "ok" => f.final,
           Does(r, point, <<e, f>>, next)
    PROVE  Inv'
<1> DEFINE events == <<e, f>>
<1>1. /\ events \in Seq(Event) /\ \A i \in DOMAIN events : events[i] \in {e, f}
      /\ f.final => Closes(events)
    BY TwoEvents
<1>2. Does(r, point, events, next)
    OBVIOUS
<1> HIDE DEF events
<1>3. Spares(events) /\ \A i \in DOMAIN events : ~Saves(events[i])
    BY <1>1 DEF Spares, Harmless
<1> QED
    BY <1>1, <1>2, <1>3, DraftDoesInv

LEMMA FailInv ==
    ASSUME Inv, Rests, NEW r \in Requests, NEW e \in Event,
           NEW point \in {"prepare", "context", "draft", "check", "verify", "persist"},
           ~Saves(e), Does(r, point, <<e>>, "fail")
    PROVE  Inv'
<1>1. <<e>> \in Seq(Event) /\ \A i \in DOMAIN <<e>> : ~Saves(<<e>>[i])
    BY OneEvent
<1> QED
    BY <1>1, DraftDoesInv DEF Gated

LEMMA DraftStepFits ==
    ASSUME NEW r \in Requests
    PROVE  DraftStep(r) \in Steps /\ DraftStep(r) # "save_profile"
BY StepsAre DEF DraftStep, NamedSteps

LEMMA LoadContextInv == ASSUME Inv, Rests, NEW r \in Requests, LoadContext(r) PROVE Inv'
<1> DEFINE running == Ev("load_context", "running")
           succeeded == Ev("load_context", "succeeded")
           failed == Final("load_context", "failed")
           drafting == Ev(DraftStep(r), "running")
<1>1. /\ running \in Event /\ succeeded \in Event /\ failed \in Event /\ drafting \in Event
      /\ Harmless(running) /\ Harmless(succeeded) /\ Harmless(drafting) /\ ~Saves(failed)
    <2>1. "load_context" \in Steps /\ "running" \in Status /\ "succeeded" \in Status /\ "failed" \in Status
        BY StepsAre DEF NamedSteps, Status
    <2> QED
        BY <2>1, HarmlessFits, DraftStepFits
<1> HIDE DEF running, succeeded, failed, drafting
<1>2. CASE Does(r, "prepare", <<>>, "fail")
    BY <1>2, NoEvents, DraftDoesInv DEF Gated
<1>3. CASE Does(r, "prepare", <<running>>, "context")
    <2>1. /\ <<running>> \in Seq(Event) /\ Spares(<<running>>)
          /\ \A i \in DOMAIN <<running>> : ~Saves(<<running>>[i])
        BY <1>1, OneEvent DEF Spares, Harmless
    <2> QED
        BY <1>3, <2>1, DraftDoesInv DEF Gated
<1>4. CASE Does(r, "context", <<succeeded, drafting>>, "draft")
    BY <1>1, <1>4, ReportInv DEF Gated
<1>5. CASE Does(r, "context", <<failed>>, "fail")
    BY <1>1, <1>5, FailInv
<1> QED
    BY <1>2, <1>3, <1>4, <1>5 DEF LoadContext, running, succeeded, failed, drafting

\* A rejected draft is drafted again.
LEMMA RedraftInv ==
    ASSUME Inv, Rests, NEW r \in Requests, NEW e \in Event, NEW f \in Event,
           request[r].at \in {"draft", "check"}, Harmless(e), Harmless(f),
           Set(r, [Queue(request[r], <<e, f>>) EXCEPT !.at = "draft", !.attempt = 2])
    PROVE  Inv'
<1> DEFINE events == <<e, f>>
           going == [Queue(request[r], events) EXCEPT !.at = "draft"]
           again == [going EXCEPT !.attempt = 2]
<1>1. /\ events \in Seq(Event) /\ \A i \in DOMAIN events : events[i] \in {e, f}
    BY TwoEvents
<1>2. request[r] \in Request /\ "draft" \in Points
    BY RequestIs DEF Actors, Points
<1>3. Set(r, again)
    OBVIOUS
<1> HIDE DEF events
<1>4. /\ going \in Request /\ going.queue = events /\ going.at = "draft"
      /\ going.phase \in {"work", "read"} /\ (going.phase = "work" <=> events = <<>>)
      /\ going.role = request[r].role /\ going.reply = request[r].reply
      /\ going.saved = request[r].saved
    BY <1>1, <1>2, GoesOnFits
<1> HIDE DEF going
<1>5. /\ again \in Request /\ again.queue = events /\ again.phase = going.phase
      /\ again.role = request[r].role /\ again.reply = request[r].reply
      /\ again.saved = request[r].saved /\ again.at = "draft"
    BY <1>4, AgainFits
<1> HIDE DEF again
<1>6. Spares(events) /\ \A i \in DOMAIN events : ~Saves(events[i])
    BY <1>1 DEF Spares, Harmless
<1> QED
    BY <1>3, <1>4, <1>5, <1>6, WorkInv DEF Points, DraftingPoints, GeneratePoints, Gated

LEMMA RejectQuestionsInv == ASSUME Inv, Rests, NEW r \in Requests, RejectQuestions(r) PROVE Inv'
<1> DEFINE failed == Final("validate_questions", "failed")
           rejected == Ev("validate_questions", "failed")
           repairing == Ev("repair_questions", "running")
<1>1. /\ failed \in Event /\ rejected \in Event /\ repairing \in Event
      /\ ~Saves(failed) /\ Harmless(rejected) /\ Harmless(repairing)
    <2>1. /\ "validate_questions" \in Steps /\ "repair_questions" \in Steps
          /\ "running" \in Status /\ "failed" \in Status
        BY StepsAre DEF NamedSteps, Status
    <2> QED
        BY <2>1, HarmlessFits
<1>2. request[r].at = "check"
    BY DEF RejectQuestions, At
<1> HIDE DEF failed, rejected, repairing
<1>3. CASE Does(r, "check", <<failed>>, "fail")
    BY <1>1, <1>3, FailInv
<1>4. CASE Set(r, [Queue(request[r], <<rejected, repairing>>) EXCEPT !.at = "draft", !.attempt = 2])
    BY <1>1, <1>2, <1>4, RedraftInv
<1> QED
    BY <1>3, <1>4 DEF RejectQuestions, failed, rejected, repairing

LEMMA TogetherFit ==
    ASSUME NEW s \in Seq(Event), NEW t \in Seq(Event),
           \A i \in DOMAIN s : Harmless(s[i]), \A i \in DOMAIN t : Harmless(t[i])
    PROVE  /\ s \o t \in Seq(Event) /\ \A i \in DOMAIN (s \o t) : Harmless((s \o t)[i])
           /\ Closes(t) => Closes(s \o t)
<1> DEFINE m == Len(s)
           n == Len(t)
           st == s \o t
<1>1. /\ m \in Nat /\ n \in Nat /\ DOMAIN s = 1..m /\ DOMAIN t = 1..n
    BY LenProperties
<1>2. /\ st \in Seq(Event) /\ Len(st) = m + n
      /\ \A i \in 1..m + n : st[i] = IF i <= m THEN s[i] ELSE t[i - m]
    BY ConcatProperties
<1>3. DOMAIN st = 1..m + n
    BY <1>2, LenProperties
<1>4. t # <<>> => n # 0 /\ st # <<>>
    <2>1. t # <<>> => n # 0
        BY EmptySeq
    <2>2. st = <<>> => m + n = 0
        BY <1>2
    <2> QED
        BY <1>1, <2>1, <2>2
<1> HIDE DEF m, n, st
<1>5. \A i \in 1..m + n : i \in 1..m \/ (~(i <= m) /\ i - m \in 1..n)
    BY <1>1
<1>6. \A i \in 1..m : i <= m
    BY <1>1
<1>7. \A i \in DOMAIN st : Harmless(st[i])
    BY <1>1, <1>2, <1>3, <1>5, <1>6
<1>8. Closes(t) => Closes(st)
    <2>1. ASSUME n # 0 PROVE ~(m + n <= m) /\ (m + n) - m = n /\ m + n \in 1..m + n
        BY <1>1, <2>1
    <2>2. ASSUME Closes(t) PROVE st[Len(st)] = t[n]
        BY <1>2, <1>4, <2>1, <2>2 DEF Closes
    <2> QED
        BY <1>4, <2>2 DEF Closes, n
<1> QED
    BY <1>2, <1>7, <1>8 DEF st

LEMMA DraftQuestionsInv == ASSUME Inv, Rests, NEW r \in Requests, DraftQuestions(r) PROVE Inv'
<1> DEFINE drafted == Ev(DraftStep(r), "succeeded")
           failed == Final(DraftStep(r), "failed")
           validating == Ev("validate_questions", "running")
           validated == Ev("validate_questions", "succeeded")
           repaired == Ev("repair_questions", "succeeded")
           ready == Final("questions_ready", "succeeded")
           repairs == IF request[r].attempt = 1 THEN <<repaired>> ELSE <<>>
<1>1. /\ drafted \in Event /\ failed \in Event /\ validating \in Event /\ validated \in Event
      /\ repaired \in Event /\ ready \in Event
      /\ Harmless(drafted) /\ ~Saves(failed) /\ Harmless(validating) /\ Harmless(validated)
      /\ Harmless(repaired) /\ Harmless(ready) /\ ready.final
    <2>1. /\ "validate_questions" \in Steps /\ "repair_questions" \in Steps /\ "questions_ready" \in Steps
          /\ "running" \in Status /\ "succeeded" \in Status /\ "failed" \in Status
        BY StepsAre DEF NamedSteps, Status
    <2> QED
        BY <2>1, HarmlessFits, DraftStepFits
<1> HIDE DEF drafted, failed, validating, validated, repaired, ready
<1>2. CASE Does(r, "draft", <<drafted, validating>>, "check")
    BY <1>1, <1>2, ReportInv DEF Gated
<1>3. CASE Does(r, "draft", <<failed>>, "fail")
    BY <1>1, <1>3, FailInv
<1>4. CASE Does(r, "check", <<validated>> \o repairs \o <<ready>>, "ok")
    <2> DEFINE first == <<validated>>
               last == <<ready>>
               events == first \o repairs \o last
    <2>1. /\ first \in Seq(Event) /\ \A i \in DOMAIN first : Harmless(first[i])
          /\ last \in Seq(Event) /\ \A i \in DOMAIN last : Harmless(last[i])
          /\ Closes(last)
        BY <1>1, OneEvent
    <2>2. repairs \in Seq(Event) /\ \A i \in DOMAIN repairs : Harmless(repairs[i])
        <3>1. /\ <<repaired>> \in Seq(Event)
              /\ \A i \in DOMAIN <<repaired>> : Harmless(<<repaired>>[i])
            BY <1>1, OneEvent
        <3>2. <<>> \in Seq(Event) /\ \A i \in DOMAIN <<>> : Harmless(<<>>[i])
            OBVIOUS
        <3> QED
            BY <3>1, <3>2
    <2>3. Does(r, "check", events, "ok")
        BY <1>4
    <2> HIDE DEF first, last, repairs
    <2>4. /\ first \o repairs \in Seq(Event)
          /\ \A i \in DOMAIN (first \o repairs) : Harmless((first \o repairs)[i])
        BY <2>1, <2>2, TogetherFit
    <2>5. /\ events \in Seq(Event) /\ Closes(events)
          /\ \A i \in DOMAIN events : Harmless(events[i])
        BY <2>1, <2>4, TogetherFit
    <2> HIDE DEF events
    <2>6. Spares(events) /\ \A i \in DOMAIN events : ~Saves(events[i])
        BY <2>5 DEF Spares, Harmless
    <2> QED
        BY <2>3, <2>5, <2>6, DraftDoesInv DEF Gated
<1>5. CASE RejectQuestions(r)
    BY <1>5, RejectQuestionsInv
<1> QED
    BY <1>2, <1>3, <1>4, <1>5
    DEF DraftQuestions, drafted, failed, validating, validated, repaired, ready

LEMMA DraftProblemInv == ASSUME Inv, Rests, NEW r \in Requests, DraftProblem(r) PROVE Inv'
<1> DEFINE drafted == Ev("generate_problem", "succeeded")
           drafting == Ev("generate_problem", "running")
           rejected == Ev("generate_problem", "failed")
           undrafted == Final("generate_problem", "failed")
           verifying == Ev("verify_solution", "running")
           verified == Ev("verify_solution", "succeeded")
           unverified == Final("verify_solution", "failed")
           saving == Ev("save_problem", "running")
           saved == Ev("save_problem", "succeeded")
           unsaved == Final("save_problem", "failed")
           ready == Final("problem_ready", "succeeded")
<1>1. /\ drafted \in Event /\ drafting \in Event /\ rejected \in Event /\ undrafted \in Event
      /\ verifying \in Event /\ verified \in Event /\ unverified \in Event
      /\ saving \in Event /\ saved \in Event /\ unsaved \in Event /\ ready \in Event
      /\ Harmless(drafted) /\ Harmless(drafting) /\ Harmless(rejected) /\ ~Saves(undrafted)
      /\ Harmless(verifying) /\ Harmless(verified) /\ ~Saves(unverified)
      /\ Harmless(saving) /\ Harmless(saved) /\ ~Saves(unsaved) /\ Harmless(ready) /\ ready.final
    <2>1. /\ "generate_problem" \in Steps /\ "verify_solution" \in Steps
          /\ "save_problem" \in Steps /\ "problem_ready" \in Steps
          /\ "running" \in Status /\ "succeeded" \in Status /\ "failed" \in Status
        BY StepsAre DEF NamedSteps, Status
    <2> QED
        BY <2>1, HarmlessFits
<1> HIDE DEF drafted, drafting, rejected, undrafted, verifying, verified, unverified, saving, saved,
             unsaved, ready
<1>2. CASE Does(r, "draft", <<drafted, verifying>>, "verify")
    BY <1>1, <1>2, ReportInv DEF Gated
<1>3. CASE Does(r, "draft", <<undrafted>>, "fail")
    BY <1>1, <1>3, FailInv
<1>4. CASE /\ At(r, "draft")
           /\ Set(r, [Queue(request[r], <<rejected, drafting>>) EXCEPT !.attempt = 2])
    <2> DEFINE events == <<rejected, drafting>>
               queued == Queue(request[r], events)
    <2>1. request[r] \in Request /\ request[r].at = "draft"
        BY <1>4, RequestIs DEF Actors, At
    <2>2. events \in Seq(Event)
        BY <1>1, TwoEvents
    <2>3. Set(r, [queued EXCEPT !.attempt = 2])
        BY <1>4
    <2> HIDE DEF events
    <2>4. queued \in Request /\ queued.at = "draft"
        BY <2>1, <2>2, QueueFits
    <2> HIDE DEF queued
    <2>5. [queued EXCEPT !.at = "draft"] = queued
        BY <2>4 DEF Request
    <2>6. Set(r, [queued EXCEPT !.at = "draft", !.attempt = 2])
        <3> DEFINE going == [queued EXCEPT !.at = "draft"]
        <3>1. going = queued
            BY <2>5
        <3> HIDE DEF going
        <3>2. Set(r, [going EXCEPT !.attempt = 2])
            BY <2>3, <3>1
        <3> QED
            BY <3>2 DEF going
    <2> QED
        BY <1>1, <2>1, <2>6, RedraftInv DEF queued, events
<1>5. CASE Does(r, "verify", <<verified, saving>>, "persist")
    BY <1>1, <1>5, ReportInv DEF Gated
<1>6. CASE Does(r, "verify", <<unverified>>, "fail")
    BY <1>1, <1>6, FailInv
<1>7. CASE Does(r, "verify", <<>>, "fail")
    BY <1>7, NoEvents, DraftDoesInv DEF Gated
<1>8. CASE Does(r, "persist", <<saved, ready>>, "ok")
    BY <1>1, <1>8, ReportInv DEF Gated
<1>9. CASE Does(r, "persist", <<unsaved>>, "fail")
    BY <1>1, <1>9, FailInv
<1> QED
    BY <1>2, <1>3, <1>4, <1>5, <1>6, <1>7, <1>8, <1>9
    DEF DraftProblem, drafted, drafting, rejected, undrafted, verifying, verified, unverified, saving,
        saved, unsaved, ready

LEMMA PickStepInv == ASSUME Inv, Rests, NEW r \in Requests, PickStep(r) PROVE Inv'
<1> DEFINE failed == Final(FirstActiveStep, "failed")
<1>1. operation.kind \in DOMAIN kindSteps
    BY DEF Inv, LogFits
<1>2. failed \in Event /\ ~Saves(failed)
    BY <1>1, FirstActiveFits, EventsFit DEF Status, Final, Saves
<1>3. Does(r, "pick", <<failed>>, "done")
    BY DEF PickStep
<1> HIDE DEF failed
<1> QED
    BY <1>2, <1>3, OneEvent, MemoryDoesInv DEF Points, Gated

-----------------------------------------------------------------------------
(* The gate, and the end of a request.                                     *)

LEMMA EndedFits ==
    ASSUME NEW local \in Request, NEW reply \in {"none", "ok", "failed"}
    PROVE  LET l == Ended(local, reply)
           IN  /\ l \in Request /\ l.role = local.role /\ l.at = "done" /\ l.phase = "work"
               /\ l.queue = <<>> /\ l.saved = local.saved /\ l.reply = reply
<1> DEFINE fresh == Fresh(local.role, "done")
           saved == local.saved
           l == [fresh EXCEPT !.saved = saved, !.reply = reply]
<1>1. local.role \in {"none", "create", "maintain", "generate", "cancel"} /\ saved \in BOOLEAN
    BY DEF Request
<1>2. /\ fresh \in Request /\ fresh.role = local.role /\ fresh.at = "done" /\ fresh.phase = "work"
      /\ fresh.queue = <<>>
    BY <1>1, FreshFits DEF Points
<1> HIDE DEF fresh, saved
<1>3. /\ l \in Request /\ l.role = local.role /\ l.at = "done" /\ l.phase = "work"
      /\ l.queue = <<>> /\ l.saved = saved /\ l.reply = reply
    BY <1>1, <1>2 DEF Request
<1> QED
    BY <1>3 DEF Ended, fresh, saved

\* The gate lets a request pass only when some refresh has saved the memory.
LEMMA MetUpdated == ASSUME Inv, Met PROVE Updated
<1>1. MemorySteps[4] = "save_profile" /\ 4 \in DOMAIN MemorySteps
    <2>1. MemorySteps \in Seq(NamedSteps) /\ Len(MemorySteps) = 4 /\ MemorySteps[4] = "save_profile"
        BY MemoryStepsFit
    <2>2. DOMAIN MemorySteps = 1..Len(MemorySteps)
        BY <2>1, LenProperties
    <2> QED
        BY <2>1, <2>2
<1>2. "save_profile" \in Range(MemorySteps)
    BY <1>1 DEF Range
<1> QED
    BY <1>2 DEF Met, Inv, GateFits

LEMMA RequireInv == ASSUME Inv, Rests, NEW r \in Requests, Require(r) PROVE Inv'
<1>1. /\ r \in Actors /\ r # Creator /\ request[r].at = "require"
    BY WorkflowAssumption DEF Actors, Require, At
<1>2. /\ request[r] \in Request /\ LocalFits(r, request[r], operation.status)
      /\ faults = 0 /\ request[r].role = "generate" => Truthful(r, request[r], operation.status, finals)
      /\ faults \in 0..MaxFaults
    BY <1>1, RequestIs DEF Inv, LogFits
<1>3. CASE Met /\ Set(r, [request[r] EXCEPT !.at = "prepare"])
    <2> DEFINE local == [request[r] EXCEPT !.at = "prepare"]
    <2>1. Updated
        BY <1>3, MetUpdated
    <2>2. /\ local \in Request /\ local.at = "prepare" /\ local.role = request[r].role
          /\ local.phase = request[r].phase /\ local.queue = request[r].queue
          /\ local.read = request[r].read /\ local.saved = request[r].saved
          /\ local.reply = request[r].reply
        BY <1>2 DEF Request, Points
    <2>3. Set(r, local)
        BY <1>3
    <2> HIDE DEF local
    <2>4. LocalFits(r, local, operation.status)
        BY <1>1, <1>2, <2>2 DEF LocalFits, GeneratePoints
    <2>5. faults = 0 /\ local.role = "generate" => Truthful(r, local, operation.status, finals)
        BY <1>1, <1>2, <2>2 DEF Truthful
    <2> QED
        BY <1>1, <1>2, <2>1, <2>2, <2>3, <2>4, <2>5, SetInv DEF Rests
<1>4. CASE Set(r, Ended(request[r], "failed"))
    <2> DEFINE local == Ended(request[r], "failed")
    <2>1. /\ local \in Request /\ local.role = request[r].role /\ local.at = "done" /\ local.phase = "work"
          /\ local.queue = <<>> /\ local.saved = request[r].saved /\ local.reply = "failed"
        BY <1>2, EndedFits
    <2>2. Set(r, local)
        BY <1>4
    <2> HIDE DEF local
    <2>3. LocalFits(r, local, operation.status)
        BY <1>1, <1>2, <2>1 DEF LocalFits, GeneratePoints
    <2>4. faults = 0 /\ local.role = "generate" => Truthful(r, local, operation.status, finals)
        BY <2>1 DEF Truthful
    <2> QED
        BY <1>1, <1>2, <2>1, <2>2, <2>3, <2>4, SetInv DEF Rests, Gated
<1> QED
    BY <1>3, <1>4 DEF Require

(***************************************************************************)
(* A generation that answers with success has seen its last report made:   *)
(* the operation is closed, and whatever it reports now is refused.        *)
(***************************************************************************)
LEMMA FinishRequestInv == ASSUME Inv, Rests, NEW r \in Requests, FinishRequest(r) PROVE Inv'
<1> DEFINE reply == IF At(r, "ok") THEN "ok" ELSE "failed"
           answered == Ended(request[r], reply)
           event == Final(Fallback(request[r].role), "failed")
           queued == Queue(answered, <<event>>)
           closing == [queued EXCEPT !.detached = TRUE]
<1>1. /\ r \in Actors /\ r # Creator /\ request[r].at \in {"ok", "fail"} /\ request[r].phase = "work"
      /\ reply \in {"ok", "failed"} /\ (reply = "ok" => request[r].at = "ok")
    BY WorkflowAssumption DEF Actors, FinishRequest, At, Works
<1>2. /\ request[r] \in Request /\ LocalFits(r, request[r], operation.status)
      /\ faults = 0 /\ request[r].role = "generate" => Truthful(r, request[r], operation.status, finals)
      /\ faults \in 0..MaxFaults
    BY <1>1, RequestIs DEF Inv, LogFits
<1>3. event \in Event /\ ~Saves(event)
    <2>1. Fallback(request[r].role) \in Steps
        BY StepsAre DEF Fallback, NamedSteps
    <2> QED
        BY <2>1, EventsFit DEF Status, Final, Saves
<1>4. Set(r, answered) \/ Set(r, closing)
    BY DEF FinishRequest
<1> HIDE DEF reply, event
<1>5. /\ answered \in Request /\ answered.role = request[r].role /\ answered.at = "done"
      /\ answered.phase = "work" /\ answered.queue = <<>> /\ answered.saved = request[r].saved
      /\ answered.reply = reply
    BY <1>1, <1>2, EndedFits
<1>6. request[r].queue = <<>> /\ request[r].reply = "none" /\ operation.status # "absent"
    BY <1>1, <1>2 DEF LocalFits
<1>7. faults = 0 /\ request[r].role = "generate" =>
        /\ reply = "ok" => Terminal(operation.status)
        /\ operation.status = "failed" /\ Owns(r, finals) => reply = "failed"
    BY <1>1, <1>2, <1>6 DEF Truthful, Closes
<1> HIDE DEF answered
<1>8. CASE Set(r, answered)
    <2>1. LocalFits(r, answered, operation.status)
        BY <1>1, <1>2, <1>5, <1>6 DEF LocalFits, GeneratePoints
    <2>2. faults = 0 /\ answered.role = "generate" => Truthful(r, answered, operation.status, finals)
        BY <1>1, <1>5, <1>7 DEF Truthful
    <2> QED
        BY <1>1, <1>2, <1>5, <1>8, <2>1, <2>2, SetInv DEF Rests, Gated
<1>9. CASE Set(r, closing)
    <2>1. <<event>> \in Seq(Event) /\ <<event>> # <<>> /\ \A i \in DOMAIN <<event>> : ~Saves(<<event>>[i])
        BY <1>3, OneEvent
    <2> DEFINE events == <<event>>
    <2>2. events \in Seq(Event) /\ events # <<>> /\ \A i \in DOMAIN events : ~Saves(events[i])
        BY <2>1
    <2> HIDE DEF events
    <2>3. /\ queued \in Request /\ queued.queue = events /\ queued.phase = "read"
          /\ queued.role = request[r].role /\ queued.at = "done" /\ queued.saved = request[r].saved
          /\ queued.reply = reply
        BY <1>5, <2>2, QueueFits DEF events
    <2> HIDE DEF queued
    <2>4. /\ closing \in Request /\ closing.queue = events /\ closing.phase = "read"
          /\ closing.role = request[r].role /\ closing.at = "done" /\ closing.saved = request[r].saved
          /\ closing.reply = reply
        BY <2>3 DEF Request
    <2> HIDE DEF closing
    <2>5. LocalFits(r, closing, operation.status)
        BY <1>1, <1>2, <1>6, <2>2, <2>4 DEF LocalFits, GeneratePoints
    <2>6. faults = 0 /\ closing.role = "generate" => Truthful(r, closing, operation.status, finals)
        BY <1>1, <1>7, <2>4 DEF Truthful
    <2> QED
        BY <1>1, <1>2, <1>9, <2>4, <2>5, <2>6, SetInv DEF Rests, Gated
<1> QED
    BY <1>4, <1>8, <1>9

LEMMA WorkStepInv == ASSUME Inv, NEW r \in Requests, Work(r), UNCHANGED faults PROVE Inv'
<1>1. Rests
    BY DEF Work, Rests
<1> QED
    BY <1>1, SkipRefreshInv, LoadEvidenceInv, CheckCompletionInv, SynthesizeInv, SaveInv,
       SettleMemoryInv, RequireInv, LoadContextInv, DraftQuestionsInv, DraftProblemInv, PickStepInv,
       FinishRequestInv DEF Work

-----------------------------------------------------------------------------
(* Reports.                                                                *)

\* The first event of a queue, and what is left behind it.
LEMMA TailFits ==
    ASSUME NEW queue \in Seq(Event), queue # <<>>
    PROVE  /\ Head(queue) \in Event /\ Head(queue) = queue[1] /\ 1 \in DOMAIN queue
           /\ Tail(queue) \in Seq(Event) /\ (Tail(queue) = <<>> <=> Len(queue) = 1)
           /\ \A i \in DOMAIN Tail(queue) : \E j \in DOMAIN queue : Tail(queue)[i] = queue[j]
           /\ Closes(queue) => IF Tail(queue) = <<>> THEN Head(queue).final ELSE Closes(Tail(queue))
<1> DEFINE n == Len(queue)
           m == Len(Tail(queue))
<1>1. /\ Head(queue) \in Event /\ Tail(queue) \in Seq(Event) /\ m = n - 1
      /\ \A i \in 1..m : Tail(queue)[i] = queue[i + 1]
    BY HeadTailProperties
<1>2. n \in Nat /\ n # 0 /\ DOMAIN queue = 1..n /\ m \in Nat /\ DOMAIN Tail(queue) = 1..m
    BY <1>1, LenProperties, EmptySeq
<1>3. Head(queue) = queue[1]
    OBVIOUS
<1>4. Tail(queue) = <<>> <=> m = 0
    BY <1>1, EmptySeq
<1> HIDE DEF n, m
<1>5. 1 \in 1..n /\ (m = 0 <=> n = 1) /\ (\A i \in 1..m : i + 1 \in 1..n)
      /\ (m # 0 => m \in 1..m /\ m + 1 = n)
    BY <1>1, <1>2
<1>6. Closes(queue) => IF Tail(queue) = <<>> THEN Head(queue).final ELSE Closes(Tail(queue))
    <2>1. ASSUME m # 0 PROVE Tail(queue)[m] = queue[n]
        BY <1>1, <1>5, <2>1
    <2> QED
        BY <1>3, <1>4, <1>5, <2>1 DEF Closes, n, m
<1>7. \A i \in DOMAIN Tail(queue) : \E j \in DOMAIN queue : Tail(queue)[i] = queue[j]
    BY <1>1, <1>2, <1>5
<1> QED
    BY <1>1, <1>2, <1>3, <1>4, <1>5, <1>6, <1>7 DEF n

LEMMA ReportedFits ==
    ASSUME NEW local \in Request, local.queue # <<>>
    PROVE  LET l == Reported(local)
           IN  /\ l \in Request /\ l.queue = Tail(local.queue)
               /\ l.phase \in {"work", "read"} /\ (l.phase = "work" <=> l.queue = <<>>)
               /\ l.role = local.role /\ l.reply = local.reply /\ l.saved = local.saved /\ l.at = local.at
<1> DEFINE phase == IF Len(local.queue) = 1 THEN "work" ELSE "read"
           queue == Tail(local.queue)
           l == [local EXCEPT !.queue = queue, !.detached = FALSE, !.read = "queued", !.phase = phase]
<1>1. local.queue \in Seq(Event)
    BY DEF Request
<1>2. /\ queue \in Seq(Event) /\ phase \in {"work", "read"} /\ (phase = "work" <=> queue = <<>>)
    BY <1>1, TailFits
<1>3. Reported(local) = l
    BY DEF Reported
<1> HIDE DEF phase, queue
<1>4. /\ l \in Request /\ l.queue = queue /\ l.phase = phase
      /\ l.role = local.role /\ l.reply = local.reply /\ l.saved = local.saved /\ l.at = local.at
    BY <1>2 DEF Request, Status
<1> HIDE DEF l
<1> QED
    BY <1>2, <1>3, <1>4 DEF queue

(***************************************************************************)
(* A request whose report is made, whatever the row is now: it was not yet *)
(* over, or it stays so.                                                   *)
(***************************************************************************)
LEMMA ReportedLocalFits ==
    ASSUME NEW a \in Actors, NEW local \in Request, NEW status \in Status, NEW now \in Status,
           NEW next \in Request,
           LocalFits(a, local, status), local.queue # <<>>,
           next.queue = Tail(local.queue), next.phase \in {"work", "read"},
           next.phase = "work" <=> next.queue = <<>>,
           next.role = local.role, next.reply = local.reply, next.saved = local.saved,
           next.at = local.at
    PROVE  LocalFits(a, next, now)
<1>1. local.queue \in Seq(Event)
    BY DEF Request
<1>2. \A i \in DOMAIN next.queue : \E j \in DOMAIN local.queue : next.queue[i] = local.queue[j]
    BY <1>1, TailFits
<1>3. local.at # "insert" /\ now # "absent"
    BY StatusesFit DEF LocalFits
<1> QED
    BY <1>2, <1>3 DEF LocalFits

\* The row is over already, or the event that is reported closes it.
LEMMA ReportedTruthful ==
    ASSUME NEW a \in Actors, NEW local \in Request, NEW status \in Status, NEW now \in Status,
           NEW next \in Request, NEW log,
           Truthful(a, local, status, log), local.queue # <<>>,
           next.queue = Tail(local.queue), next.reply = local.reply, next.at = local.at,
           Terminal(status) \/ Head(local.queue).final => Terminal(now),
           now = "failed" /\ Owns(a, log) => local.at = "fail" \/ local.reply = "failed"
    PROVE  Truthful(a, next, now, log)
<1>1. local.queue \in Seq(Event)
    BY DEF Request
<1>2. Spares(local.queue) => Spares(next.queue)
    BY <1>1, TailFits DEF Spares
<1>3. Closes(local.queue) => Terminal(now) \/ Closes(next.queue)
    BY <1>1, TailFits
<1> QED
    BY <1>2, <1>3 DEF Truthful

LEMMA NotReportedFits ==
    ASSUME NEW a \in Actors, NEW local \in Request, NEW status \in Status, NEW now \in Status,
           LocalFits(a, local, status), local.queue # <<>>
    PROVE  LET l == NotReported(local)
           IN  /\ LocalFits(a, l, now) /\ l.saved = local.saved /\ l.role = local.role
               /\ l.at \in Gated => local.at \in Gated
<1> DEFINE l == NotReported(local)
<1>1. CASE local.role \in {"create", "cancel"}
    <2>1. l = Ended(local, "failed")
        BY <1>1 DEF NotReported
    <2> HIDE DEF l
    <2>2. /\ l \in Request /\ l.role = local.role /\ l.at = "done" /\ l.phase = "work"
          /\ l.queue = <<>> /\ l.saved = local.saved /\ l.reply = "failed"
        BY <2>1, EndedFits
    <2> QED
        BY <1>1, <2>2, StatusesFit DEF LocalFits, Gated, l
<1>2. CASE local.role \notin {"create", "cancel"} /\ local.gone /\ ~local.detached
    <2>1. l = [local EXCEPT !.phase = "read", !.detached = TRUE, !.read = "queued"]
        BY <1>2 DEF NotReported
    <2> HIDE DEF l
    <2>2. /\ l \in Request /\ l.role = local.role /\ l.at = local.at /\ l.phase = "read"
          /\ l.queue = local.queue /\ l.saved = local.saved /\ l.reply = local.reply
        BY <2>1 DEF Request, Status
    <2>3. local.at # "insert" /\ now # "absent"
        BY StatusesFit DEF LocalFits
    <2> QED
        BY <2>2, <2>3 DEF LocalFits, l
<1>3. CASE local.role \notin {"create", "cancel"} /\ ~(local.gone /\ ~local.detached)
    <2>1. l = Reported(local)
        BY <1>3 DEF NotReported
    <2> HIDE DEF l
    <2>2. /\ l \in Request /\ l.queue = Tail(local.queue)
          /\ l.phase \in {"work", "read"} /\ (l.phase = "work" <=> l.queue = <<>>)
          /\ l.role = local.role /\ l.reply = local.reply /\ l.saved = local.saved /\ l.at = local.at
        BY <2>1, ReportedFits
    <2>3. LocalFits(a, l, now)
        BY <2>2, ReportedLocalFits
    <2> QED
        BY <2>2, <2>3 DEF l
<1> QED
    BY <1>1, <1>2, <1>3

\* A request in the middle of a report, and the row beside it.
LEMMA ReportingIs ==
    ASSUME Inv, NEW a \in Actors, request[a].phase \in {"read", "append"}
    PROVE  /\ request[a] \in Request /\ request[a].queue # <<>> /\ operation.status \in Status
           /\ LocalFits(a, request[a], operation.status)
           /\ request[a].at # "insert"
           /\ faults \in 0..MaxFaults
<1>1. /\ request[a] \in Request /\ LocalFits(a, request[a], operation.status)
      /\ faults \in 0..MaxFaults /\ operation.status \in Status \union {"absent"}
    BY RequestIs DEF Inv, LogFits
<1>2. request[a].queue # <<>> /\ operation.status # "absent" /\ request[a].at # "insert"
    BY <1>1 DEF LocalFits
<1> QED
    BY <1>1, <1>2

LEMMA ReadStatusInv == ASSUME Inv, NEW a \in Actors, ReadStatus(a), UNCHANGED faults PROVE Inv'
<1> DEFINE status == operation.status
           local == [request[a] EXCEPT !.phase = "append", !.read = status]
<1>1. /\ request[a].phase = "read" /\ Set(a, local) /\ UNCHANGED <<logVars, viewer>>
    BY DEF ReadStatus
<1>2. /\ request[a] \in Request /\ request[a].queue # <<>> /\ status \in Status
      /\ LocalFits(a, request[a], operation.status) /\ faults \in 0..MaxFaults
    BY <1>1, ReportingIs
<1> HIDE DEF status
<1>3. /\ local \in Request /\ local.phase = "append" /\ local.read = status
      /\ local.queue = request[a].queue /\ local.role = request[a].role /\ local.at = request[a].at
      /\ local.reply = request[a].reply /\ local.saved = request[a].saved
    BY <1>2 DEF Request
<1> HIDE DEF local
<1>4. LocalFits(a, local, operation.status)
    BY <1>1, <1>2, <1>3, StatusesFit DEF LocalFits, status
<1>5. faults' = 0 /\ local.role = "generate" => Truthful(a, local, operation.status, finals)
    BY <1>3, RequestIs DEF Truthful
<1> QED
    BY <1>1, <1>2, <1>3, <1>4, <1>5, SetInv

\* A report that does not change the row, because it is refused, cancelled or has failed.
LEMMA NotReportedInv ==
    ASSUME Inv, NEW a \in Actors, request[a].phase \in {"read", "append"},
           Set(a, NotReported(request[a])), UNCHANGED <<logVars, viewer>>,
           faults' \in 0..MaxFaults, faults' = 0 => faults = 0,
           \/ faults' # 0
           \/ Terminal(operation.status)
           \/ request[a].gone /\ ~request[a].detached
    PROVE  Inv'
<1> DEFINE local == NotReported(request[a])
<1>1. /\ request[a] \in Request /\ request[a].queue # <<>> /\ operation.status \in Status
      /\ LocalFits(a, request[a], operation.status)
    BY ReportingIs
<1>2. /\ LocalFits(a, local, operation.status) /\ local.saved = request[a].saved
      /\ local.role = request[a].role /\ (local.at \in Gated => request[a].at \in Gated)
    BY <1>1, NotReportedFits
<1>3. ASSUME faults' = 0, local.role = "generate"
      PROVE  Truthful(a, local, operation.status, finals)
    <2>1. Truthful(a, request[a], operation.status, finals) /\ request[a].role = "generate"
        BY <1>2, <1>3, RequestIs
    <2>2. CASE request[a].gone /\ ~request[a].detached
        <3>1. local = [request[a] EXCEPT !.phase = "read", !.detached = TRUE, !.read = "queued"]
            BY <2>1, <2>2 DEF NotReported
        <3> HIDE DEF local
        <3>2. local.at = request[a].at /\ local.queue = request[a].queue /\ local.reply = request[a].reply
            BY <1>1, <3>1 DEF Request
        <3> QED
            BY <2>1, <3>2 DEF Truthful
    <2>3. CASE ~(request[a].gone /\ ~request[a].detached)
        <3>1. local = Reported(request[a]) /\ Terminal(operation.status)
            BY <1>3, <2>1, <2>3 DEF NotReported
        <3>2. local \in Request
            BY <1>2 DEF LocalFits
        <3> HIDE DEF local
        <3>3. /\ local.queue = Tail(request[a].queue) /\ local.at = request[a].at
              /\ local.reply = request[a].reply
            BY <1>1, <3>1, ReportedFits
        <3>4. operation.status = "failed" /\ Owns(a, finals) =>
                request[a].at = "fail" \/ request[a].reply = "failed"
            BY <2>1 DEF Truthful
        <3> QED
            BY <1>1, <2>1, <3>1, <3>2, <3>3, <3>4, ReportedTruthful
    <2> QED
        BY <2>2, <2>3
<1> QED
    BY <1>2, <1>3, SetInv

LEMMA AppendRefusedInv == ASSUME Inv, NEW a \in Actors, AppendRefused(a), UNCHANGED faults PROVE Inv'
<1>1. faults \in 0..MaxFaults
    BY DEF Inv, LogFits
<1> QED
    BY <1>1, NotReportedInv DEF AppendRefused

LEMMA ReportCancelledInv == ASSUME Inv, NEW a \in Actors, ReportCancelled(a), UNCHANGED faults PROVE Inv'
<1>1. faults \in 0..MaxFaults
    BY DEF Inv, LogFits
<1> QED
    BY <1>1, NotReportedInv DEF ReportCancelled

\* A fault is counted.
Faulty == faults' \in 0..MaxFaults /\ faults' # 0

LEMMA ReportFailsInv == ASSUME Inv, NEW a \in Actors, ReportFails(a), Faulty PROVE Inv'
BY NotReportedInv DEF ReportFails, Faulty

-----------------------------------------------------------------------------
(* The append.                                                             *)

(***************************************************************************)
(* An event is appended with the status that was read before the lock: the *)
(* row is not over under the lock, so it was not over when it was read,    *)
(* and its status becomes terminal just when the event is final.           *)
(***************************************************************************)
LEMMA AppendFits ==
    ASSUME Inv, NEW a \in Actors, request[a].phase = "append", Append_(a)
    PROVE  LET event == Head(request[a].queue)
           IN  /\ event \in Event /\ finals = {} /\ ~Terminal(operation.status)
               /\ operation' \in [kind : DOMAIN kindSteps, status : Status \union {"absent"}, last : Nat]
               /\ operation'.kind = operation.kind /\ operation'.status \in Status
               /\ operation.last \in Nat /\ operation'.last = operation.last + 1
               /\ Terminal(operation'.status) <=> event.final
               /\ operation'.status = "failed" => Condemns(event)
               /\ latest' \in [Steps -> Status \union {"none"}]
               /\ latest'["save_profile"] = "succeeded" => Saves(event) \/ latest["save_profile"] = "succeeded"
               /\ finals' = IF event.final THEN {[sequence |-> operation'.last, by |-> a]} ELSE {}
<1> DEFINE event == Head(request[a].queue)
           now == NextStatus(request[a].read, event)
           last == operation.last + 1
<1>1. /\ request[a] \in Request /\ request[a].queue # <<>> /\ operation.status \in Status
      /\ LocalFits(a, request[a], operation.status)
    BY ReportingIs
<1>2. event \in Event
    BY <1>1, TailFits DEF Request
<1>3. /\ ~Terminal(operation.status)
      /\ operation' = [operation EXCEPT !.status = now, !.last = last]
      /\ latest' = [latest EXCEPT ![event.step] = event.status]
      /\ finals' = IF event.final THEN finals \union {[sequence |-> last, by |-> a]} ELSE finals
    <2>1. ~Terminal(operation.status)
          /\ latest' = [latest EXCEPT ![event.step] = event.status]
          /\ finals' = IF event.final THEN finals \union {[sequence |-> last, by |-> a]} ELSE finals
        BY DEF Append_
    <2>2. operation' = [operation EXCEPT !.status = now, !.last = @ + 1]
        BY DEF Append_
    <2> QED
        BY <2>1, <2>2
<1>4. finals = {}
    BY <1>3 DEF Inv, LogFits, OneFinalEvent
<1>5. request[a].read \in Status /\ ~Terminal(request[a].read)
    BY <1>1, <1>3 DEF LocalFits, Request
<1>6. /\ now \in Status /\ (Terminal(now) <=> event.final) /\ (now = "failed" => Condemns(event))
    BY <1>2, <1>5 DEF NextStatus, Status, Terminal, Condemns, Event
<1>7. /\ operation \in [kind : DOMAIN kindSteps, status : Status \union {"absent"}, last : Nat]
      /\ latest \in [Steps -> Status \union {"none"}]
      /\ operation.last \in Nat /\ last \in Nat
    BY DEF Inv, LogFits
<1>8. /\ latest' \in [Steps -> Status \union {"none"}]
      /\ latest'["save_profile"] = "succeeded" => Saves(event) \/ latest["save_profile"] = "succeeded"
    <2>1. event.step \in Steps /\ event.status \in Status
        BY <1>2 DEF Event
    <2>2. "save_profile" \in Steps
        BY StepsAre DEF NamedSteps
    <2> HIDE DEF event
    <2> QED
        BY <1>3, <1>7, <2>1, <2>2 DEF Saves
<1> HIDE DEF event, now, last
<1>9. /\ operation' \in [kind : DOMAIN kindSteps, status : Status \union {"absent"}, last : Nat]
      /\ operation'.kind = operation.kind /\ operation'.status = now /\ operation'.last = last
    BY <1>3, <1>6, <1>7
<1> QED
    BY <1>2, <1>3, <1>4, <1>6, <1>7, <1>8, <1>9 DEF event, last

\* The other requests, when the row that was not over gets one more event.
LEMMA OthersFit ==
    ASSUME NEW a \in Actors, NEW b \in Actors, NEW local, NEW status \in Status, NEW now \in Status, NEW log,
           a # b, ~Terminal(status), LocalFits(b, local, status),
           \A event \in log : event.by = a
    PROVE  /\ LocalFits(b, local, now)
           /\ Truthful(b, local, status, {}) => Truthful(b, local, now, log)
<1>1. now # "absent" /\ status # "absent"
    BY StatusesFit
<1>2. LocalFits(b, local, now)
    BY <1>1 DEF LocalFits
<1>3. ~Owns(b, log)
    BY DEF Owns
<1> QED
    BY <1>2, <1>3 DEF Truthful

LEMMA AppendInv ==
    ASSUME Inv, NEW a \in Actors, request[a].phase = "append", Append_(a),
           NEW local, Set(a, local), LocalFits(a, local, operation'.status),
           faults' \in 0..MaxFaults, faults' = 0 => faults = 0,
           faults' = 0 /\ local.role = "generate" => Truthful(a, local, operation'.status, finals'),
           request[a].saved => local.saved,
           local.at \in Gated => request[a].at \in Gated
    PROVE  Inv'
<1> DEFINE event == Head(request[a].queue)
<1>1. /\ request[a] \in Request /\ request[a].queue # <<>> /\ operation.status \in Status
      /\ LocalFits(a, request[a], operation.status)
    BY ReportingIs
<1>2. /\ event \in Event /\ finals = {} /\ ~Terminal(operation.status)
      /\ operation' \in [kind : DOMAIN kindSteps, status : Status \union {"absent"}, last : Nat]
      /\ operation'.kind = operation.kind /\ operation'.status \in Status
      /\ operation.last \in Nat /\ operation'.last = operation.last + 1
      /\ Terminal(operation'.status) <=> event.final
      /\ latest' \in [Steps -> Status \union {"none"}]
      /\ latest'["save_profile"] = "succeeded" => Saves(event) \/ latest["save_profile"] = "succeeded"
      /\ finals' = IF event.final THEN {[sequence |-> operation'.last, by |-> a]} ELSE {}
    BY AppendFits
<1>3. Saves(event) => Updated
    <2>1. 1 \in DOMAIN request[a].queue /\ event = request[a].queue[1]
        BY <1>1, TailFits DEF Request
    <2>2. Saves(event) => a # Creator /\ request[a].saved
        BY <1>1, <2>1 DEF LocalFits
    <2> QED
        BY <2>2 DEF Updated, Actors
<1> HIDE DEF event
<1>4. local \in Request
    BY DEF LocalFits
<1>5. /\ request' \in [Actors -> Request]
      /\ request'[a] = local /\ \A b \in Actors \ {a} : request'[b] = request[b]
    BY <1>4, SetFits
<1>6. RequestsFit'
    <2>1. \A e \in finals' : e.by = a
        BY <1>2
    <2>2. ASSUME NEW b \in Actors
          PROVE  /\ LocalFits(b, request'[b], operation'.status)
                 /\ faults' = 0 /\ request'[b].role = "generate"
                      => Truthful(b, request'[b], operation'.status, finals')
        <3>1. CASE b = a
            BY <1>5, <3>1
        <3>2. CASE b # a
            <4>1. /\ LocalFits(b, request[b], operation.status)
                  /\ faults = 0 /\ request[b].role = "generate"
                       => Truthful(b, request[b], operation.status, {})
                BY <1>2, RequestIs
            <4>2. request'[b] = request[b]
                BY <1>5, <3>2
            <4> DEFINE mine == request[b]
                       before == operation.status
                       now == operation'.status
                       log == finals'
            <4>3. /\ before \in Status /\ now \in Status /\ ~Terminal(before)
                  /\ LocalFits(b, mine, before) /\ \A e \in log : e.by = a
                BY <1>1, <1>2, <2>1, <4>1
            <4> HIDE DEF mine, before, now, log
            <4>4. /\ LocalFits(b, mine, now)
                  /\ Truthful(b, mine, before, {}) => Truthful(b, mine, now, log)
                BY <3>2, <4>3, OthersFit
            <4> QED
                BY <4>1, <4>2, <4>4 DEF mine, before, now, log
        <3> QED
            BY <3>1, <3>2
    <2> QED
        BY <1>5, <2>2 DEF RequestsFit
<1>7. LogFits'
    <2>1. finals' \in SUBSET [sequence : Nat, by : Actors] /\ \A e \in finals' : e.sequence = operation'.last
        BY <1>2
    <2>2. finals' # {} <=> event.final
        BY <1>2
    <2>3. deployment' = deployment
        BY DEF Append_
    <2> QED
        BY <1>2, <2>1, <2>2, <2>3 DEF Inv, LogFits, OneFinalEvent
<1>8. StreamFits'
    <2>1. viewer' = viewer
        BY DEF Append_
    <2>2. viewer \in Viewer /\ viewer.got <= viewer.sent /\ viewer.sent <= operation.last /\ ~ViewerAt("ended")
        BY <1>2 DEF Inv, StreamFits, StreamsAreComplete
    <2>3. viewer.sent \in Nat
        BY <2>2 DEF Viewer
    <2>4. viewer.sent <= operation'.last
        BY <1>2, <2>2, <2>3
    <2> QED
        BY <2>1, <2>2, <2>4 DEF StreamFits, StreamsAreComplete, ViewerAt
<1>9. GateFits'
    <2>1. Updated => Updated'
        BY <1>4, UpdatedStays
    <2>2. ASSUME operation.kind = "mcq_next_round", NEW r \in Requests, request'[r].at \in Gated
          PROVE  Updated
        <3>1. r \in Actors
            BY DEF Actors
        <3> QED
            BY <1>5, <2>2, <3>1 DEF Inv, GateFits
    <2> QED
        BY <1>2, <1>3, <2>1, <2>2 DEF Inv, GateFits
<1> QED
    BY <1>6, <1>7, <1>8, <1>9 DEF Inv

LEMMA AppendEventInv == ASSUME Inv, NEW a \in Actors, AppendEvent(a), UNCHANGED faults PROVE Inv'
<1> DEFINE event == Head(request[a].queue)
           now == operation'.status
           reported == Reported(request[a])
           local == [reported EXCEPT !.cached = now]
<1>1. request[a].phase = "append" /\ Append_(a) /\ Set(a, local)
    BY DEF AppendEvent
<1>2. /\ request[a] \in Request /\ request[a].queue # <<>> /\ operation.status \in Status
      /\ LocalFits(a, request[a], operation.status) /\ faults \in 0..MaxFaults
    BY <1>1, ReportingIs
<1>3. /\ event \in Event /\ finals = {} /\ ~Terminal(operation.status) /\ now \in Status
      /\ Terminal(now) <=> event.final
      /\ now = "failed" => Condemns(event)
    BY <1>1, AppendFits
<1>4. /\ reported \in Request /\ reported.queue = Tail(request[a].queue)
      /\ reported.phase \in {"work", "read"} /\ (reported.phase = "work" <=> reported.queue = <<>>)
      /\ reported.role = request[a].role /\ reported.reply = request[a].reply
      /\ reported.saved = request[a].saved /\ reported.at = request[a].at
    BY <1>2, ReportedFits
<1> HIDE DEF reported, now
<1>5. /\ local \in Request /\ local.queue = Tail(request[a].queue)
      /\ local.phase \in {"work", "read"} /\ (local.phase = "work" <=> local.queue = <<>>)
      /\ local.role = request[a].role /\ local.reply = request[a].reply
      /\ local.saved = request[a].saved /\ local.at = request[a].at
    BY <1>3, <1>4 DEF Request
<1> HIDE DEF local
<1>6. LocalFits(a, local, now)
    BY <1>2, <1>3, <1>5, ReportedLocalFits
<1>7. ASSUME faults' = 0, local.role = "generate"
      PROVE  Truthful(a, local, now, finals')
    <2>1. Truthful(a, request[a], operation.status, finals)
        BY <1>5, <1>7, RequestIs
    <2>2. now = "failed" => request[a].at = "fail" \/ request[a].reply = "failed"
        <3>1. ASSUME now = "failed" PROVE ~Spares(request[a].queue)
            BY <1>2, <1>3, <3>1, TailFits DEF Spares, Request
        <3>2. ASSUME now = "failed" PROVE request[a].at \in {"fail", "done"}
            BY <2>1, <3>1, <3>2 DEF Truthful
        <3>3. ASSUME request[a].at = "done" PROVE request[a].reply = "failed"
            BY <1>2, <1>3, <2>1, <3>3 DEF Truthful, Request
        <3> QED
            BY <3>2, <3>3
    <2>3. Truthful(a, request[a], operation.status, finals')
        BY <1>3, <2>1 DEF Truthful, Terminal
    <2> QED
        BY <1>2, <1>3, <1>5, <2>2, <2>3, ReportedTruthful
<1> QED
    BY <1>1, <1>2, <1>5, <1>6, <1>7, AppendInv DEF now

LEMMA AppendUnseenInv == ASSUME Inv, NEW a \in Actors, AppendUnseen(a), Faulty PROVE Inv'
<1> DEFINE local == NotReported(request[a])
<1>1. request[a].phase = "append" /\ Append_(a) /\ Set(a, local)
    BY DEF AppendUnseen
<1>2. /\ request[a] \in Request /\ request[a].queue # <<>> /\ operation.status \in Status
      /\ LocalFits(a, request[a], operation.status)
    BY <1>1, ReportingIs
<1>3. operation'.status \in Status
    BY <1>1, AppendFits
<1>4. /\ LocalFits(a, local, operation'.status) /\ local.saved = request[a].saved
      /\ local.at \in Gated => request[a].at \in Gated
    BY <1>2, <1>3, NotReportedFits
<1> HIDE DEF local
<1> QED
    BY <1>1, <1>4, AppendInv DEF Faulty

-----------------------------------------------------------------------------
(* Creating, attaching, leaving and dying.                                 *)

LEMMA CreatorIs == Creator \in Actors /\ (\A r \in Requests : r \in Actors /\ r # Creator)
BY WorkflowAssumption DEF Actors

LEMMA InsertInv == ASSUME Inv, Insert, UNCHANGED faults PROVE Inv'
<1> DEFINE steps == kindSteps[operation.kind]
           events == [i \in DOMAIN steps |-> Ev(steps[i], "queued")]
           local == [Queue(request[Creator], events) EXCEPT !.at = "issue"]
<1>1. /\ request[Creator].at = "insert" /\ Set(Creator, local)
      /\ operation' = [operation EXCEPT !.status = "queued"]
      /\ deployment' = deployment /\ latest' = latest /\ finals' = finals /\ viewer' = viewer
    BY DEF Insert, At
<1>2. /\ request[Creator] \in Request /\ LocalFits(Creator, request[Creator], operation.status)
      /\ operation.status = "absent" /\ "issue" \in Points
    BY <1>1, CreatorIs, RequestIs DEF LocalFits, Points
<1>3. /\ operation \in [kind : DOMAIN kindSteps, status : Status \union {"absent"}, last : Nat]
      /\ operation'.kind = operation.kind /\ operation'.last = operation.last
      /\ operation'.status = "queued" /\ faults \in 0..MaxFaults
      /\ operation' \in [kind : DOMAIN kindSteps, status : Status \union {"absent"}, last : Nat]
    BY <1>1 DEF Inv, LogFits, Status
<1>4. events \in Seq(Event) /\ \A i \in DOMAIN events : ~Saves(events[i])
    <2>1. /\ steps \in Seq(Steps) /\ Len(steps) \in Nat /\ DOMAIN steps = 1..Len(steps)
          /\ \A i \in 1..Len(steps) : steps[i] \in Steps
        BY <1>3, KindStepsFit, LenProperties
    <2>2. \A step \in Steps : Ev(step, "queued") \in Event /\ ~Saves(Ev(step, "queued"))
        BY EventsFit DEF Status, Ev, Saves
    <2> HIDE DEF steps
    <2>3. events \in [1..Len(steps) -> Event]
        BY <2>1, <2>2
    <2>4. events \in Seq(Event)
        BY <2>1, <2>3, SeqDef
    <2> QED
        BY <2>1, <2>2, <2>4
<1> HIDE DEF events
<1>5. /\ local \in Request
      /\ local.queue = events /\ local.phase \in {"work", "read"} /\ (local.phase = "work" <=> events = <<>>)
      /\ local.role = request[Creator].role /\ local.reply = request[Creator].reply
      /\ local.saved = request[Creator].saved /\ local.at = "issue"
    BY <1>2, <1>4, GoesOnFits
<1> HIDE DEF local
<1>6. /\ request' \in [Actors -> Request]
      /\ request'[Creator] = local /\ \A b \in Actors \ {Creator} : request'[b] = request[b]
    BY <1>1, <1>5, CreatorIs, SetFits
<1>7. RequestsFit'
    <2>1. LocalFits(Creator, local, "queued") /\ local.role = "create"
        BY <1>1, <1>2, <1>4, <1>5, CreatorIs DEF LocalFits
    <2>2. ASSUME NEW b \in Actors, b # Creator
          PROVE  /\ LocalFits(b, request[b], "queued")
                 /\ faults = 0 /\ request[b].role = "generate"
                      => Truthful(b, request[b], "queued", finals)
        <3>1. /\ LocalFits(b, request[b], "absent")
              /\ faults = 0 /\ request[b].role = "generate"
                   => Truthful(b, request[b], "absent", finals)
            BY <1>2, RequestIs
        <3>2. /\ request[b].queue = <<>> /\ request[b].phase = "work"
              /\ request[b].at \in {"idle", "insert", "dead"} /\ request[b].at # "insert"
            BY <2>2, <3>1 DEF LocalFits
        <3>3. LocalFits(b, request[b], "queued")
            BY <3>1, <3>2 DEF LocalFits
        <3>4. Truthful(b, request[b], "absent", finals) => Truthful(b, request[b], "queued", finals)
            BY <3>2 DEF Truthful
        <3> QED
            BY <3>1, <3>3, <3>4
    <2>3. ASSUME NEW b \in Actors
          PROVE  /\ LocalFits(b, request'[b], operation'.status)
                 /\ faults' = 0 /\ request'[b].role = "generate"
                      => Truthful(b, request'[b], operation'.status, finals')
        <3>1. CASE b = Creator
            BY <1>3, <1>6, <2>1, <3>1
        <3>2. CASE b # Creator
            BY <1>1, <1>3, <1>6, <2>2, <3>2
        <3> QED
            BY <3>1, <3>2
    <2> QED
        BY <1>6, <2>3 DEF RequestsFit
<1>8. LogFits' /\ StreamFits'
    <2>1. ~Terminal(operation.status) /\ ~Terminal(operation'.status)
        BY <1>2, <1>3 DEF Terminal
    <2>2. finals = {} /\ viewer.at # "ended"
        BY <2>1 DEF Inv, LogFits, OneFinalEvent, StreamFits, StreamsAreComplete, ViewerAt
    <2>3. LogFits'
        BY <1>1, <1>3, <2>1, <2>2 DEF Inv, LogFits, OneFinalEvent
    <2>4. StreamFits'
        BY <1>1, <1>3, <2>2 DEF Inv, StreamFits, StreamsAreComplete, ViewerAt
    <2> QED
        BY <2>3, <2>4
<1>9. GateFits'
    <2>1. Updated => Updated'
        BY <1>1, <1>5, CreatorIs, UpdatedStays
    <2>2. ASSUME operation.kind = "mcq_next_round", NEW r \in Requests, request'[r].at \in Gated
          PROVE  Updated
        BY <1>6, <2>2, CreatorIs DEF Inv, GateFits
    <2> QED
        BY <1>1, <1>3, <2>1, <2>2 DEF Inv, GateFits
<1> QED
    BY <1>7, <1>8, <1>9 DEF Inv

LEMMA IssueTokenInv ==
    ASSUME Inv, NEW reply \in {"ok", "failed"}, IssueToken(reply),
           faults' \in 0..MaxFaults, faults' = 0 => faults = 0
    PROVE  Inv'
<1> DEFINE local == Ended(request[Creator], reply)
<1>1. request[Creator].at = "issue" /\ Set(Creator, local) /\ UNCHANGED <<logVars, viewer>>
    BY DEF IssueToken, At
<1>2. /\ request[Creator] \in Request /\ LocalFits(Creator, request[Creator], operation.status)
    BY CreatorIs, RequestIs
<1>3. /\ local \in Request /\ local.role = request[Creator].role /\ local.at = "done"
      /\ local.phase = "work" /\ local.queue = <<>> /\ local.saved = request[Creator].saved
      /\ local.reply = reply
    BY <1>2, EndedFits
<1> HIDE DEF local
<1>4. LocalFits(Creator, local, operation.status) /\ local.role = "create"
    BY <1>1, <1>2, <1>3 DEF LocalFits
<1> QED
    BY <1>1, <1>3, <1>4, CreatorIs, SetInv DEF Gated

LEMMA AttachInv ==
    ASSUME Inv, NEW r \in Requests, NEW role \in {"maintain", "generate", "cancel"},
           Attach(r, role), UNCHANGED faults
    PROVE  Inv'
<1> DEFINE fresh == Fresh(role, FirstPoint(role))
           status == operation.status
           local == [fresh EXCEPT !.cached = status]
<1>1. /\ request[Creator].reply = "ok" /\ request[r].at = "idle" /\ ~Terminal(operation.status)
      /\ Set(r, local) /\ UNCHANGED <<logVars, viewer>>
    BY DEF Attach, Published, At
<1>2. /\ LocalFits(Creator, request[Creator], operation.status)
      /\ LocalFits(r, request[r], operation.status)
      /\ operation.status \in Status \union {"absent"} /\ faults \in 0..MaxFaults
    BY CreatorIs, RequestIs DEF Inv, LogFits
<1>3. status \in Status /\ status # "absent"
    BY <1>1, <1>2, StatusesFit DEF LocalFits
<1>4. /\ FirstPoint(role) \in Points \ {"idle", "insert", "issue", "ok", "fail", "done", "dead"}
      /\ role = "generate" => FirstPoint(role) \in GeneratePoints
      /\ FirstPoint(role) \in Gated => operation.kind # "mcq_next_round"
    BY DEF FirstPoint, Points, GeneratePoints, Gated
<1>5. /\ fresh \in Request /\ fresh.role = role /\ fresh.at = FirstPoint(role)
      /\ fresh.phase = "work" /\ fresh.queue = <<>> /\ ~fresh.saved /\ fresh.reply = "none"
    BY <1>4, FreshFits
<1> HIDE DEF fresh, status
<1>6. /\ local \in Request /\ local.role = role /\ local.at = FirstPoint(role)
      /\ local.phase = "work" /\ local.queue = <<>> /\ ~local.saved /\ local.reply = "none"
    BY <1>3, <1>5 DEF Request
<1> HIDE DEF local
<1>7. LocalFits(r, local, operation.status)
    BY <1>3, <1>4, <1>6, CreatorIs DEF LocalFits, status
<1>8. Truthful(r, local, operation.status, finals)
    BY <1>1, <1>4, <1>6 DEF Truthful, Spares, Terminal
<1>9. ~request[r].saved
    BY <1>1, <1>2 DEF LocalFits
<1> QED
    BY <1>1, <1>2, <1>4, <1>6, <1>7, <1>8, <1>9, CreatorIs, SetInv

LEMMA LeaveInv == ASSUME Inv, NEW r \in Requests, Leave(r), UNCHANGED faults PROVE Inv'
<1> DEFINE local == [request[r] EXCEPT !.gone = TRUE]
<1>1. Set(r, local) /\ UNCHANGED <<logVars, viewer>>
    BY DEF Leave
<1>2. /\ request[r] \in Request /\ LocalFits(r, request[r], operation.status)
      /\ faults = 0 /\ request[r].role = "generate" => Truthful(r, request[r], operation.status, finals)
      /\ faults \in 0..MaxFaults
    BY CreatorIs, RequestIs DEF Inv, LogFits
<1>3. /\ local \in Request /\ local.role = request[r].role /\ local.at = request[r].at
      /\ local.phase = request[r].phase /\ local.queue = request[r].queue
      /\ local.read = request[r].read /\ local.saved = request[r].saved /\ local.reply = request[r].reply
    BY <1>2 DEF Request
<1> HIDE DEF local
<1>4. LocalFits(r, local, operation.status)
    BY <1>2, <1>3 DEF LocalFits
<1>5. faults = 0 /\ local.role = "generate" => Truthful(r, local, operation.status, finals)
    BY <1>2, <1>3 DEF Truthful
<1> QED
    BY <1>1, <1>2, <1>3, <1>4, <1>5, CreatorIs, SetInv

LEMMA DieInv == ASSUME Inv, NEW a \in Actors, Die(a), Faulty PROVE Inv'
<1> DEFINE ended == Ended(request[a], request[a].reply)
           local == [ended EXCEPT !.at = "dead"]
<1>1. Set(a, local) /\ UNCHANGED <<logVars, viewer>>
    BY DEF Die
<1>2. request[a] \in Request /\ LocalFits(a, request[a], operation.status)
    BY RequestIs
<1>3. request[a].reply \in {"none", "ok", "failed"}
    BY <1>2 DEF Request
<1>4. /\ ended \in Request /\ ended.role = request[a].role /\ ended.phase = "work"
      /\ ended.queue = <<>> /\ ended.saved = request[a].saved /\ ended.reply = request[a].reply
    BY <1>2, <1>3, EndedFits
<1> HIDE DEF ended
<1>5. /\ local \in Request /\ local.role = request[a].role /\ local.at = "dead" /\ local.phase = "work"
      /\ local.queue = <<>> /\ local.saved = request[a].saved /\ local.reply = request[a].reply
    BY <1>4 DEF Request, Points
<1> HIDE DEF local
<1>6. LocalFits(a, local, operation.status)
    BY <1>2, <1>5 DEF LocalFits, GeneratePoints
<1> QED
    BY <1>1, <1>5, <1>6, SetInv DEF Faulty, Gated

-----------------------------------------------------------------------------
(* The stream, and all steps together.                                     *)

\* A step of the stream: the log and the requests stay.
LEMMA ViewerInv ==
    ASSUME Inv, UNCHANGED <<logVars, request, faults>>,
           viewer' \in Viewer, viewer'.got <= viewer'.sent, viewer'.sent <= operation.last,
           viewer'.at = "ended" => Terminal(operation.status) /\ viewer'.got = operation.last
    PROVE  Inv'
<1>1. /\ deployment' = deployment /\ operation' = operation /\ latest' = latest /\ finals' = finals
      /\ request' = request /\ faults' = faults
    BY DEF logVars
<1>2. RequestsFit'
    BY <1>1 DEF Inv, RequestsFit
<1>3. LogFits'
    BY <1>1 DEF Inv, LogFits, OneFinalEvent
<1>4. StreamFits'
    BY <1>1 DEF StreamFits, StreamsAreComplete, ViewerAt
<1>5. GateFits'
    BY <1>1 DEF Inv, GateFits, Updated
<1> QED
    BY <1>2, <1>3, <1>4, <1>5 DEF Inv

LEMMA StreamInv == ASSUME Inv, Stream PROVE Inv'
<1>1. /\ viewer \in Viewer /\ viewer.got <= viewer.sent /\ viewer.sent <= operation.last
      /\ operation.last \in Nat
    BY DEF Inv, StreamFits, LogFits
<1>2. viewer.sent \in Nat /\ viewer.got \in Nat /\ viewer.reconnects \in Nat
    BY <1>1 DEF Viewer
<1> DEFINE got == viewer.got
           sent == viewer.sent
           last == operation.last
<1>3. got \in Nat /\ sent \in Nat /\ last \in Nat /\ got <= sent /\ sent <= last /\ got <= last
    BY <1>1, <1>2
<1> HIDE DEF got, sent, last
<1>4. CASE OpenStream /\ UNCHANGED faults
    <2>1. viewer' = [viewer EXCEPT !.at = "list", !.sent = got] /\ UNCHANGED <<logVars, request, faults>>
        BY <1>4 DEF OpenStream, got
    <2>2. viewer' \in Viewer /\ viewer'.at = "list" /\ viewer'.sent = got /\ viewer'.got = got
        BY <1>1, <1>3, <2>1 DEF Viewer, got
    <2> QED
        BY <1>3, <2>1, <2>2, ViewerInv DEF last
<1>5. CASE SendEvents /\ UNCHANGED faults
    <2>1. viewer' = [viewer EXCEPT !.at = "check", !.sent = last] /\ UNCHANGED <<logVars, request, faults>>
        BY <1>5 DEF SendEvents, last
    <2>2. viewer' \in Viewer /\ viewer'.at = "check" /\ viewer'.sent = last /\ viewer'.got = got
        BY <1>1, <1>3, <2>1 DEF Viewer, got
    <2> QED
        BY <1>3, <2>1, <2>2, ViewerInv DEF last
<1>6. CASE CheckEnd /\ UNCHANGED faults
    <2>1. UNCHANGED <<logVars, request, faults>>
        BY <1>6 DEF CheckEnd
    <2>2. CASE Over /\ viewer' = [viewer EXCEPT !.at = "ended", !.got = sent]
        <3>1. viewer' \in Viewer /\ viewer'.at = "ended" /\ viewer'.sent = sent /\ viewer'.got = sent
            BY <1>1, <1>3, <2>2 DEF Viewer, sent
        <3>2. Terminal(operation.status) /\ sent >= last
            BY <2>2 DEF Over, sent, last
        <3>3. sent = last /\ sent <= sent
            BY <1>3, <3>2
        <3> QED
            BY <1>3, <2>1, <3>1, <3>2, <3>3, ViewerInv DEF last
    <2>3. CASE viewer' = [viewer EXCEPT !.at = "list"]
        <3>1. viewer' \in Viewer /\ viewer'.at = "list" /\ viewer'.sent = sent /\ viewer'.got = got
            BY <1>1, <2>3 DEF Viewer, sent, got
        <3> QED
            BY <1>3, <2>1, <3>1, ViewerInv DEF last
    <2> QED
        BY <1>6, <2>2, <2>3 DEF CheckEnd, sent
<1>7. CASE DropStream /\ UNCHANGED faults
    <2> DEFINE reconnects == viewer.reconnects + 1
    <2>1. PICK seen \in got..sent :
            viewer' = [viewer EXCEPT !.reconnects = reconnects, !.got = seen,
                                     !.at = IF reconnects >= MaxReconnects THEN "fallback" ELSE "off"]
        BY <1>7 DEF DropStream, got, sent
    <2> DEFINE at == IF reconnects >= MaxReconnects THEN "fallback" ELSE "off"
    <2>2. reconnects \in Nat /\ at \in {"fallback", "off"} /\ seen \in Nat /\ seen <= sent
        BY <1>2, <1>3
    <2>3. viewer' = [viewer EXCEPT !.reconnects = reconnects, !.got = seen, !.at = at]
        BY <2>1
    <2> HIDE DEF reconnects, at
    <2>4. viewer' \in Viewer /\ viewer'.at = at /\ viewer'.sent = sent /\ viewer'.got = seen
        BY <1>1, <2>2, <2>3 DEF Viewer, sent
    <2>5. UNCHANGED <<logVars, request, faults>>
        BY <1>7 DEF DropStream
    <2> QED
        BY <1>3, <2>2, <2>4, <2>5, ViewerInv DEF last
<1> QED
    BY <1>4, <1>5, <1>6, <1>7 DEF Stream

LEMMA StepInv == ASSUME Inv, NEW a \in Actors, Step(a) PROVE Inv'
<1>1. faults \in 0..MaxFaults /\ faults' = faults
    BY DEF Inv, LogFits, Step
<1>2. CASE a = Creator /\ Insert
    BY <1>1, <1>2, InsertInv
<1>3. CASE a = Creator /\ IssueToken("ok")
    BY <1>1, <1>3, IssueTokenInv
<1>4. CASE a # Creator /\ Work(a)
    BY <1>1, <1>4, WorkStepInv DEF Actors
<1>5. CASE Report(a)
    BY <1>1, <1>5, ReadStatusInv, AppendEventInv, AppendRefusedInv, ReportCancelledInv DEF Report
<1> QED
    BY <1>2, <1>3, <1>4, <1>5 DEF Step

LEMMA FaultInv == ASSUME Inv, Fault PROVE Inv'
<1>1. Faulty
    <2>1. faults \in 0..MaxFaults /\ MaxFaults \in Nat /\ faults < MaxFaults /\ faults' = faults + 1
        BY WorkflowAssumption DEF Inv, LogFits, Fault
    <2> QED
        BY <2>1 DEF Faulty
<1>2. CASE IssueToken("failed")
    BY <1>1, <1>2, IssueTokenInv DEF Faulty
<1>3. CASE \E a \in Actors : ReportFails(a) \/ AppendUnseen(a) \/ Die(a)
    BY <1>1, <1>3, ReportFailsInv, AppendUnseenInv, DieInv
<1> QED
    BY <1>2, <1>3 DEF Fault

LEMMA NextInv == ASSUME Inv, [Next]_workflowVars PROVE Inv'
<1>1. CASE \E a \in Actors : Step(a)
    BY <1>1, StepInv
<1>2. CASE \E r \in Requests, role \in {"maintain", "generate", "cancel"} :
            Attach(r, role) /\ UNCHANGED faults
    BY <1>2, AttachInv
<1>3. CASE \E r \in Requests : Leave(r) /\ UNCHANGED faults
    BY <1>3, LeaveInv
<1>4. CASE Stream
    BY <1>4, StreamInv
<1>5. CASE Fault
    BY <1>5, FaultInv
<1>6. CASE UNCHANGED workflowVars
    <2>1. UNCHANGED <<logVars, request, faults>> /\ viewer' = viewer
        BY <1>6 DEF workflowVars, logVars
    <2> QED
        BY <2>1, ViewerInv DEF Inv, StreamFits, StreamsAreComplete, ViewerAt
<1> QED
    BY <1>1, <1>2, <1>3, <1>4, <1>5, <1>6 DEF Next

-----------------------------------------------------------------------------
(* The theorems.                                                           *)

(***************************************************************************)
(* What the log, the stream and the local states of the requests know of   *)
(* each other holds in every reachable state (workflow/service.go,         *)
(* appendScoped; api/handlers/generate.go): it is inductive, and the other *)
(* theorems follow from it.                                                *)
(***************************************************************************)
THEOREM WorkflowInvariant == Spec => []Inv
<1>1. Init => Inv
    BY InitInv
<1>2. Inv /\ [Next]_workflowVars => Inv'
    BY NextInv
<1> QED
    BY <1>1, <1>2, PTL DEF Spec

(***************************************************************************)
(* The log has at most one final event, which is its last one and is there *)
(* just when the row is over, however many requests report to it at once   *)
(* with a status they read before the lock (appendScoped, AppendEvent).    *)
(***************************************************************************)
THEOREM OneFinalEventHolds == Spec => []EventLogInv
<1>1. Inv => EventLogInv
    <2>1. Inv => TypeOK
        BY DEF Inv, RequestsFit, LogFits, StreamFits, TypeOK
    <2> QED
        BY <2>1 DEF Inv, LogFits, EventLogInv
<1> QED
    BY <1>1, WorkflowInvariant, PTL

\* An operation that is over takes no event and no other status (AppendEvent).
LEMMA ClosedStep ==
    ASSUME Inv, [Next]_workflowVars, Terminal(operation.status)
    PROVE  UNCHANGED <<operation, latest, finals>>
<1>1. ~Insert
    <2>1. request[Creator].at = "insert" => operation.status = "absent"
        BY CreatorIs, RequestIs DEF LocalFits
    <2> QED
        BY <2>1 DEF Insert, At, Terminal
<1>2. ~\E a \in Actors : AppendEvent(a) \/ AppendUnseen(a)
    BY DEF AppendEvent, AppendUnseen, Append_
<1>3. CASE \E a \in Actors : Step(a)
    BY <1>1, <1>2, <1>3
    DEF Step, Report, ReadStatus, AppendRefused, ReportCancelled, IssueToken, Work, logVars
<1>4. CASE \E r \in Requests : Leave(r) \/ \E role \in {"maintain", "generate", "cancel"} : Attach(r, role)
    BY <1>4 DEF Leave, Attach, logVars
<1>5. CASE Stream
    BY <1>5 DEF Stream, OpenStream, SendEvents, CheckEnd, DropStream, logVars
<1>6. CASE Fault
    BY <1>2, <1>6 DEF Fault, IssueToken, ReportFails, Die, logVars
<1>7. CASE UNCHANGED workflowVars
    BY <1>7 DEF workflowVars
<1> QED
    BY <1>3, <1>4, <1>5, <1>6, <1>7 DEF Next

\* An operation that is over never changes, whoever still reports to it (AppendEvent).
THEOREM ClosedStaysClosedHolds == Spec => ClosedStaysClosed
<1>1. Inv /\ [Next]_workflowVars
        => [Terminal(operation.status) => UNCHANGED <<operation, latest, finals>>]_workflowVars
    BY ClosedStep
<1> QED
    BY <1>1, WorkflowInvariant, PTL DEF Spec, ClosedStaysClosed

(***************************************************************************)
(* A stream that the server ends has delivered every event of the log, the *)
(* final one too, however often it broke (Events, consume).                *)
(***************************************************************************)
THEOREM StreamsAreCompleteHolds == Spec => []StreamsAreComplete
<1>1. Inv => StreamsAreComplete
    BY DEF Inv, StreamFits
<1> QED
    BY <1>1, WorkflowInvariant, PTL

(***************************************************************************)
(* The questions of a next round are generated only after some request has *)
(* saved the learner's memory or found nothing to save, whatever reports   *)
(* are lost (RequireSucceeded).                                            *)
(***************************************************************************)
THEOREM GenerationFollowsMemoryHolds == Spec => []GenerationFollowsMemory
<1>1. Inv => GenerationFollowsMemory
    BY DEF Inv, GateFits, GenerationFollowsMemory, Gated, Updated
<1> QED
    BY <1>1, WorkflowInvariant, PTL

(***************************************************************************)
(* Without faults, a generation that answers with success has not itself   *)
(* closed its operation as failed, although the drafts that it repairs are *)
(* failed steps and its client may leave (GenerateMCQSet,                  *)
(* ensureWorkflowTerminal).                                                *)
(***************************************************************************)
THEOREM GenerationClosesTruthfullyHolds == Spec => []GenerationClosesTruthfully
<1>1. Inv => GenerationClosesTruthfully
    <2> SUFFICES ASSUME Inv, faults = 0, NEW r \in Requests, request[r].role = "generate",
                        request[r].reply = "ok", operation.status = "failed",
                        NEW event \in finals, event.by = r
                 PROVE  FALSE
        BY DEF GenerationClosesTruthfully, ClosesTruthfully
    <2>1. request[r].at = "fail" \/ request[r].reply = "failed"
        BY CreatorIs, RequestIs DEF Truthful, Owns
    <2>2. request[r].at # "fail"
        BY CreatorIs, RequestIs DEF LocalFits
    <2> QED
        BY <2>1, <2>2
<1> QED
    BY <1>1, WorkflowInvariant, PTL

=============================================================================
