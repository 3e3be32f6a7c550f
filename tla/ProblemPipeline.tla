---------------------------- MODULE ProblemPipeline ----------------------------
(***************************************************************************)
(* One job of the generation service over the provider router: a coding    *)
(* problem, which is drafted, tried against its own reference in the       *)
(* sandbox, repaired and stored (generation/problem.go, problemverify,     *)
(* api/handlers/generate.go, problems/service.go); a set of questions      *)
(* (mcq.go); the assessment of an interview (interview.go); a structured   *)
(* answer without a second attempt (the intake questions, the opening of   *)
(* an interview, the grade of a free response); a chat turn; or a refresh  *)
(* of the learner's profile (profile.go), which others may rewrite while   *)
(* the job runs.                                                           *)
(***************************************************************************)
EXTENDS ProviderRouter, ProfileNotes

CONSTANTS
    Names,       \* the names of test cases
    Drafts,      \* the suites that the model may propose
    Policies,    \* for every kind of job, the policies it may ask with
    Touchable,   \* bound: the cases that repairs mention, one at a time
    Shelves,     \* what the stored profile may be at first
    Refreshes,   \* bound: what a refresh may be of, as sources with a problem
    MaxProfiles  \* bound: how often others rewrite the profile

VARIABLES
    job,      \* the job
    profile,  \* the version of the learner's profile
    stored    \* the suite of the stored problem

vars == <<call, gone, job, profile, stored, notesVars>>

-----------------------------------------------------------------------------

Kinds == {"problem", "mcq", "assessment", "single", "chat", "profile"}

\* A case of a suite: whether the learner may see it ("unsaid" is metadata without
\* a kind), and whether the reference solution gives what the case expects.
Case == [shown : {"hidden", "public", "unsaid"}, right : BOOLEAN]

NoCase == [shown |-> "absent", right |-> TRUE]

Suite == [Names -> Case \union {NoCase}]

NoSuite == [n \in Names |-> NoCase]

CasesOf(suite) == {n \in Names : suite[n] # NoCase}

ASSUME PipelineAssumption ==
    /\ Drafts \subseteq Suite
    /\ Policies \in [Kinds -> SUBSET Policy]
    /\ Touchable \subseteq Names
    /\ Shelves \subseteq Book
    /\ \A shelf \in Shelves : Tidy(shelf.notes, 0) /\ shelf.skills = {}
    /\ Refreshes \subseteq Sources \X (Problems \union {Nothing})
    /\ MaxProfiles \in Nat

MinCases == 4
MaxCases == 12
maxPasses == 3

\* problemMaxAttempts, mcqMaxAttempts, interviewMaxAttempts.
MaxAttempts(kind) == IF kind \in {"problem", "mcq", "assessment"} THEN 2 ELSE 1

(***************************************************************************)
(* What ValidateGeneratedProblemForLanguage asks of the cases: 4 to 12,    *)
(* all with a kind, about half of them hidden.                             *)
(***************************************************************************)
Presentable(suite) ==
    LET hidden == Cardinality({n \in Names : suite[n].shown = "hidden"})
        public == Cardinality({n \in Names : suite[n].shown = "public"})
    IN  /\ Cardinality(CasesOf(suite)) \in MinCases..MaxCases
        /\ Cardinality(CasesOf(suite)) = hidden + public
        /\ hidden >= 2 /\ public >= 2
        /\ hidden <= public + 2 /\ public <= hidden + 2

AllPass(suite) == suite # NoSuite /\ \A n \in Names : suite[n].right

(***************************************************************************)
(* evidence is the version of the profile that the drafts are asked with   *)
(* (0 when there is no more to draft), used those they were asked with.    *)
(* draft is the suite as the model proposed it, suite what it has become,  *)
(* ran what the sandbox ran last, reborn the cases that a repair did not   *)
(* find and added anew.                                                    *)
(***************************************************************************)
Job ==
    [kind : Kinds, policy : Policy,
     pc : {"begin", "events", "load", "ask", "waiting", "check", "judge", "appeal", "ruling",
           "save", "report", "over"},
     attempt : 1..2, evidence : 0..MaxProfiles + 1, used : SUBSET (0..MaxProfiles + 1),
     strategy : {"unit", "http"}, draft : Suite, suite : Suite, ran : Suite,
     reborn : SUBSET Names, pass : 1..maxPasses,
     outcome : {"none", "done", "failed", "refused"}, noted : {"none", "generated", "failed"}]

NewJob(kind, policy) ==
    [kind |-> kind, policy |-> policy, pc |-> "begin", attempt |-> 1, evidence |-> 0,
     used |-> {}, strategy |-> "unit", draft |-> NoSuite, suite |-> NoSuite, ran |-> NoSuite,
     reborn |-> {}, pass |-> 1, outcome |-> "none", noted |-> "none"]

TypeOK ==
    /\ RouterTypeOK
    /\ NotesTypeOK
    /\ job \in Job
    /\ profile \in 0..MaxProfiles + 1
    /\ stored \in Suite
    /\ job.pc \in {"waiting", "ruling"} <=> call.pc # "idle"

Init ==
    /\ RouterInit
    /\ \E kind \in Kinds : \E policy \in Policies[kind] : job = NewJob(kind, policy)
    /\ profile = 0
    /\ stored = NoSuite
    /\ book \in Shelves
    /\ practised = {}
    /\ upkeep = NewUpkeep("none", Nothing)

At(point) == job.pc = point

Goto(point) == job' = [job EXCEPT !.pc = point]

\* The handler answers with an error, or with none when the client has left.
Fail == job' = [job EXCEPT !.pc = "report", !.outcome = "failed"]

-----------------------------------------------------------------------------

(***************************************************************************)
(* The beginning of a job.  The handler refuses it for a spec it cannot    *)
(* read, an unknown baseline, a memory update that is pending, or a part   *)
(* that is not configured.  A chat turn has read the profile before.       *)
(***************************************************************************)
Refuse ==
    /\ At("begin")
    /\ job' = [job EXCEPT !.pc = "over", !.outcome = "refused"]
    /\ UNCHANGED <<call, gone, profile, stored, notesVars>>

Begin ==
    /\ At("begin")
    /\ job.kind # "profile"
    /\ Goto(IF job.kind = "chat" THEN "ask" ELSE "load")
    /\ UNCHANGED <<call, gone, profile, stored, notesVars>>

LoadProfile ==
    /\ At("load")
    /\ job.kind # "profile"
    /\ job' = [job EXCEPT !.pc = "ask", !.evidence = profile]
    /\ UNCHANGED <<call, gone, profile, stored, notesVars>>

LoadFails ==
    /\ At("load") \/ At("events")
    /\ Fail
    /\ UNCHANGED <<call, gone, profile, stored, notesVars>>

Ask ==
    /\ At("ask")
    /\ job' = [job EXCEPT !.pc = "waiting", !.used = @ \union {job.evidence}]
    /\ Asked(job.policy, job.kind = "chat")
    /\ UNCHANGED <<gone, profile, stored, notesVars>>

\* A provider error and an invalid output alike end the job at once.
Unanswered ==
    /\ At("waiting") \/ At("ruling")
    /\ call.pc = "done" /\ call.result # "object"
    /\ Fail
    /\ call' = Idle
    /\ UNCHANGED <<gone, profile, stored, notesVars>>

Answered ==
    /\ At("waiting")
    /\ call.pc = "done" /\ call.result = "object"
    /\ Goto(IF job.kind = "chat" THEN "report" ELSE "check")
    /\ call' = Idle
    /\ UNCHANGED <<gone, profile, stored, notesVars>>

-----------------------------------------------------------------------------

(***************************************************************************)
(* The answer does not fit: one more attempt, with the reason, if the kind *)
(* of job has one.  AssessInterview asks through Orchestrator.Generate,    *)
(* which reads the profile again.                                          *)
(***************************************************************************)

Reject ==
    /\ At("check")
    /\ IF job.attempt < MaxAttempts(job.kind)
       THEN job' = [job EXCEPT !.attempt = @ + 1,
                               !.pc = IF job.kind = "assessment" THEN "load" ELSE "ask"]
       ELSE Fail
    /\ UNCHANGED <<call, gone, profile, stored, notesVars>>

\* A problem whose definition cannot be built is not asked for again.
BuildFails ==
    /\ At("check")
    /\ job.kind = "problem"
    /\ Fail
    /\ UNCHANGED <<call, gone, profile, stored, notesVars>>

AcceptProblem(suite, strategy) ==
    /\ At("check")
    /\ job.kind = "problem"
    /\ Presentable(suite)
    /\ job' = [job EXCEPT !.pc = "judge", !.strategy = strategy, !.draft = suite,
                          !.suite = suite, !.evidence = 0]
    /\ UNCHANGED <<call, gone, profile, stored, notesVars>>

AcceptAnswer ==
    /\ At("check")
    /\ job.kind \notin {"problem", "profile"}
    /\ Goto("report")
    /\ UNCHANGED <<call, gone, profile, stored, notesVars>>

-----------------------------------------------------------------------------

(***************************************************************************)
(* problemverify.Verify.  No runner, a sandbox that fails, a reference     *)
(* that does not compile and a run that dies end the job.                  *)
(***************************************************************************)
RunFails ==
    /\ At("judge")
    /\ Fail
    /\ UNCHANGED <<call, gone, profile, stored, notesVars>>

\* Slip: the last pass is taken on trust.
SlipRunReference ==
    /\ At("judge")
    /\ job' = [job EXCEPT !.ran = IF job.pass = maxPasses THEN @ ELSE job.suite,
                          !.pc = IF AllPass(job.suite) \/ job.pass = maxPasses THEN "save" ELSE "appeal"]
    /\ UNCHANGED <<call, gone, profile, stored, notesVars>>

RunReference ==
    /\ At("judge")
    /\ job' = [job EXCEPT !.ran = job.suite, !.pc = IF AllPass(job.suite) THEN "save" ELSE "appeal"]
    /\ UNCHANGED <<call, gone, profile, stored, notesVars>>

\* The adjudicator is asked with the profile as it is now.
Adjudicate ==
    /\ At("appeal")
    /\ Goto("ruling")
    /\ Asked(job.policy, FALSE)
    /\ UNCHANGED <<gone, profile, stored, notesVars>>

AdjudicateFails ==
    /\ At("appeal")
    /\ Fail
    /\ UNCHANGED <<call, gone, profile, stored, notesVars>>

\* What it says: valid, although cases fail; regenerate; or nothing readable.
Condemned ==
    /\ At("ruling")
    /\ call.pc = "done" /\ call.result = "object"
    /\ Fail
    /\ call' = Idle
    /\ UNCHANGED <<gone, profile, stored, notesVars>>

(***************************************************************************)
(* applyRepair, for the names of its lists one by one: a case may be       *)
(* dropped, given anew, or both.  A case that is kept keeps its metadata;  *)
(* one that no kept case has the name of is added with its own.            *)
(***************************************************************************)
Edits == [name : Touchable, drop : BOOLEAN, given : Case \union {NoCase}]

Kept(suite, edit) == suite[edit.name] # NoCase /\ ~edit.drop

Repaired(suite, edit) ==
    IF ~Kept(suite, edit) THEN [suite EXCEPT ![edit.name] = edit.given]
    ELSE IF edit.given = NoCase THEN suite
    ELSE [suite EXCEPT ![edit.name].right = edit.given.right]

\* It knows no HTTP cases: an HTTP problem with unit cases is not valid.
Repair(edit) ==
    LET repaired == Repaired(job.suite, edit)
    IN  /\ call.pc = "done" /\ call.result = "object"
        /\ IF job.strategy = "unit" /\ Presentable(repaired) /\ job.pass < maxPasses
           THEN job' = [job EXCEPT !.pc = "judge", !.suite = repaired, !.pass = @ + 1,
                                   !.reborn = IF Kept(job.suite, edit) THEN @
                                              ELSE @ \union {edit.name}]
           ELSE Fail
        /\ call' = Idle
        /\ UNCHANGED <<gone, profile, stored, notesVars>>

-----------------------------------------------------------------------------

(***************************************************************************)
(* problems.Service.PersistGenerated: one Upsert.  When it fails, the row  *)
(* may be there all the same.                                              *)
(***************************************************************************)
Save ==
    /\ At("save")
    /\ job.kind = "problem"
    /\ stored' = job.suite
    /\ Goto("report")
    /\ UNCHANGED <<call, gone, profile, notesVars>>

SaveFails(landed) ==
    /\ At("save")
    /\ job.kind = "problem"
    /\ stored' = IF landed THEN job.suite ELSE stored
    /\ Fail
    /\ UNCHANGED <<call, gone, profile, notesVars>>

(***************************************************************************)
(* A refresh of the profile (RefreshProfile).  Every attempt takes the     *)
(* time, reads the events and then the profile, asks for changes of the    *)
(* notes if it has a source for them, and for the rest with the notes as   *)
(* they have become.                                                       *)
(***************************************************************************)
Attempt(source, problem, attempt) ==
    /\ job' = [job EXCEPT !.pc = "events", !.attempt = attempt]
    /\ upkeep' = [NewUpkeep(source, problem) EXCEPT !.now = profile]

BeginRefresh(source, problem) ==
    /\ At("begin")
    /\ job.kind = "profile"
    /\ Attempt(source, problem, 1)
    /\ UNCHANGED <<call, gone, profile, stored, book, practised>>

ReadEvents ==
    /\ At("events")
    /\ Goto("load")
    /\ upkeep' = [upkeep EXCEPT !.topics = practised]
    /\ UNCHANGED <<call, gone, profile, stored, book, practised>>

ReadProfile ==
    /\ At("load")
    /\ job.kind = "profile"
    /\ Goto("ask")
    /\ upkeep' = Loaded(upkeep, profile)
    /\ UNCHANGED <<call, gone, profile, stored, book, practised>>

\* No evidence, none that is new to a daily refresh, or a completion that was processed.
Skip ==
    /\ At("load")
    /\ job.kind = "profile"
    /\ Goto("report")
    /\ UNCHANGED <<call, gone, profile, stored, notesVars>>

\* A completion whose one valid outcome is not among the events.
EvidenceMissing ==
    /\ At("load")
    /\ job.kind = "profile" /\ upkeep.source \in {"coding", "interview"}
    /\ Fail
    /\ UNCHANGED <<call, gone, profile, stored, notesVars>>

\* What the model answers is checked and applied change by change.
ChangeNotes(change) ==
    /\ At("check")
    /\ job.kind = "profile" /\ ~upkeep.drafted
    /\ upkeep.changes < MaxChanges
    /\ Acceptable(change, upkeep.held)
    /\ upkeep' = Applied(change, upkeep)
    /\ UNCHANGED <<call, gone, job, profile, stored, book, practised>>

MaintainNotes ==
    /\ At("check")
    /\ job.kind = "profile" /\ ~upkeep.drafted
    /\ \E top \in Remnants(upkeep) :
         LET notes == Only(top, upkeep.notes)
         IN  /\ Valid(notes, upkeep)
             /\ upkeep' = [upkeep EXCEPT !.notes = notes, !.drafted = TRUE]
    /\ Goto("ask")
    /\ UNCHANGED <<call, gone, profile, stored, book, practised>>

AcceptProfile(summary, claimed) ==
    /\ At("check")
    /\ job.kind = "profile" /\ upkeep.drafted
    /\ ~Regresses(upkeep.before, summary, minLivingSummaryRunes)
    /\ upkeep' = Curated(upkeep, summary, claimed)
    /\ Goto("save")
    /\ UNCHANGED <<call, gone, profile, stored, book, practised>>

(***************************************************************************)
(* ReplaceProfileIfVersion: the profile is replaced if it is the one that  *)
(* was read; else all is done again, once.                                 *)
(***************************************************************************)
\* Slip: whatever version is stored is replaced.
SlipSaveProfile ==
    /\ At("save")
    /\ job.kind = "profile"
    /\ profile' = profile + 1
    /\ book' = [notes |-> upkeep.notes, summary |-> upkeep.summary, skills |-> upkeep.skills]
    /\ Goto("report") \/ Fail
    /\ UNCHANGED <<call, gone, stored, practised, upkeep>>

SaveProfile ==
    /\ At("save")
    /\ job.kind = "profile"
    /\ profile = upkeep.version
    /\ profile' = profile + 1
    /\ book' = [notes |-> upkeep.notes, summary |-> upkeep.summary, skills |-> upkeep.skills]
    /\ Goto("report") \/ Fail
    /\ UNCHANGED <<call, gone, stored, practised, upkeep>>

SaveIsStale ==
    /\ At("save")
    /\ job.kind = "profile"
    /\ profile # upkeep.version
    /\ IF job.attempt = 1
       THEN Attempt(upkeep.source, upkeep.problem, 2)
       ELSE Fail /\ UNCHANGED upkeep
    /\ UNCHANGED <<call, gone, profile, stored, book, practised>>

\* The store fails, or the completion was processed meanwhile.
ProfileLost ==
    /\ At("save")
    /\ job.kind = "profile"
    /\ Fail \/ Goto("report")
    /\ UNCHANGED <<call, gone, profile, stored, notesVars>>

RefreshStep ==
    \/ \E refresh \in Refreshes : BeginRefresh(refresh[1], refresh[2])
    \/ ReadEvents \/ ReadProfile \/ Skip \/ EvidenceMissing
    \/ \E change \in Changes : ChangeNotes(change)
    \/ MaintainNotes
    \/ \E summary \in Lengths, claimed \in SUBSET Topics : AcceptProfile(summary, claimed)
    \/ SaveProfile \/ SaveIsStale \/ ProfileLost

-----------------------------------------------------------------------------

(***************************************************************************)
(* The answer to the client, and the event in its memory: of a problem or  *)
(* a set of questions, and of a set that failed unless the client has      *)
(* left.  The event is lost when it cannot be written.                     *)
(***************************************************************************)
Event ==
    IF job.outcome = "failed"
    THEN IF job.kind = "mcq" /\ ~gone THEN "failed" ELSE "none"
    ELSE IF job.kind \in {"problem", "mcq"} THEN "generated" ELSE "none"

Report(written) ==
    /\ At("report")
    /\ job' = [job EXCEPT !.pc = "over",
                          !.outcome = IF @ = "none" THEN "done" ELSE @,
                          !.noted = IF written THEN Event ELSE "none"]
    /\ UNCHANGED <<call, gone, profile, stored, notesVars>>

-----------------------------------------------------------------------------

JobStep ==
    \/ Refuse \/ Begin \/ LoadProfile \/ LoadFails \/ Ask \/ Unanswered \/ Answered
    \/ Reject \/ BuildFails \/ AcceptAnswer
    \/ \E suite \in Drafts, strategy \in {"unit", "http"} : AcceptProblem(suite, strategy)
    \/ RunFails \/ RunReference \/ Adjudicate \/ AdjudicateFails \/ Condemned
    \/ At("ruling") /\ \E edit \in Edits : Repair(edit)
    \/ RefreshStep
    \/ Save \/ \E landed \in BOOLEAN : SaveFails(landed)
    \/ \E written \in BOOLEAN : Report(written)

RouterActs == RouterStep /\ UNCHANGED <<job, profile, stored, notesVars>>

Leaves == ~At("over") /\ ClientLeaves /\ UNCHANGED <<job, profile, stored, notesVars>>

\* An event tells of a skill; only a refresh looks at it.
Practise(topic) ==
    /\ job.kind = "profile" /\ ~At("over")
    /\ practised' = practised \union {topic}
    /\ UNCHANGED <<call, gone, job, profile, stored, book, upkeep>>

Others == NewUpkeep("mcq", Nothing)

\* A refresh of another process has begun by now and saves what one change makes of the
\* notes, or the same notes (bound: while the profile may still be read or is to be
\* replaced; what is in it is only told apart by another refresh).
ProfileMoves ==
    /\ \/ job.pc \in {"begin", "events", "load", "ask", "waiting", "check"}
       \/ At("save") /\ job.kind = "profile"
    /\ profile < MaxProfiles
    /\ profile' = profile + 1
    /\ \/ UNCHANGED book
       \/ /\ job.kind = "profile"
          /\ \E change \in Changes :
               LET mine == Applied(change, [Loaded(Others, profile) EXCEPT !.now = profile + 1])
               IN  /\ Acceptable(change, book.notes)
                   /\ \E top \in Remnants(mine) :
                        LET notes == Only(top, mine.notes)
                        IN  /\ Valid(notes, mine)
                            /\ book' = [book EXCEPT !.notes = notes, !.skills = practised]
    /\ UNCHANGED <<call, gone, job, stored, practised, upkeep>>

Next ==
    \/ JobStep \/ RouterActs \/ Leaves \/ ProfileMoves
    \/ \E topic \in Topics : Practise(topic)

(***************************************************************************)
(* The handler goes on, and every call it makes returns: the adapter's     *)
(* client and the sandbox have timeouts.                                   *)
(***************************************************************************)
Spec == Init /\ [][Next]_vars /\ WF_vars(JobStep) /\ WF_vars(RouterActs)

-----------------------------------------------------------------------------

(***************************************************************************)
(* All attempts at a problem or a set of questions are asked with one      *)
(* snapshot of the profile, whoever rewrites it meanwhile                  *)
(* (orchestrator.go:52-54, problem.go:395-397).                            *)
(***************************************************************************)
OneSnapshot == job.kind \in {"problem", "mcq"} => Cardinality(job.used) <= 1

(***************************************************************************)
(* What is stored is the very suite that the sandbox ran last, after any   *)
(* repairs, with every case passing, and it is fit to be shown.            *)
(***************************************************************************)
StoredIsVerified ==
    stored # NoSuite => stored = job.ran /\ AllPass(stored) /\ Presentable(stored)

(***************************************************************************)
(* No repair exposes or hides a case of the draft, but for one that was    *)
(* dropped and came back as a new case (verify.go:389-391).                *)
(***************************************************************************)
VisibilityIsTheDrafts ==
    \A n \in (CasesOf(job.suite) \intersect CasesOf(job.draft)) \ job.reborn :
        job.suite[n].shown = job.draft[n].shown

(***************************************************************************)
(* The memory says that a problem was generated only of one that is        *)
(* stored.                                                                 *)
(***************************************************************************)
AnnouncedIsStored == job.kind = "problem" /\ job.noted = "generated" => stored # NoSuite

(***************************************************************************)
(* The stored notes are whole, tell each concept once, are no more than    *)
(* they may be and from no time to come, whatever changes were proposed    *)
(* (validateMaintainedNotes).                                              *)
(***************************************************************************)
NotesAreTidy == Tidy(book.notes, profile)

\* The profile claims no skill that no event tells of (ParseCuratedProfile).
SkillsAreEvidenced == book.skills \subseteq practised

\* What a job drafts, stores and reports belongs together.
PipelineInv ==
    /\ TypeOK
    /\ OneSnapshot /\ StoredIsVerified /\ VisibilityIsTheDrafts /\ AnnouncedIsStored
    /\ NotesAreTidy /\ SkillsAreEvidenced

(***************************************************************************)
(* What replaces the profile was made from it: no note that stays loses    *)
(* its time or most of its text, the summary does not collapse, and a      *)
(* coding completion touches no note about another problem, although the   *)
(* profile may be replaced while a refresh works (ReplaceProfileIfVersion, *)
(* validateMaintainedNotes, rejectSummaryRegression).                      *)
(***************************************************************************)
ProfileKeepsWhatWas ==
    [][book' # book =>
        /\ Keeps(book.notes, book'.notes)
        /\ ~Regresses(book.summary, book'.summary, minLivingSummaryRunes)
        /\ job' # job /\ upkeep.source = "coding"
            => Minds(book.notes, book'.notes, upkeep.problem)]_vars

(***************************************************************************)
(* Every job ends: no provider, sandbox or model can make it go round for  *)
(* ever by rejecting and being rejected.                                   *)
(***************************************************************************)
JobsEnd == <>At("over")
=============================================================================
