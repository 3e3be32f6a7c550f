-------------------------- MODULE CompletionMemory --------------------------
(***************************************************************************)
(* What becomes of the learner's memory profile after graded submissions   *)
(* of one practice session.  The processes:                                *)
(*                                                                         *)
(*   owner     the Submit call that executed a submission: it records the  *)
(*             evidence, completes a passed session, claims the session's  *)
(*             memory status, refreshes the profile and settles the status *)
(*             (submission/service.go);                                    *)
(*   replay    a Submit call that joined or replayed the submission: it    *)
(*             completes a passed session and reports a status;            *)
(*   maintain  the learner's POST /memory/profile/maintain retries the     *)
(*             refresh of a submission (api/handlers/generate.go);         *)
(*   daily     the memory worker refreshes the profile (memory/worker.go); *)
(*   tab       a browser tab PATCHes its own copy of the session's state   *)
(*             (frontend ProblemDetailPage.tsx).                           *)
(*                                                                         *)
(* They interleave between any two storage or provider calls; any such     *)
(* call may fail and any process may die, without a bound.                 *)
(***************************************************************************)
EXTENDS Naturals, Sequences, FiniteSets

CONSTANTS
    Submissions,  \* graded submissions of the session; each names its owner
    Helpers,      \* the other processes
    HelperKinds,  \* what they may be: replay, maintain, daily, tab
    Configured,   \* whether a generation provider is configured
    NoSubmission  \* an empty last_submission_id

Kinds == {"replay", "maintain", "daily", "tab"}

ASSUME CompletionAssumption ==
    /\ NoSubmission \notin Submissions
    /\ Submissions \intersect Helpers = {}
    /\ HelperKinds \subseteq Kinds
    /\ Configured \in BOOLEAN

Workers == Submissions \union Helpers

VARIABLES
    session,   \* the practice_sessions row: status and the memory part of state
    verdict,   \* the grade of each submission, once it is executed
    evidence,  \* the submissions whose graded outcome event is stored
    profile,   \* the user_memory_profiles row
    marked,    \* the memory_profile_completions table
    worker     \* the local state of every process

memoryVars == <<session, verdict, evidence, profile, marked, worker>>

-----------------------------------------------------------------------------

MemoryStatus == {"idle", "pending", "synced", "failed"}

Owner == Submissions \union {NoSubmission}

\* memory and owner are memory_update_status and last_submission_id of state.
Session == [status : {"active", "completed"}, memory : MemoryStatus, owner : Owner]

NewSession == [status |-> "active", memory |-> "idle", owner |-> NoSubmission]

(***************************************************************************)
(* Of a profile the model keeps the version, the completions folded into   *)
(* its notes, in order, and the evidence its digest covers.                *)
(***************************************************************************)
Profile == [version : Nat, folded : Seq(Submissions), digest : SUBSET Submissions]

NoProfile == [version |-> 0, folded |-> <<>>, digest |-> {}]

RefreshPoints == {"read_evidence", "read_profile", "check", "generate", "save"}

ActivePoints ==
    {"record", "read_session", "write_session", "claim", "settle", "report",
     "load", "edit", "patch"} \union RefreshPoints

\* "missing" is ErrCodingCompletionEvidenceNotFound.
Outcome == {"none", "synced", "failed", "missing"}

(***************************************************************************)
(* Operators named Slip... are the definition that follows them with a     *)
(* plausible bug in the code; the model does not use them.                 *)
(***************************************************************************)
\* Missing evidence is classified as nothing to do.
SlipStatusOf(outcome) == IF outcome = "missing" THEN "synced" ELSE outcome

StatusOf(outcome) == IF outcome = "missing" THEN "failed" ELSE outcome

Worker ==
    [kind    : Kinds \union {"owner"},
     sub     : Owner,
     at      : {"idle", "done", "dead"} \union ActivePoints,
     copy    : Session,             \* a session row, or a tab's state, read earlier
     seen    : SUBSET Submissions,  \* the evidence this refresh has read
     base    : Profile,             \* the profile this refresh has read
     attempt : 1..2,
     outcome : Outcome,
     reply   : {"none", "synced", "failed"},
     foreign : SUBSET Workers]      \* requests whose answer is not, or no more, for this tab

Fresh(kind, sub, point) ==
    [kind |-> kind, sub |-> sub, at |-> point, copy |-> NewSession, seen |-> {},
     base |-> NoProfile, attempt |-> 1, outcome |-> "none", reply |-> "none",
     foreign |-> {}]

TypeOK ==
    /\ session \in Session
    /\ verdict \in [Submissions -> {"none", "pass", "fail"}]
    /\ evidence \in SUBSET Submissions
    /\ profile \in Profile
    /\ marked \in SUBSET Submissions
    /\ worker \in [Workers -> Worker]

Init ==
    /\ session = NewSession
    /\ verdict = [s \in Submissions |-> "none"]
    /\ evidence = {}
    /\ profile = NoProfile
    /\ marked = {}
    /\ worker = [w \in Workers |-> IF w \in Submissions THEN Fresh("owner", w, "idle")
                                   ELSE Fresh("daily", NoSubmission, "idle")]

-----------------------------------------------------------------------------

At(w, point) == worker[w].at = point

Is(w, kind) == worker[w].kind = kind

Goto(w, point) == worker' = [worker EXCEPT ![w].at = point]

\* Submit completes the session of a passed submission first.
AfterGrade(s, point) == IF verdict[s] = "pass" THEN "read_session" ELSE point

(***************************************************************************)
(* How the processes start.                                                *)
(***************************************************************************)
\* An execution ends with a grade; its Submit call goes on as the owner.
Graded(s) ==
    /\ s \in Submissions /\ At(s, "idle")
    /\ \E v \in {"pass", "fail"} : verdict' = [verdict EXCEPT ![s] = v]
    /\ Goto(s, "record")
    /\ UNCHANGED <<session, evidence, profile, marked>>

Starts(w, kind, sub, point) ==
    /\ w \in Helpers /\ At(w, "idle") /\ kind \in HelperKinds
    /\ worker' = [worker EXCEPT ![w] = Fresh(kind, sub, point)]
    /\ UNCHANGED <<session, verdict, evidence, profile, marked>>

StartReplay(w, s) ==
    verdict[s] # "none" /\ Starts(w, "replay", s, AfterGrade(s, "report"))

StartMaintain(w, s) == verdict[s] # "none" /\ Starts(w, "maintain", s, "claim")

StartDaily(w) == Starts(w, "daily", NoSubmission, "read_evidence")

OpenTab(w) == Starts(w, "tab", NoSubmission, "load")

(***************************************************************************)
(* The owner records four events, the graded outcome last.  Each may fail; *)
(* a failure gives the refresh of this request up.                         *)
(***************************************************************************)
RecordEvidence(s) ==
    /\ At(s, "record")
    /\ \E outcomeSaved \in BOOLEAN, othersSaved \in BOOLEAN :
         /\ evidence' = IF outcomeSaved THEN evidence \union {s} ELSE evidence
         /\ worker' = [worker EXCEPT
                         ![s].at = AfterGrade(s, "claim"),
                         ![s].outcome = IF outcomeSaved /\ othersSaved THEN "none" ELSE "failed"]
    /\ UNCHANGED <<session, verdict, profile, marked>>

(***************************************************************************)
(* session.Service.Update: a Get of the row, then a write of all of it.    *)
(***************************************************************************)
ReadSession(w) ==
    /\ At(w, "read_session")
    /\ worker' = [worker EXCEPT ![w].at = "write_session", ![w].copy = session]
    /\ UNCHANGED <<session, verdict, evidence, profile, marked>>

WriteSession(w) ==
    /\ At(w, "write_session")
    /\ session' = [worker[w].copy EXCEPT !.status = "completed"]
    /\ worker' = [worker EXCEPT ![w].at = IF Is(w, "owner") THEN "claim" ELSE "report",
                                ![w].copy = NewSession]
    /\ UNCHANGED <<verdict, evidence, profile, marked>>

\* settledMemoryStatus: a replay reports the session's status if it can read
\* it and it is settled.
Report(w) ==
    /\ At(w, "report")
    /\ \E status \in {"none", session.memory} :
         /\ status \notin {"idle", "pending"}
         /\ worker' = [worker EXCEPT ![w].at = "done", ![w].reply = status]
    /\ UNCHANGED <<session, verdict, evidence, profile, marked>>

(***************************************************************************)
(* SetMemoryUpdateStatus and SetMemoryUpdateStatusIfCurrent: one locked    *)
(* read and write of the row.                                              *)
(***************************************************************************)
IsCurrent(s) == session.owner \in {NoSubmission, s}

Stamped(s, status) == [session EXCEPT !.memory = status, !.owner = s]

\* refreshMemory claims the status, whoever has it; a failed claim is logged.
Claim(s) ==
    /\ Is(s, "owner") /\ At(s, "claim")
    /\ session' \in {session, Stamped(s, "pending")}
    /\ Goto(s, IF worker[s].outcome = "failed" THEN "settle" ELSE "read_evidence")
    /\ UNCHANGED <<verdict, evidence, profile, marked>>

\* MaintainProfile sets pending, unless a newer completion has the status.
SetPending(w) ==
    LET s == worker[w].sub
    IN  /\ Is(w, "maintain") /\ At(w, "claim")
        /\ session' = IF IsCurrent(s) THEN Stamped(s, "pending") ELSE session
        /\ Goto(w, "read_evidence")
        /\ UNCHANGED <<verdict, evidence, profile, marked>>

\* Slip: a completion that lost the status is answered as if it were synced.
SlipSettle(w) ==
    LET s == worker[w].sub
        status == StatusOf(worker[w].outcome)
    IN  /\ At(w, "settle")
        /\ session' = IF IsCurrent(s) THEN Stamped(s, status) ELSE session
        /\ worker' = [worker EXCEPT ![w].at = "done",
                                    ![w].reply = IF IsCurrent(s) THEN status ELSE "synced"]
        /\ UNCHANGED <<verdict, evidence, profile, marked>>

\* The outcome is written, and answered, if the completion still has the status.
Settle(w) ==
    LET s == worker[w].sub
        status == StatusOf(worker[w].outcome)
    IN  /\ At(w, "settle")
        /\ session' = IF IsCurrent(s) THEN Stamped(s, status) ELSE session
        /\ worker' = [worker EXCEPT
                        ![w].at = "done",
                        ![w].reply = IF IsCurrent(s) \/ Is(w, "maintain") THEN status ELSE "none"]
        /\ UNCHANGED <<verdict, evidence, profile, marked>>

\* The write, or the read of the row after it, fails: the answer is failed,
\* whatever the refresh did.
SettleFails(w) ==
    LET s == worker[w].sub
    IN  /\ At(w, "settle")
        /\ \/ session' = session
           \/ IsCurrent(s) /\ session' = Stamped(s, StatusOf(worker[w].outcome))
        /\ worker' = [worker EXCEPT ![w].at = "done", ![w].reply = "failed"]
        /\ UNCHANGED <<verdict, evidence, profile, marked>>

(***************************************************************************)
(* generation.ProfileSynthesizer.RefreshProfile.                           *)
(***************************************************************************)
\* The refresh is over; only a completion has a status to settle.
Finish(w, outcome) ==
    worker' = [worker EXCEPT
                 ![w].at = IF Is(w, "daily") THEN "done" ELSE "settle",
                 ![w].outcome = outcome,
                 ![w].seen = {}, ![w].base = NoProfile]

\* ProfileInputs lists the events ...
ReadEvidence(w) ==
    /\ At(w, "read_evidence")
    /\ worker' = [worker EXCEPT ![w].at = "read_profile", ![w].seen = evidence]
    /\ UNCHANGED <<session, verdict, evidence, profile, marked>>

\* ... and then gets the profile.
ReadProfile(w) ==
    /\ At(w, "read_profile")
    /\ worker' = [worker EXCEPT ![w].at = "check", ![w].base = profile]
    /\ UNCHANGED <<session, verdict, evidence, profile, marked>>

\* Slip: a completion without evidence passes for one with nothing to fold in.
SlipCheckCompletion(w) ==
    LET s == worker[w].sub
    IN  /\ At(w, "check") /\ ~Is(w, "daily")
        /\ IF s \in marked \/ s \notin worker[w].seen \/ ~Configured
           THEN Finish(w, "synced") ELSE Goto(w, "generate")
        /\ UNCHANGED <<session, verdict, evidence, profile, marked>>

\* A marked completion is done; one without evidence cannot be folded in.
CheckCompletion(w) ==
    LET s == worker[w].sub
    IN  /\ At(w, "check") /\ ~Is(w, "daily")
        /\ IF s \in marked THEN Finish(w, "synced")
           ELSE IF s \notin worker[w].seen THEN Finish(w, "missing")
           ELSE IF ~Configured THEN Finish(w, "synced")
           ELSE Goto(w, "generate")
        /\ UNCHANGED <<session, verdict, evidence, profile, marked>>

\* The daily refresh skips when there is no evidence or none that is new.
CheckDigest(w) ==
    LET mine == worker[w]
    IN  /\ At(w, "check") /\ Is(w, "daily")
        /\ IF mine.seen = {} \/ ~Configured
              \/ (mine.base.version > 0 /\ mine.base.digest = mine.seen)
           THEN Finish(w, "synced") ELSE Goto(w, "generate")
        /\ UNCHANGED <<session, verdict, evidence, profile, marked>>

\* Both model stages return valid output.
Generate(w) ==
    /\ At(w, "generate")
    /\ Goto(w, "save")
    /\ UNCHANGED <<session, verdict, evidence, profile, marked>>

\* A storage call, the provider or the validation fails: memory is kept.
RefreshFails(w) ==
    /\ worker[w].at \in RefreshPoints
    /\ Finish(w, "failed")
    /\ UNCHANGED <<session, verdict, evidence, profile, marked>>

\* Slip: the write does not compare versions.
SlipUpToDate(w) == worker[w].base.version \in Nat

\* The version read is still the stored one.
UpToDate(w) == profile.version = worker[w].base.version

\* The completion was marked by another refresh in the meantime.
SaveFindsMarker(w) ==
    /\ At(w, "save") /\ worker[w].sub \in marked
    /\ Finish(w, "synced")
    /\ UNCHANGED <<session, verdict, evidence, profile, marked>>

\* Slip: a stale refresh saves what it has again, until it succeeds.
SlipSaveAgain(w) ==
    /\ At(w, "save") /\ worker[w].sub \notin marked /\ ~UpToDate(w)
    /\ Goto(w, "save")
    /\ UNCHANGED <<session, verdict, evidence, profile, marked>>

\* ErrStaleProfile: one retry with fresh inputs, then the refresh has failed.
SaveIsStale(w) ==
    /\ At(w, "save") /\ worker[w].sub \notin marked /\ ~UpToDate(w)
    /\ IF worker[w].attempt = 1
       THEN worker' = [worker EXCEPT ![w].at = "read_evidence", ![w].attempt = 2,
                                     ![w].seen = {}, ![w].base = NoProfile]
       ELSE Finish(w, "failed")
    /\ UNCHANGED <<session, verdict, evidence, profile, marked>>

(***************************************************************************)
(* The profile and, for a completion, its marker are committed together.   *)
(* The saved profile is read back: that may fail although it is committed. *)
(***************************************************************************)
SaveCommits(w) ==
    LET mine == worker[w]
    IN  /\ At(w, "save") /\ mine.sub \notin marked /\ UpToDate(w)
        /\ profile' = [version |-> mine.base.version + 1,
                       folded  |-> IF Is(w, "daily") THEN mine.base.folded
                                   ELSE Append(mine.base.folded, mine.sub),
                       digest  |-> mine.seen]
        /\ marked' = IF Is(w, "daily") THEN marked ELSE marked \union {mine.sub}
        /\ \E outcome \in {"synced", "failed"} : Finish(w, outcome)
        /\ UNCHANGED <<session, verdict, evidence>>

(***************************************************************************)
(* A browser tab loads the session into sessionStateRef, merges the answer *)
(* of each submit it sends into it and PATCHes it back, once; the server   *)
(* replaces state.  A request that began before the load answers another   *)
(* tab, or the page that was reloaded.                                     *)
(***************************************************************************)
LoadTab(w) ==
    /\ At(w, "load")
    /\ worker' = [worker EXCEPT ![w].at = "edit", ![w].copy = session,
                                ![w].foreign = {x \in Workers : ~At(x, "idle")}]
    /\ UNCHANGED <<session, verdict, evidence, profile, marked>>

MergeAnswer(w) ==
    /\ At(w, "edit")
    /\ \E x \in Workers :
         /\ worker[x].kind \in {"owner", "replay"} /\ At(x, "done")
         /\ x \notin worker[w].foreign
         /\ worker' = [worker EXCEPT
                         ![w].foreign = @ \union {x},
                         ![w].copy.owner = worker[x].sub,
                         ![w].copy.memory = IF worker[x].reply = "none" THEN @
                                            ELSE worker[x].reply]
    /\ UNCHANGED <<session, verdict, evidence, profile, marked>>

\* The server reads the row for its status ...
ReadForPatch(w) ==
    /\ At(w, "edit")
    /\ worker' = [worker EXCEPT ![w].at = "patch", ![w].copy.status = session.status]
    /\ UNCHANGED <<session, verdict, evidence, profile, marked>>

\* ... and writes all of it with the tab's state.
WritePatch(w) ==
    /\ At(w, "patch")
    /\ session' = worker[w].copy
    /\ worker' = [worker EXCEPT ![w].at = "done", ![w].copy = NewSession,
                                ![w].foreign = {}]
    /\ UNCHANGED <<verdict, evidence, profile, marked>>

-----------------------------------------------------------------------------

(***************************************************************************)
(* A call that ends the request fails, the client disconnects or the       *)
(* process dies: the worker writes nothing more.                           *)
(***************************************************************************)
Abort(w) ==
    /\ worker[w].at \in ActivePoints
    /\ worker' = [worker EXCEPT ![w] = Fresh(worker[w].kind, worker[w].sub, "dead")]
    /\ UNCHANGED <<session, verdict, evidence, profile, marked>>

Start(w) ==
    \/ StartDaily(w) \/ OpenTab(w)
    \/ \E s \in Submissions : StartReplay(w, s) \/ StartMaintain(w, s)

Refresh(w) ==
    \/ ReadEvidence(w) \/ ReadProfile(w) \/ CheckCompletion(w) \/ CheckDigest(w)
    \/ Generate(w) \/ SaveFindsMarker(w) \/ SaveIsStale(w) \/ SaveCommits(w)

Step(w) ==
    \/ RecordEvidence(w) \/ ReadSession(w) \/ WriteSession(w) \/ Report(w)
    \/ Claim(w) \/ SetPending(w) \/ Refresh(w) \/ Settle(w)
    \/ LoadTab(w) \/ MergeAnswer(w) \/ ReadForPatch(w) \/ WritePatch(w)

Fail(w) == RefreshFails(w) \/ SettleFails(w) \/ Abort(w)

Next == \E w \in Workers : Graded(w) \/ Start(w) \/ Step(w) \/ Fail(w)

Spec == Init /\ [][Next]_memoryVars

(***************************************************************************)
(* A request keeps running: its storage and provider calls return.         *)
(* Nothing is assumed about requests arriving or about failures.           *)
(***************************************************************************)
FairSpec == Spec /\ \A w \in Workers : WF_memoryVars(Step(w))

-----------------------------------------------------------------------------

(***************************************************************************)
(* The notes hold every marked completion exactly once, and no other: no   *)
(* refresh counts evidence twice or overwrites what another one saved      *)
(* (ReplaceProfileAndMarkCompletionIfVersion, ReplaceProfileIfVersion).    *)
(***************************************************************************)
Folded == {profile.folded[i] : i \in DOMAIN profile.folded}

ProfileIsLedger ==
    /\ Folded = marked
    /\ \A i, j \in DOMAIN profile.folded :
         profile.folded[i] = profile.folded[j] => i = j

(***************************************************************************)
(* A session that says synced for a submission had that submission folded  *)
(* into the profile, so the generation it lets through sees it             *)
(* (refreshMemory, MaintainProfile, HasPendingMemoryUpdate).               *)
(***************************************************************************)
SyncedIsRecorded ==
    Configured /\ session.memory = "synced" /\ session.owner # NoSubmission
    => session.owner \in marked

(***************************************************************************)
(* The inductive invariant behind the properties above and below.  The     *)
(* version a refresh read tells whether the profile it read is still the   *)
(* stored one, and "synced" is never known, written or put back for a      *)
(* submission that is not marked.                                          *)
(***************************************************************************)
Role(w) ==
    LET me == worker[w]
    IN  /\ w \in Submissions => me.kind = "owner" /\ me.sub = w
        /\ w \in Helpers => me.kind # "owner"
        /\ me.kind \in {"daily", "tab"} <=> me.sub = NoSubmission
        /\ me.kind = "tab" => "tab" \in HelperKinds
        /\ me.at = "record" => me.kind = "owner"
        /\ me.at \in {"read_session", "write_session"} => me.kind \in {"owner", "replay"}
        /\ me.at \in {"claim", "settle"} => me.kind \in {"owner", "maintain"}
        /\ me.at = "settle" => me.outcome # "none"
        /\ me.at = "report" => me.kind = "replay"
        /\ me.at \in RefreshPoints => me.kind \in {"owner", "maintain", "daily"}
        /\ me.at \in {"load", "edit", "patch"} => me.kind = "tab"
        /\ me.at # "done" => me.reply = "none"

Roles == \A w \in Workers : Role(w)

Based(w) ==
    worker[w].at \in {"check", "generate", "save"} =>
    /\ worker[w].base.version <= profile.version
    /\ UpToDate(w) => worker[w].base.folded = profile.folded

Bases == \A w \in Workers : Based(w)

\* Who knows or was told that its completion is synced.
KnowsSynced(w) ==
    \/ At(w, "settle") /\ worker[w].outcome = "synced"
    \/ ~Is(w, "replay") /\ worker[w].reply = "synced"

KnowledgeIsTrue ==
    Configured => \A w \in Workers : KnowsSynced(w) => worker[w].sub \in marked

TrueOf(row) == row.memory = "synced" /\ row.owner # NoSubmission => row.owner \in marked

SessionsAreTrue ==
    Configured /\ "tab" \notin HelperKinds =>
    /\ TrueOf(session)
    /\ \A w \in Workers : At(w, "write_session") => TrueOf(worker[w].copy)

MemoryInv ==
    /\ TypeOK
    /\ Roles
    /\ Bases
    /\ ProfileIsLedger
    /\ KnowledgeIsTrue
    /\ SessionsAreTrue

(***************************************************************************)
(* However refreshes, retries and failures interleave, they implement an   *)
(* append-only ledger: a completion is folded in once, nothing folded in   *)
(* is lost, and only then is its owner or a retry told "synced".           *)
(***************************************************************************)
ToldSynced ==
    {worker[w].sub : w \in {x \in Workers : ~Is(x, "replay") /\ worker[x].reply = "synced"}}

Ledger ==
    INSTANCE CompletionLedger WITH
        folded <- profile.folded,
        told   <- IF Configured THEN ToldSynced ELSE {}

ImplementsLedger == Ledger!Spec

(***************************************************************************)
(* A refresh never goes on for ever, whatever the other ones save          *)
(* meanwhile: the stale retry of RefreshProfile is the only loop.          *)
(***************************************************************************)
EveryRefreshEnds ==
    \A w \in Workers : (worker[w].at \in ActivePoints) ~> (worker[w].at \in {"done", "dead"})

=============================================================================
