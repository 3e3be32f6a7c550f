------------------------- MODULE ProblemPipelineProofs -------------------------
(***************************************************************************)
(* Proofs about ProblemPipeline, the router it asks and the notes of the   *)
(* profile, for any providers, policies, suites, notes and changes.  The   *)
(* inductive invariant has three parts: what the router has heard          *)
(* (CallFits), how far the job has come (JobFits) and what a refresh holds *)
(* of the profile that it read (RefreshFits).                              *)
(***************************************************************************)
EXTENDS ProblemPipeline, FiniteSetTheorems, SequenceTheorems, TLAPS

-----------------------------------------------------------------------------
(* The router.                                                             *)

\* Who has spoken at each point of a call.
VoiceFits(c) ==
    /\ c.at <= Len(c.route) + 1
    /\ c.pc \in {"send", "stream"} => c.at <= Len(c.route)
    /\ c.pc \in {"idle", "route", "send"} => c.spoke = {}
    /\ c.pc = "stream" => c.spoke \subseteq {c.route[c.at]}
    /\ \A p, q \in c.spoke : p = q

CallFits == call \in Call /\ VoiceFits(call) /\ gone \in BOOLEAN

LEMMA IdleFits == Idle \in Call /\ Idle.pc = "idle" /\ Idle.at = 1 /\ Idle.route = <<>> /\ Idle.spoke = {}
BY EmptySeq DEF Idle, Call, Bodies

\* Between two calls.
LEMMA RestFits == ASSUME CallFits, call' = Idle, UNCHANGED gone PROVE CallFits' /\ call'.pc = "idle"
BY IdleFits, EmptySeq DEF CallFits, VoiceFits

\* A request is made to the providers in some order, before any has answered.
LEMMA AskedFits ==
    ASSUME CallFits, NEW policy, NEW stream \in BOOLEAN, Asked(policy, stream), UNCHANGED gone
    PROVE  CallFits' /\ call'.pc # "idle"
<1>1. PICK route \in Routes :
        call' = [Idle EXCEPT !.pc = "route", !.stream = stream, !.route = route]
    BY DEF Asked
<1>2. route \in Seq(Providers)
    BY SeqDef DEF Routes
<1>3. call' \in Call /\ call'.pc = "route" /\ call'.at = 1 /\ call'.route = route /\ call'.spoke = {}
    BY <1>1, <1>2, IdleFits DEF Idle, Call
<1>4. call'.at <= Len(call'.route) + 1
    BY <1>2, <1>3, LenProperties
<1> QED
    BY <1>3, <1>4 DEF CallFits, VoiceFits

LEMMA RouterStepFits ==
    ASSUME CallFits, RouterStep
    PROVE  CallFits' /\ call.pc # "idle" /\ call'.pc # "idle"
<1> DEFINE next == call.at + 1
<1>1. /\ Len(call.route) \in Nat /\ call.at \in Nat /\ next \in Nat \ {0}
      /\ next <= Len(call.route) + 1 <=> call.at <= Len(call.route)
    BY LenProperties DEF CallFits, Call
<1>2. call.pc \in {"send", "stream"} => Asking \in Providers
    BY <1>1, ElementOfSeq DEF CallFits, VoiceFits, Call, Asking
<1> HIDE DEF next
\* The call ends; or the next provider is asked, when none has spoken.
<1>3. ASSUME NEW result \in {"object", "invalid", "error"}, Return(result), UNCHANGED gone
      PROVE  CallFits' /\ call'.pc # "idle"
    <2>1. call' \in Call /\ call'.pc = "done"
        BY <1>3 DEF Return, CallFits, Call
    <2>2. call'.at = call.at /\ call'.route = call.route /\ call'.spoke = call.spoke
        BY <1>3 DEF Return, CallFits, Call
    <2> QED
        BY <1>3, <2>1, <2>2 DEF CallFits, VoiceFits
<1>4. ASSUME call' = [call EXCEPT !.pc = "route", !.at = next],
             call.at <= Len(call.route), call.spoke = {}, UNCHANGED gone
      PROVE  CallFits' /\ call'.pc # "idle"
    <2>1. call' \in Call /\ call'.pc = "route"
        BY <1>1, <1>4 DEF CallFits, Call
    <2>2. call'.at = next /\ call'.route = call.route /\ call'.spoke = {}
        BY <1>4 DEF CallFits, Call
    <2> QED
        BY <1>1, <1>4, <2>1, <2>2 DEF CallFits, VoiceFits
<1>5. CASE GiveUp
    BY <1>3, <1>5 DEF GiveUp
<1>6. CASE PassOver
    <2>1. call' = [call EXCEPT !.at = next] /\ call.pc = "route"
        BY <1>6 DEF PassOver, next
    <2>2. call' = [call EXCEPT !.pc = "route", !.at = next]
        BY <2>1 DEF CallFits, Call
    <2> QED
        BY <1>4, <1>6, <2>2 DEF PassOver, CallFits, VoiceFits
<1>7. CASE Take
    <2>1. call' \in Call /\ call'.pc \in {"send", "stream"}
        BY ZenonT(60), <1>7 DEF Take, CallFits, Call, Bodies
    <2>2. call'.at = call.at /\ call'.route = call.route /\ call'.spoke = {}
        BY ZenonT(60), <1>7 DEF Take, CallFits, VoiceFits, Call
    <2> QED
        BY <1>1, <1>7, <2>1, <2>2 DEF Take, CallFits, VoiceFits
<1>8. ASSUME NEW result \in {"object", "invalid"}, Content(result)
      PROVE  CallFits' /\ call.pc # "idle" /\ call'.pc # "idle"
    <2>1. call' \in Call /\ call'.pc = "done"
        BY <1>2, <1>8 DEF Content, CallFits, Call
    <2>2. call'.at = call.at /\ call'.route = call.route /\ call'.spoke = {Asking}
        BY <1>8 DEF Content, CallFits, VoiceFits, Call
    <2> QED
        BY <1>8, <2>1, <2>2 DEF Content, CallFits, VoiceFits
\* Rejected, the request is repeated with another body, or the next provider is asked.
<1>9. ASSUME NEW body \in Bodies, call.pc = "send", UNCHANGED gone,
             call' = [call EXCEPT !.body = body] \/ Fallback
      PROVE  CallFits' /\ call.pc # "idle" /\ call'.pc # "idle"
    <2>1. CASE call' = [call EXCEPT !.body = body]
        <3>1. call' \in Call /\ call'.pc = "send"
            BY <1>9, <2>1 DEF CallFits, Call
        <3>2. call'.at = call.at /\ call'.route = call.route /\ call'.spoke = call.spoke
            BY <2>1 DEF CallFits, Call
        <3> QED
            BY <1>9, <3>1, <3>2 DEF CallFits, VoiceFits
    <2>2. CASE Fallback
        BY <1>4, <1>9, <2>2 DEF Fallback, next, CallFits, VoiceFits
    <2> QED
        BY <1>9, <2>1, <2>2
<1>10. CASE RejectsFormat
    BY <1>9, <1>10 DEF RejectsFormat, Bodies
<1>11. CASE RejectsLimit
    BY <1>9, <1>11 DEF RejectsLimit, Bodies
<1>12. CASE SendFails
    BY <1>9, <1>12 DEF SendFails, Bodies
<1>13. CASE Emits
    <2>1. call' \in Call /\ call'.pc = "stream"
        BY <1>2, <1>13 DEF Emits, CallFits, Call
    <2>2. call'.at = call.at /\ call'.route = call.route /\ call'.spoke = {Asking}
        BY <1>13 DEF Emits, CallFits, VoiceFits, Call, Asking
    <2> QED
        BY <1>13, <2>1, <2>2 DEF Emits, CallFits, VoiceFits, Asking
<1>14. CASE StreamEnds
    BY <1>3, <1>14 DEF StreamEnds
<1>15. CASE StreamFails
    <2>1. CASE Asking \in call.spoke \/ gone
        BY <1>3, <1>15, <2>1 DEF StreamFails
    <2>2. CASE ~(Asking \in call.spoke \/ gone)
        <3>1. call.spoke = {} /\ call.at <= Len(call.route)
            BY <1>15, <2>2 DEF StreamFails, CallFits, VoiceFits, Asking
        <3> QED
            BY <1>4, <1>15, <2>2, <3>1 DEF StreamFails, Fallback, next
    <2> QED
        BY <2>1, <2>2
<1> QED
    BY <1>5, <1>6, <1>7, <1>8, <1>10, <1>11, <1>12, <1>13, <1>14, <1>15
    DEF RouterStep, AnswersObject, AnswersProse

LEMMA OneSpeaks == CallFits => OneVoice
<1> SUFFICES ASSUME CallFits PROVE OneVoice
    OBVIOUS
<1>1. CASE call.spoke = {}
    BY <1>1, FS_EmptySet DEF OneVoice
<1>2. CASE call.spoke # {}
    <2>1. PICK p : call.spoke = {p}
        BY <1>2 DEF CallFits, VoiceFits
    <2>2. Cardinality({p}) = 1
        BY FS_Singleton
    <2> QED
        BY <2>1, <2>2 DEF OneVoice
<1> QED
    BY <1>1, <1>2

-----------------------------------------------------------------------------
(* The notes.                                                              *)

LEMMA BlankIsNote == ASSUME NEW now \in Nat PROVE Blank(now) \in Note
BY DEF Blank, NoNote, Note

LEMMA NoNotesFit == NoNotes \in Notes /\ IdsOf(NoNotes) = {}
BY DEF NoNotes, Notes, IdsOf

LEMMA MergedIsNote ==
    ASSUME NEW note \in Note, NEW change \in Change, change.action # "prune"
    PROVE  Merged(note, change) \in Note
BY DEF Merged, Note, Change

\* A change that may be applied is about some note, there or not.
LEMMA TargetIsId ==
    ASSUME NEW change \in Change, NEW held \in Notes, Acceptable(change, held), NEW notes,
           NEW owner \in [Problems \union Titles -> NoteIds \union {Nothing}]
    PROVE  Target(change, notes, owner) \in NoteIds
<1> DEFINE given == IF change.id = Nothing THEN Slug[change.title] ELSE change.id
<1>1. given \in NoteIds
    <2>1. CASE change.id = Nothing
        BY <2>1, NotesAssumption DEF Acceptable, Change, IdsOf
    <2>2. CASE change.id # Nothing
        BY <2>2 DEF Change
    <2> QED
        BY <2>1, <2>2
<1>2. Owned(change.problem, owner) => owner[change.problem] \in NoteIds
    BY DEF Owned, Change
<1>3. Owned(change.title, owner) => owner[change.title] \in NoteIds
    BY DEF Owned, Change
<1> QED
    BY <1>1, <1>2, <1>3 DEF Target

\* What a change leaves alone.
SameReading(u, v) ==
    /\ v.source = u.source /\ v.problem = u.problem /\ v.now = u.now /\ v.version = u.version
    /\ v.topics = u.topics /\ v.held = u.held /\ v.before = u.before
    /\ v.drafted = u.drafted /\ v.summary = u.summary /\ v.skills = u.skills

LEMMA AppliedFits ==
    ASSUME NEW change \in Changes, NEW u \in Upkeep, NEW held \in Notes, Acceptable(change, held)
    PROVE  Applied(change, u) \in Upkeep /\ SameReading(u, Applied(change, u))
<1> DEFINE i == Target(change, u.notes, u.owner)
           known == i \in IdsOf(u.notes)
           note == Merged(IF known THEN u.notes[i] ELSE Blank(u.now), change)
           pruned == [u.notes EXCEPT ![i] = NoNote]
           edited == [u.notes EXCEPT ![i] = note]
           owner == [c \in DOMAIN u.owner |-> IF c \in Concepts(note) THEN i ELSE u.owner[c]]
           fresh == IF known \/ i \in IdsOf(u.held) THEN u.fresh ELSE Append(u.fresh, i)
           changes == u.changes + 1
<1>1. change \in Change /\ u.notes \in Notes /\ u.now \in Nat /\ changes \in Nat
      /\ u.owner \in [Problems \union Titles -> NoteIds \union {Nothing}]
      /\ u.fresh \in Seq(NoteIds)
    BY ChangesAssumption DEF Upkeep
<1>2. i \in NoteIds
    BY <1>1, TargetIsId
<1>3. change.op # "prune" => note \in Note
    <2>1. known => u.notes[i] \in Note
        BY <1>1, <1>2 DEF IdsOf, Notes
    <2>2. change.op # "prune" => change.action # "prune"
        BY DEF Acceptable
    <2> QED
        BY <1>1, <2>1, <2>2, BlankIsNote, MergedIsNote
<1>4. pruned \in Notes /\ (change.op # "prune" => edited \in Notes)
    BY <1>1, <1>2, <1>3 DEF Notes
<1>5. owner \in [Problems \union Titles -> NoteIds \union {Nothing}]
    BY <1>1, <1>2
<1>6. fresh \in Seq(NoteIds)
    BY <1>1, <1>2, AppendProperties
<1>7. CASE change.op = "prune"
    <2>1. Applied(change, u) = [u EXCEPT !.changes = changes, !.notes = pruned]
        BY <1>7 DEF Applied
    <2> HIDE DEF changes, pruned
    <2> QED
        BY <1>1, <1>4, <2>1 DEF Upkeep, SameReading
<1>8. CASE change.op # "prune"
    <2>1. Applied(change, u) = [u EXCEPT !.changes = changes, !.notes = edited, !.owner = owner, !.fresh = fresh]
        BY <1>8 DEF Applied
    <2> HIDE DEF changes, edited, owner, fresh
    <2> QED
        BY ZenonT(60), <1>1, <1>4, <1>5, <1>6, <1>8, <2>1 DEF Upkeep, SameReading
<1> QED
    BY <1>7, <1>8

LEMMA OnlyFits == ASSUME NEW notes \in Notes, NEW top PROVE Only(top, notes) \in Notes
BY DEF Only, Notes

LEMMA NewUpkeepFits ==
    ASSUME NEW source \in Sources, NEW problem \in Problems \union {Nothing}
    PROVE  NewUpkeep(source, problem) \in Upkeep
<1>1. NoOwners \in [Problems \union Titles -> NoteIds \union {Nothing}]
    BY DEF NoOwners
<1>2. <<>> \in Seq(NoteIds)
    BY EmptySeq
<1> QED
    BY <1>1, <1>2, NoNotesFit DEF NewUpkeep, Upkeep

LEMMA LoadedFits ==
    ASSUME NEW u \in Upkeep, NEW version \in Nat, book \in Book
    PROVE  Loaded(u, version) \in Upkeep
<1> DEFINE owner == OwnersOf(book.notes)
           fresh == <<>>
           notes == book.notes
           before == book.summary
           none == 0
<1>1. owner \in [Problems \union Titles -> NoteIds \union {Nothing}]
    BY DEF OwnersOf, IdsOf
<1>2. fresh \in Seq(NoteIds) /\ notes \in Notes /\ before \in Nat /\ none \in Nat
    BY EmptySeq DEF Book
<1> DEFINE read == [u EXCEPT !.version = version, !.held = notes, !.notes = notes, !.before = before,
                             !.owner = owner, !.fresh = fresh, !.changes = none]
<1>3. Loaded(u, version) = [read EXCEPT !.drafted = (u.source = "none")]
    BY DEF Loaded, Upkeep
<1> HIDE DEF owner, fresh, notes, before, none
<1>4. read \in Upkeep
    BY <1>1, <1>2 DEF Upkeep
<1> HIDE DEF read
<1>5. [read EXCEPT !.drafted = TRUE] \in Upkeep /\ [read EXCEPT !.drafted = FALSE] \in Upkeep
    BY <1>4 DEF Upkeep
<1>6. CASE u.source = "none"
    <2>1. Loaded(u, version) = [read EXCEPT !.drafted = TRUE]
        BY <1>3, <1>6
    <2> QED
        BY <1>5, <2>1
<1>7. CASE u.source # "none"
    <2>1. Loaded(u, version) = [read EXCEPT !.drafted = FALSE]
        BY <1>3, <1>7
    <2> QED
        BY <1>5, <2>1
<1> QED
    BY <1>6, <1>7

LEMMA LoadedReads ==
    ASSUME NEW u \in Upkeep, NEW version
    PROVE  LET v == Loaded(u, version)
           IN  /\ v.source = u.source /\ v.problem = u.problem /\ v.now = u.now
               /\ v.topics = u.topics /\ v.summary = u.summary /\ v.skills = u.skills
               /\ v.version = version /\ v.held = book.notes /\ v.notes = book.notes
               /\ v.before = book.summary
               /\ v.drafted <=> u.source = "none"
BY DEF Loaded, Upkeep

LEMMA TidyLater ==
    ASSUME NEW notes \in Notes, NEW now \in Nat, NEW later \in Nat, now <= later, Tidy(notes, now)
    PROVE  Tidy(notes, later)
<1>1. ASSUME NEW i \in IdsOf(notes) PROVE Complete(notes[i], later)
    <2>1. notes[i].created \in Nat
        BY DEF IdsOf, Notes, Note
    <2>2. Complete(notes[i], now)
        BY DEF Tidy
    <2> QED
        BY <2>1, <2>2 DEF Complete
<1> QED
    BY <1>1 DEF Tidy

LEMMA NothingRegresses ==
    ASSUME NEW n \in Nat, NEW living \in Nat \ {0} PROVE ~Regresses(n, n, living)
BY DEF Regresses

LEMMA NotesKeepThemselves == ASSUME NEW notes \in Notes PROVE Keeps(notes, notes)
<1>1. ASSUME NEW i \in IdsOf(notes)
      PROVE  ~Regresses(notes[i].length, notes[i].length, minLivingNoteRunes)
    <2>1. notes[i] \in Note
        BY DEF IdsOf, Notes
    <2>2. Lengths \union {0} \subseteq Nat
        BY NotesAssumption
    <2>3. notes[i].length \in Nat
        BY <2>1, <2>2 DEF Note
    <2>4. minLivingNoteRunes \in Nat \ {0}
        BY DEF minLivingNoteRunes
    <2> QED
        BY <2>3, <2>4, NothingRegresses
<1> QED
    BY <1>1 DEF Keeps

-----------------------------------------------------------------------------
(* The invariant.                                                          *)

\* How far a job has come, and what it has stored.
Closing == {"report", "over"}

SuiteFits ==
    /\ job.pc \in {"judge", "appeal", "ruling"} => job.kind = "problem" /\ Presentable(job.suite)
    /\ job.kind = "problem" /\ job.pc = "save" =>
           job.suite = job.ran /\ AllPass(job.suite) /\ Presentable(job.suite)
    /\ stored # NoSuite =>
           /\ job.kind = "problem" /\ job.pc \in Closing
           /\ stored = job.ran /\ AllPass(stored) /\ Presentable(stored)
    /\ VisibilityIsTheDrafts

OutcomeFits ==
    /\ job.pc \notin Closing => job.outcome = "none"
    /\ job.pc = "report" => job.outcome \in {"none", "failed"}
    /\ job.pc # "over" => job.noted = "none"
    /\ job.kind = "problem" /\ job.pc = "report" /\ job.outcome = "none" => stored # NoSuite
    /\ AnnouncedIsStored

\* The drafts of a problem are all asked with what was read once.
SnapshotFits ==
    job.kind \in {"problem", "mcq"} =>
        /\ job.pc \in {"begin", "load"} => job.used = {}
        /\ job.pc \in {"ask", "waiting", "check"} => job.used \subseteq {job.evidence}
        /\ \A v, w \in job.used : v = w

JobFits ==
    /\ job \in Job /\ stored \in Suite
    /\ profile \in 0..MaxProfiles + 1
    /\ profile = MaxProfiles + 1 => job.kind = "profile" /\ job.pc \in Closing
    /\ job.pc \in {"waiting", "ruling"} <=> call.pc # "idle"
    /\ job.pc = "events" => job.kind = "profile"
    /\ job.pc = "save" => job.kind \in {"problem", "profile"}
    /\ SuiteFits /\ OutcomeFits /\ SnapshotFits

\* What a refresh has drafted was made from what it read.
DraftFits(u, now) ==
    /\ Tidy(u.notes, now)
    /\ Keeps(u.held, u.notes)
    /\ u.source = "coding" => Minds(u.held, u.notes, u.problem)

UpkeepFits(u, now) ==
    /\ u.topics \subseteq practised /\ u.skills \subseteq practised
    /\ u.now <= now /\ u.version <= now
    /\ u.drafted => DraftFits(u, now)

Refreshing == job.kind = "profile" /\ job.pc \in {"ask", "waiting", "check", "save"}

\* As long as its version is the one it read, the profile is what a refresh holds.
RefreshFits ==
    /\ NotesTypeOK
    /\ NotesAreTidy /\ SkillsAreEvidenced
    /\ UpkeepFits(upkeep, profile)
    /\ Refreshing /\ profile = upkeep.version =>
           book.notes = upkeep.held /\ book.summary = upkeep.before
    /\ Refreshing /\ job.pc = "save" =>
           upkeep.drafted /\ ~Regresses(upkeep.before, upkeep.summary, minLivingSummaryRunes)

Inv == CallFits /\ JobFits /\ RefreshFits

LEMMA NoSuiteFits == NoSuite \in Suite /\ CasesOf(NoSuite) = {}
BY DEF NoSuite, Suite, CasesOf

LEMMA NewJobFits ==
    ASSUME NEW kind \in Kinds, NEW policy \in Policy
    PROVE  NewJob(kind, policy) \in Job
BY NoSuiteFits, PipelineAssumption DEF NewJob, Job, maxPasses

LEMMA InitInv == Init => Inv
<1> SUFFICES ASSUME Init PROVE Inv
    OBVIOUS
<1>1. PICK kind \in Kinds, policy \in Policy : job = NewJob(kind, policy)
    <2>1. PICK kind \in Kinds : \E policy \in Policies[kind] : job = NewJob(kind, policy)
        BY DEF Init
    <2>2. Policies[kind] \subseteq Policy
        BY PipelineAssumption
    <2> QED
        BY <2>1, <2>2
<1>2. CallFits
    <2>1. call = Idle /\ gone \in BOOLEAN
        BY DEF Init, RouterInit
    <2>2. Len(<<>>) = 0
        OBVIOUS
    <2> QED
        BY <2>1, <2>2, IdleFits DEF CallFits, VoiceFits
<1>3. JobFits
    <2>1. job \in Job /\ stored \in Suite /\ profile = 0
        BY <1>1, NewJobFits, NoSuiteFits DEF Init
    <2>2. /\ job.pc = "begin" /\ job.outcome = "none" /\ job.noted = "none" /\ job.used = {}
          /\ job.suite = NoSuite /\ stored = NoSuite /\ call.pc = "idle"
        BY <1>1, IdleFits DEF Init, RouterInit, NewJob
    <2>3. profile \in 0..MaxProfiles + 1 /\ profile # MaxProfiles + 1
        BY <2>1, PipelineAssumption
    <2>4. SuiteFits
        BY <2>2, NoSuiteFits DEF SuiteFits, Closing, VisibilityIsTheDrafts
    <2>5. OutcomeFits /\ SnapshotFits
        BY <2>2 DEF OutcomeFits, SnapshotFits, Closing, AnnouncedIsStored
    <2> QED
        BY <2>1, <2>2, <2>3, <2>4, <2>5 DEF JobFits
<1>4. RefreshFits
    <2>1. book \in Book /\ Tidy(book.notes, 0) /\ book.skills = {} /\ practised = {} /\ profile = 0
        BY PipelineAssumption DEF Init
    <2>2. upkeep \in Upkeep
        BY NewUpkeepFits DEF Init, Sources
    <2>3. /\ upkeep.topics = {} /\ upkeep.skills = {} /\ upkeep.now = 0 /\ upkeep.version = 0
          /\ ~upkeep.drafted
        BY DEF Init, NewUpkeep
    <2>4. job.pc = "begin"
        BY <1>1 DEF NewJob
    <2> QED
        BY <2>1, <2>2, <2>3, <2>4
        DEF RefreshFits, NotesTypeOK, NotesAreTidy, SkillsAreEvidenced, UpkeepFits, Refreshing
<1> QED
    BY <1>2, <1>3, <1>4 DEF Inv

-----------------------------------------------------------------------------
(* Steps that leave suites and notes alone.                                *)

\* The points of a job at which a draft is tried.
Trying == {"judge", "appeal", "ruling"}

Numbered == profile' \in 0..MaxProfiles + 1
            /\ (profile' = MaxProfiles + 1 => job'.kind = "profile" /\ job'.pc \in Closing)

LEMMA NumberRests == ASSUME JobFits, job.pc \notin Closing, UNCHANGED profile PROVE Numbered
BY DEF JobFits, Numbered

\* What a step leaves alone that only moves the job on.
SameSuites(j, k) ==
    /\ j.kind = k.kind /\ j.suite = k.suite /\ j.draft = k.draft /\ j.ran = k.ran
    /\ j.reborn = k.reborn /\ j.noted = k.noted

LEMMA JobMoves ==
    ASSUME JobFits, job.pc \notin Closing, UNCHANGED stored, job' \in Job, SameSuites(job', job),
           job'.pc # "over",
           job'.outcome = "none" \/ (job'.outcome = "failed" /\ job'.pc = "report"),
           job'.pc \in Trying => job.pc \in Trying,
           job'.pc \in {"save", "events"} => job.kind = "profile",
           job'.pc = "report" /\ job'.outcome = "none" => job.kind # "problem",
           job'.pc \in {"waiting", "ruling"} <=> call'.pc # "idle",
           SnapshotFits', Numbered
    PROVE  JobFits'
<1>1. stored = NoSuite /\ stored' = stored /\ stored \in Suite /\ job.noted = "none"
    BY DEF JobFits, SuiteFits, OutcomeFits, Closing
<1>2. SuiteFits'
    <2>1. job'.pc \in Trying => job'.kind = "problem" /\ Presentable(job'.suite)
        BY DEF JobFits, SuiteFits, SameSuites, Trying
    <2>2. ~(job'.kind = "problem" /\ job'.pc = "save")
        BY DEF SameSuites
    <2>3. VisibilityIsTheDrafts'
        BY DEF JobFits, SuiteFits, SameSuites, VisibilityIsTheDrafts
    <2> QED
        BY <1>1, <2>1, <2>2, <2>3 DEF SuiteFits, Trying
<1>3. OutcomeFits'
    BY <1>1 DEF OutcomeFits, Closing, AnnouncedIsStored, SameSuites
<1> QED
    BY <1>1, <1>2, <1>3 DEF JobFits, Numbered, SameSuites

\* The snapshot does not change once the drafts are asked with it.
LEMMA SnapshotRests ==
    ASSUME SnapshotFits, job'.kind = job.kind, job'.used = job.used, job'.evidence = job.evidence,
           job'.kind \in {"problem", "mcq"} =>
               /\ job'.pc \in {"begin", "load"} => job.pc \in {"begin", "load"}
               /\ job'.pc \in {"ask", "waiting", "check"} => job.pc \in {"ask", "waiting", "check"}
    PROVE  SnapshotFits'
BY DEF SnapshotFits

LEMMA FailFits ==
    ASSUME JobFits, job.pc \notin Closing, Fail, UNCHANGED stored, call'.pc = "idle", Numbered
    PROVE  JobFits' /\ job'.pc = "report" /\ job'.kind = job.kind
<1>1. job' \in Job /\ job'.pc = "report" /\ job'.outcome = "failed"
    BY DEF Fail, JobFits, Job
<1>2. SameSuites(job', job) /\ job'.used = job.used /\ job'.evidence = job.evidence
    BY DEF Fail, JobFits, Job, SameSuites
<1>3. SnapshotFits'
    BY <1>1, <1>2, SnapshotRests DEF JobFits, SameSuites
<1> QED
    BY <1>1, <1>2, <1>3, JobMoves DEF Trying, SameSuites

LEMMA GotoFits ==
    ASSUME JobFits, job.pc \notin Closing, UNCHANGED stored, Numbered,
           NEW point \in {"load", "ask", "waiting", "check", "ruling", "save", "report"}, Goto(point),
           point = "ruling" => job.pc \in Trying,
           point = "save" => job.kind = "profile",
           point = "report" => job.kind # "problem",
           point \in {"waiting", "ruling"} <=> call'.pc # "idle",
           job.kind \in {"problem", "mcq"} =>
               /\ point = "load" => job.pc \in {"begin", "load"}
               /\ point \in {"ask", "waiting", "check"} => job.pc \in {"ask", "waiting", "check"}
    PROVE  JobFits' /\ job'.pc = point /\ job'.kind = job.kind
<1>1. job' \in Job /\ job'.pc = point /\ job'.outcome = job.outcome
    BY DEF Goto, JobFits, Job
<1>2. SameSuites(job', job) /\ job'.used = job.used /\ job'.evidence = job.evidence
    BY DEF Goto, JobFits, Job, SameSuites
<1>3. SnapshotFits'
    BY <1>1, <1>2, SnapshotRests DEF JobFits, SameSuites
<1>4. job.outcome = "none"
    BY DEF JobFits, OutcomeFits
<1> QED
    BY <1>1, <1>2, <1>3, <1>4, JobMoves DEF Trying, SameSuites

LEMMA RefreshRests ==
    ASSUME RefreshFits, UNCHANGED <<profile, notesVars>>,
           Refreshing' => Refreshing /\ (job'.pc = "save" => job.pc = "save")
    PROVE  RefreshFits'
<1>1. UNCHANGED <<profile, book, practised, upkeep>>
    BY DEF notesVars
<1>2. NotesTypeOK' /\ NotesAreTidy' /\ SkillsAreEvidenced'
    BY <1>1 DEF RefreshFits, NotesTypeOK, NotesAreTidy, SkillsAreEvidenced
<1>3. UpkeepFits(upkeep, profile)'
    BY <1>1 DEF RefreshFits, UpkeepFits
<1> QED
    BY <1>1, <1>2, <1>3 DEF RefreshFits

LEMMA CallRests == ASSUME CallFits, UNCHANGED <<call, gone>> PROVE CallFits' /\ call'.pc = call.pc
BY DEF CallFits

\* A step of the job that leaves the notes alone and does not begin to use them.
LEMMA Rests ==
    ASSUME Inv, CallFits', JobFits', UNCHANGED <<profile, notesVars>>,
           Refreshing' => Refreshing /\ (job'.pc = "save" => job.pc = "save")
    PROVE  Inv'
BY RefreshRests DEF Inv

\* A job that waits for no answer fails.
LEMMA FailInv ==
    ASSUME Inv, Fail, job.pc \notin Closing \union {"waiting", "ruling"},
           UNCHANGED <<call, gone, profile, stored, notesVars>>
    PROVE  Inv'
<1>1. CallFits' /\ call'.pc = "idle"
    BY CallRests DEF Inv, JobFits
<1>2. Numbered
    BY NumberRests DEF Inv
<1>3. JobFits' /\ job'.pc = "report"
    BY <1>1, <1>2, FailFits DEF Inv
<1> QED
    BY <1>1, <1>3, Rests DEF Refreshing

LEMMA RefuseInv == ASSUME Inv, Refuse PROVE Inv'
<1>1. CallFits'
    BY CallRests DEF Refuse, Inv
<1>2. job' \in Job /\ job'.pc = "over" /\ job'.outcome = "refused" /\ job.pc = "begin"
    BY DEF Refuse, At, Inv, JobFits, Job
<1>3. SameSuites(job', job) /\ job'.used = job.used /\ stored' = stored /\ profile' = profile /\ call' = call
    BY DEF Refuse, At, Inv, JobFits, Job, SameSuites
<1>4. stored = NoSuite /\ job.noted = "none" /\ profile # MaxProfiles + 1
    BY <1>2 DEF Inv, JobFits, SuiteFits, OutcomeFits, Closing
<1>5. JobFits'
    <2>1. SuiteFits'
        BY <1>2, <1>3, <1>4 DEF Inv, JobFits, SuiteFits, SameSuites, VisibilityIsTheDrafts
    <2>2. OutcomeFits'
        BY <1>2, <1>3, <1>4 DEF OutcomeFits, Closing, AnnouncedIsStored, SameSuites
    <2>3. SnapshotFits'
        BY <1>2, <1>3 DEF Inv, JobFits, SnapshotFits, SameSuites
    <2> QED
        BY <1>2, <1>3, <1>4, <2>1, <2>2, <2>3 DEF Inv, JobFits, SameSuites
<1> QED
    BY <1>1, <1>2, <1>5, Rests DEF Refuse, Refreshing

LEMMA BeginInv == ASSUME Inv, Begin PROVE Inv'
<1>1. CallFits' /\ call'.pc = "idle" /\ job.pc = "begin"
    BY CallRests DEF Begin, At, Inv, JobFits
<1>2. Numbered
    BY <1>1, NumberRests DEF Begin, Inv, Closing
<1>3. JobFits' /\ job'.kind = job.kind
    <2>1. CASE job.kind = "chat"
        BY <1>1, <1>2, <2>1, GotoFits DEF Begin, Inv, Closing
    <2>2. CASE job.kind # "chat"
        BY <1>1, <1>2, <2>2, GotoFits DEF Begin, Inv, Closing
    <2> QED
        BY <2>1, <2>2
<1> QED
    BY <1>1, <1>3, Rests DEF Begin, Refreshing

LEMMA LoadProfileInv == ASSUME Inv, LoadProfile PROVE Inv'
<1>1. CallFits' /\ call'.pc = "idle" /\ job.pc = "load"
    BY CallRests DEF LoadProfile, At, Inv, JobFits
<1>2. Numbered
    BY <1>1, NumberRests DEF LoadProfile, Inv, Closing
<1>3. job' \in Job /\ job'.pc = "ask" /\ job'.outcome = "none"
    BY <1>1 DEF LoadProfile, Inv, JobFits, OutcomeFits, Closing, Job
<1>4. SameSuites(job', job) /\ job'.used = job.used
    BY DEF LoadProfile, Inv, JobFits, Job, SameSuites
<1>5. SnapshotFits'
    BY <1>1, <1>3, <1>4 DEF Inv, JobFits, SnapshotFits, SameSuites
<1>6. JobFits'
    BY <1>1, <1>2, <1>3, <1>4, <1>5, JobMoves DEF LoadProfile, Inv, Trying, Closing
<1> QED
    BY <1>1, <1>4, <1>6, Rests DEF LoadProfile, Refreshing, SameSuites

LEMMA AskInv == ASSUME Inv, Ask PROVE Inv'
<1>1. CallFits' /\ call'.pc # "idle" /\ job.pc = "ask"
    BY AskedFits DEF Ask, At, Inv
<1>2. Numbered
    BY <1>1, NumberRests DEF Ask, Inv, Closing
<1>3. job' \in Job /\ job'.pc = "waiting" /\ job'.outcome = "none"
    BY <1>1 DEF Ask, Inv, JobFits, OutcomeFits, Closing, Job
<1>4. /\ SameSuites(job', job)
      /\ job'.used = job.used \union {job.evidence} /\ job'.evidence = job.evidence
    BY DEF Ask, Inv, JobFits, Job, SameSuites
<1>5. SnapshotFits'
    BY <1>1, <1>3, <1>4 DEF Inv, JobFits, SnapshotFits, SameSuites
<1>6. JobFits'
    BY <1>1, <1>2, <1>3, <1>4, <1>5, JobMoves DEF Ask, Inv, Trying, Closing
<1> QED
    BY <1>1, <1>3, <1>4, <1>6, Rests DEF Ask, Refreshing, SameSuites

LEMMA UnansweredInv ==
    ASSUME Inv, Fail, At("waiting") \/ At("ruling"), call' = Idle,
           UNCHANGED <<gone, profile, stored, notesVars>>
    PROVE  Inv'
<1>1. CallFits' /\ call'.pc = "idle" /\ job.pc \notin Closing
    BY RestFits DEF At, Inv, Closing
<1>2. Numbered
    BY <1>1, NumberRests DEF Inv
<1>3. JobFits' /\ job'.pc = "report"
    BY <1>1, <1>2, FailFits DEF Inv
<1> QED
    BY <1>1, <1>3, Rests DEF Refreshing

LEMMA AnsweredInv == ASSUME Inv, Answered PROVE Inv'
<1>1. CallFits' /\ call'.pc = "idle" /\ job.pc = "waiting"
    BY RestFits DEF Answered, At, Inv
<1>2. Numbered
    BY <1>1, NumberRests DEF Answered, Inv, Closing
<1>3. JobFits' /\ job'.kind = job.kind /\ job'.pc \in {"check", "report"}
    <2>1. CASE job.kind = "chat"
        BY <1>1, <1>2, <2>1, GotoFits DEF Answered, Inv, Closing
    <2>2. CASE job.kind # "chat"
        BY <1>1, <1>2, <2>2, GotoFits DEF Answered, Inv, Closing
    <2> QED
        BY <2>1, <2>2
<1> QED
    BY <1>1, <1>3, Rests DEF Answered, Refreshing

LEMMA RejectInv == ASSUME Inv, Reject PROVE Inv'
<1>1. CallFits' /\ call'.pc = "idle" /\ job.pc = "check"
    BY CallRests DEF Reject, At, Inv, JobFits
<1>2. CASE job.attempt < MaxAttempts(job.kind)
    <2> DEFINE next == job.attempt + 1
               point == IF job.kind = "assessment" THEN "load" ELSE "ask"
    <2>0. job.kind \in {"problem", "mcq", "assessment"} /\ next \in 1..2
        BY <1>2 DEF MaxAttempts, Inv, JobFits, Job
    <2>1. job' \in Job /\ job.kind \in {"problem", "mcq", "assessment"}
        <3>1. job' = [job EXCEPT !.attempt = next, !.pc = point] /\ point \in {"load", "ask"}
            BY <1>2 DEF Reject
        <3> HIDE DEF next, point
        <3> QED
            BY <2>0, <3>1 DEF Inv, JobFits, Job
    <2>2. /\ SameSuites(job', job) /\ job'.used = job.used /\ job'.evidence = job.evidence
          /\ job'.pc = (IF job.kind = "assessment" THEN "load" ELSE "ask")
          /\ job'.outcome = "none"
        BY <1>1, <1>2 DEF Reject, Inv, JobFits, OutcomeFits, Closing, Job, SameSuites
    <2>3. SnapshotFits'
        BY <1>1, <2>2, SnapshotRests DEF Inv, JobFits, SameSuites
    <2>4. Numbered
        BY <1>1, NumberRests DEF Reject, Inv, Closing
    <2>5. JobFits'
        BY <1>1, <2>1, <2>2, <2>3, <2>4, JobMoves DEF Reject, Inv, Trying, Closing
    <2> QED
        BY <1>1, <2>1, <2>2, <2>5, Rests DEF Reject, Refreshing, SameSuites
<1>3. CASE ~(job.attempt < MaxAttempts(job.kind))
    BY <1>1, <1>3, FailInv DEF Reject, Closing
<1> QED
    BY <1>2, <1>3

LEMMA AcceptAnswerInv == ASSUME Inv, AcceptAnswer PROVE Inv'
<1>1. CallFits' /\ call'.pc = "idle" /\ job.pc = "check"
    BY CallRests DEF AcceptAnswer, At, Inv, JobFits
<1>2. Numbered
    BY <1>1, NumberRests DEF AcceptAnswer, Inv, Closing
<1>3. JobFits' /\ job'.pc = "report"
    BY <1>1, <1>2, GotoFits DEF AcceptAnswer, Inv, Closing
<1> QED
    BY <1>1, <1>3, Rests DEF AcceptAnswer, Refreshing

LEMMA AdjudicateInv == ASSUME Inv, Adjudicate PROVE Inv'
<1>1. CallFits' /\ call'.pc # "idle" /\ job.pc = "appeal"
    BY AskedFits DEF Adjudicate, At, Inv
<1>2. Numbered
    BY <1>1, NumberRests DEF Adjudicate, Inv, Closing
<1>3. JobFits' /\ job'.pc = "ruling"
    BY <1>1, <1>2, GotoFits DEF Adjudicate, Inv, Closing, Trying
<1> QED
    BY <1>1, <1>3, Rests DEF Adjudicate, Refreshing

-----------------------------------------------------------------------------
(* Steps that make a suite, or store it.                                   *)

LEMMA AcceptProblemInv ==
    ASSUME Inv, NEW suite \in Drafts, NEW strategy \in {"unit", "http"}, AcceptProblem(suite, strategy)
    PROVE  Inv'
<1>1. CallFits' /\ call'.pc = "idle" /\ job.pc = "check" /\ job.kind = "problem"
    BY CallRests DEF AcceptProblem, At, Inv, JobFits
<1>2. /\ stored = NoSuite /\ stored' = NoSuite /\ job.noted = "none" /\ job.outcome = "none"
      /\ profile' = profile /\ profile # MaxProfiles + 1
    BY <1>1 DEF AcceptProblem, Inv, JobFits, SuiteFits, OutcomeFits, Closing
<1>3. suite \in Suite
    BY PipelineAssumption
<1> DEFINE none == 0
<1>4. job' = [job EXCEPT !.pc = "judge", !.strategy = strategy, !.draft = suite,
                         !.suite = suite, !.evidence = none]
    BY DEF AcceptProblem
<1>5. none \in 0..MaxProfiles + 1
    BY PipelineAssumption
<1> HIDE DEF none
<1>6. job' \in Job
    BY <1>3, <1>4, <1>5 DEF Inv, JobFits, Job
<1>7. /\ job'.pc = "judge" /\ job'.kind = "problem" /\ job'.suite = suite /\ job'.draft = suite
      /\ job'.used = job.used /\ job'.outcome = "none" /\ job'.noted = "none"
    BY <1>1, <1>2, <1>4 DEF Inv, JobFits, Job
<1>8. SuiteFits' /\ OutcomeFits' /\ SnapshotFits'
    <2>1. SuiteFits'
        BY <1>2, <1>7 DEF AcceptProblem, SuiteFits, VisibilityIsTheDrafts
    <2>2. OutcomeFits'
        BY <1>7 DEF OutcomeFits, Closing, AnnouncedIsStored
    <2>3. SnapshotFits'
        BY <1>1, <1>7 DEF Inv, JobFits, SnapshotFits
    <2> QED
        BY <2>1, <2>2, <2>3
<1>9. JobFits'
    BY <1>1, <1>2, <1>6, <1>7, <1>8 DEF Inv, JobFits
<1> QED
    BY <1>1, <1>7, <1>9, Rests DEF AcceptProblem, Refreshing

LEMMA RunReferenceInv == ASSUME Inv, RunReference PROVE Inv'
<1>1. CallFits' /\ call'.pc = "idle" /\ job.pc = "judge"
    BY CallRests DEF RunReference, At, Inv, JobFits
<1>2. /\ stored = NoSuite /\ stored' = NoSuite /\ job.noted = "none" /\ job.outcome = "none"
      /\ profile' = profile /\ profile # MaxProfiles + 1
      /\ job.kind = "problem" /\ Presentable(job.suite)
    BY <1>1 DEF RunReference, Inv, JobFits, SuiteFits, OutcomeFits, Closing
<1> DEFINE point == IF AllPass(job.suite) THEN "save" ELSE "appeal"
<1>3. job' = [job EXCEPT !.ran = job.suite, !.pc = point] /\ point \in {"save", "appeal"}
    BY DEF RunReference
<1>4. point = "save" => AllPass(job.suite)
    OBVIOUS
<1> HIDE DEF point
<1>5. job' \in Job
    BY <1>3 DEF Inv, JobFits, Job
<1>6. /\ job'.pc = point /\ job'.kind = "problem" /\ job'.suite = job.suite /\ job'.draft = job.draft
      /\ job'.ran = job.suite /\ job'.reborn = job.reborn
      /\ job'.used = job.used /\ job'.outcome = "none" /\ job'.noted = "none"
    BY <1>2, <1>3 DEF Inv, JobFits, Job
<1>7. SuiteFits' /\ OutcomeFits' /\ SnapshotFits'
    <2>1. VisibilityIsTheDrafts'
        BY <1>6 DEF Inv, JobFits, SuiteFits, VisibilityIsTheDrafts
    <2>2. SuiteFits'
        BY <1>2, <1>3, <1>4, <1>6, <2>1 DEF SuiteFits
    <2>3. OutcomeFits'
        BY <1>3, <1>6 DEF OutcomeFits, Closing, AnnouncedIsStored
    <2>4. SnapshotFits'
        BY <1>2, <1>3, <1>6 DEF Inv, JobFits, SnapshotFits
    <2> QED
        BY <2>2, <2>3, <2>4
<1>8. JobFits'
    BY <1>1, <1>2, <1>3, <1>5, <1>6, <1>7 DEF Inv, JobFits
<1> QED
    BY <1>1, <1>6, <1>8, Rests DEF RunReference, Refreshing

\* A repair leaves the visibility of the cases that it keeps.
LEMMA RepairedFits ==
    ASSUME NEW suite \in Suite, NEW edit \in Edits
    PROVE  /\ Repaired(suite, edit) \in Suite
           /\ \A n \in CasesOf(Repaired(suite, edit)) :
                  n # edit.name \/ Kept(suite, edit) =>
                      n \in CasesOf(suite) /\ Repaired(suite, edit)[n].shown = suite[n].shown
<1>1. edit.name \in Names /\ edit.given \in Case \union {NoCase}
    BY PipelineAssumption DEF Edits
<1>2. CASE ~Kept(suite, edit)
    <2>1. Repaired(suite, edit) = [suite EXCEPT ![edit.name] = edit.given]
        BY <1>2 DEF Repaired
    <2> QED
        BY <1>1, <1>2, <2>1 DEF Suite, CasesOf
<1>3. CASE Kept(suite, edit) /\ edit.given = NoCase
    BY <1>3 DEF Repaired
<1>4. CASE Kept(suite, edit) /\ edit.given # NoCase
    <2> DEFINE old == suite[edit.name]
               new == [old EXCEPT !.right = edit.given.right]
    <2>1. old \in Case /\ edit.given \in Case
        BY <1>1, <1>4 DEF Kept, Suite
    <2>2. new \in Case /\ new.shown = old.shown
        BY <2>1 DEF Case
    <2>3. Repaired(suite, edit) = [suite EXCEPT ![edit.name] = new]
        BY <1>4 DEF Repaired
    <2> HIDE DEF new
    <2> QED
        BY <1>1, <1>4, <2>1, <2>2, <2>3 DEF Suite, CasesOf, Kept
<1> QED
    BY <1>2, <1>3, <1>4

LEMMA RepairInv == ASSUME Inv, NEW edit \in Edits, At("ruling"), Repair(edit) PROVE Inv'
<1> DEFINE repaired == Repaired(job.suite, edit)
           good == job.strategy = "unit" /\ Presentable(repaired) /\ job.pass < maxPasses
<1>1. CASE ~good
    BY <1>1, UnansweredInv DEF Repair
<1>2. CASE good
    <2>1. CallFits' /\ call'.pc = "idle" /\ job.pc = "ruling"
        BY RestFits DEF Repair, At, Inv
    <2>2. /\ stored = NoSuite /\ stored' = NoSuite /\ job.noted = "none" /\ job.outcome = "none"
          /\ profile' = profile /\ profile # MaxProfiles + 1 /\ job.kind = "problem"
        BY <2>1 DEF Repair, Inv, JobFits, SuiteFits, OutcomeFits, Closing
    <2> DEFINE pass == job.pass + 1
               reborn == IF Kept(job.suite, edit) THEN job.reborn ELSE job.reborn \union {edit.name}
    <2>3. job' = [job EXCEPT !.pc = "judge", !.suite = repaired, !.pass = pass, !.reborn = reborn]
        BY <1>2 DEF Repair
    <2>4. /\ pass \in 1..maxPasses /\ reborn \subseteq Names /\ job.suite \in Suite
          /\ Presentable(repaired)
        BY <1>2, PipelineAssumption DEF Inv, JobFits, Job, maxPasses, Edits
    <2>5. /\ repaired \in Suite
          /\ \A n \in CasesOf(repaired) \ reborn :
                 n \in CasesOf(job.suite) \ job.reborn /\ repaired[n].shown = job.suite[n].shown
        BY <2>4, RepairedFits
    <2> HIDE DEF pass, reborn, repaired, good
    <2>6. job' \in Job
        BY <2>3, <2>4, <2>5 DEF Inv, JobFits, Job
    <2>7. /\ job'.pc = "judge" /\ job'.kind = "problem" /\ job'.suite = repaired
          /\ job'.draft = job.draft /\ job'.reborn = reborn
          /\ job'.used = job.used /\ job'.outcome = "none" /\ job'.noted = "none"
        BY <2>2, <2>3 DEF Inv, JobFits, Job
    <2>8. VisibilityIsTheDrafts'
        BY <2>5, <2>7 DEF Inv, JobFits, SuiteFits, VisibilityIsTheDrafts
    <2>9. SuiteFits' /\ OutcomeFits' /\ SnapshotFits'
        <3>1. SuiteFits'
            BY <2>2, <2>4, <2>7, <2>8 DEF SuiteFits
        <3>2. OutcomeFits'
            BY <2>7 DEF OutcomeFits, Closing, AnnouncedIsStored
        <3>3. SnapshotFits'
            BY <2>2, <2>7 DEF Inv, JobFits, SnapshotFits
        <3> QED
            BY <3>1, <3>2, <3>3
    <2>10. JobFits'
        BY <2>1, <2>2, <2>6, <2>7, <2>9 DEF Inv, JobFits
    <2> QED
        BY <2>1, <2>7, <2>10, Rests DEF Repair, Refreshing
<1> QED
    BY <1>1, <1>2

\* The suite is stored, or perhaps it is, when the store fails.
LEMMA StoreInv ==
    ASSUME Inv, At("save"), job.kind = "problem", UNCHANGED <<call, gone, profile, notesVars>>,
           \/ stored' = job.suite /\ (Goto("report") \/ Fail)
           \/ stored' = stored /\ Fail
    PROVE  Inv'
<1>1. CallFits' /\ call'.pc = "idle" /\ job.pc = "save"
    BY CallRests DEF At, Inv, JobFits
<1>2. /\ stored = NoSuite /\ job.noted = "none" /\ job.outcome = "none"
      /\ profile' = profile /\ profile # MaxProfiles + 1
      /\ job.suite = job.ran /\ AllPass(job.suite) /\ Presentable(job.suite)
    BY <1>1 DEF Inv, JobFits, SuiteFits, OutcomeFits, Closing
<1>3. job' \in Job /\ stored' \in Suite
    <2>1. Goto("report") => job' \in Job
        BY DEF Goto, Inv, JobFits, Job
    <2>2. Fail => job' \in Job
        BY ZenonT(60) DEF Fail, Inv, JobFits, Job
    <2>3. job.suite \in Suite /\ stored \in Suite
        BY DEF Inv, JobFits, Job
    <2> QED
        BY <2>1, <2>2, <2>3
<1>4. /\ job'.pc = "report" /\ SameSuites(job', job) /\ job'.used = job.used
      /\ job'.outcome \in {"none", "failed"}
      /\ job'.outcome = "none" => stored' = job.suite
    BY <1>2 DEF Fail, Goto, Inv, JobFits, Job, SameSuites
<1>5. SuiteFits' /\ OutcomeFits' /\ SnapshotFits'
    <2>1. VisibilityIsTheDrafts'
        BY <1>4 DEF Inv, JobFits, SuiteFits, SameSuites, VisibilityIsTheDrafts
    <2>2. SuiteFits'
        BY <1>2, <1>4, <2>1 DEF SuiteFits, SameSuites, Closing
    <2>3. job.suite # NoSuite
        BY <1>2 DEF AllPass
    <2>4. OutcomeFits'
        BY <1>2, <1>4, <2>3 DEF OutcomeFits, Closing, AnnouncedIsStored, SameSuites
    <2>5. SnapshotFits'
        BY <1>4 DEF Inv, JobFits, SnapshotFits, SameSuites
    <2> QED
        BY <2>2, <2>4, <2>5
<1>6. JobFits'
    BY <1>1, <1>2, <1>3, <1>4, <1>5 DEF Inv, JobFits, SameSuites
<1> QED
    BY <1>1, <1>4, <1>6, Rests DEF Refreshing

LEMMA ReportInv == ASSUME Inv, NEW written \in BOOLEAN, Report(written) PROVE Inv'
<1>1. CallFits' /\ call'.pc = "idle" /\ job.pc = "report"
    BY CallRests DEF Report, At, Inv, JobFits
<1> DEFINE outcome == IF job.outcome = "none" THEN "done" ELSE job.outcome
           noted == IF written THEN Event ELSE "none"
<1>2. job' = [job EXCEPT !.pc = "over", !.outcome = outcome, !.noted = noted]
    BY DEF Report
<1>3. outcome \in {"done", "failed"} /\ noted \in {"none", "generated", "failed"}
    BY <1>1 DEF Inv, JobFits, OutcomeFits, Event
<1>4. job.kind = "problem" /\ noted = "generated" => stored # NoSuite
    BY <1>1 DEF Inv, JobFits, OutcomeFits, Event
<1> HIDE DEF outcome, noted
<1>5. job' \in Job
    BY <1>2, <1>3 DEF Inv, JobFits, Job
<1>6. /\ job'.pc = "over" /\ job'.kind = job.kind /\ job'.suite = job.suite /\ job'.draft = job.draft
      /\ job'.ran = job.ran /\ job'.reborn = job.reborn /\ job'.used = job.used /\ job'.noted = noted
      /\ stored' = stored /\ profile' = profile
    BY <1>2 DEF Report, Inv, JobFits, Job
<1>7. SuiteFits' /\ OutcomeFits' /\ SnapshotFits'
    <2>1. VisibilityIsTheDrafts'
        BY <1>6 DEF Inv, JobFits, SuiteFits, VisibilityIsTheDrafts
    <2>2. SuiteFits'
        BY <1>1, <1>6, <2>1 DEF Inv, JobFits, SuiteFits, Closing
    <2>3. OutcomeFits'
        BY <1>4, <1>6 DEF OutcomeFits, Closing, AnnouncedIsStored
    <2>4. SnapshotFits'
        BY <1>6 DEF Inv, JobFits, SnapshotFits
    <2> QED
        BY <2>2, <2>3, <2>4
<1>8. JobFits'
    BY <1>1, <1>5, <1>6, <1>7 DEF Inv, JobFits, Closing
<1> QED
    BY <1>1, <1>6, <1>8, Rests DEF Report, Refreshing

-----------------------------------------------------------------------------
(* Steps of a refresh.                                                     *)

\* What is to be shown of a step that only changes what a refresh holds.
LEMMA WorkInv ==
    ASSUME Inv, CallFits', JobFits', UNCHANGED <<profile, book, practised>>,
           upkeep' \in Upkeep, UpkeepFits(upkeep', profile),
           Refreshing' /\ profile = upkeep'.version =>
               book.notes = upkeep'.held /\ book.summary = upkeep'.before,
           Refreshing' /\ job'.pc = "save" =>
               upkeep'.drafted /\ ~Regresses(upkeep'.before, upkeep'.summary, minLivingSummaryRunes)
    PROVE  Inv'
<1>1. NotesTypeOK' /\ NotesAreTidy' /\ SkillsAreEvidenced'
    BY DEF Inv, RefreshFits, NotesTypeOK, NotesAreTidy, SkillsAreEvidenced
<1>2. UpkeepFits(upkeep, profile)'
    BY DEF UpkeepFits
<1> QED
    BY <1>1, <1>2 DEF Inv, RefreshFits

\* A refresh moves on.
LEMMA RefreshMoves ==
    ASSUME Inv, job.kind = "profile", job.pc \in {"events", "load", "check"},
           NEW point \in {"load", "ask", "save", "report"}, Goto(point),
           UNCHANGED <<call, gone, profile, stored>>
    PROVE  CallFits' /\ JobFits' /\ job'.pc = point /\ job'.kind = "profile"
<1>1. CallFits' /\ call'.pc = "idle"
    BY CallRests DEF Inv, JobFits
<1>2. Numbered
    BY NumberRests DEF Inv, Closing
<1> QED
    BY <1>1, <1>2, GotoFits DEF Inv, Closing

LEMMA AttemptInv ==
    ASSUME Inv, job.kind = "profile", job.pc \in {"begin", "save"},
           NEW source \in Sources, NEW problem \in Problems \union {Nothing}, NEW attempt \in 1..2,
           Attempt(source, problem, attempt), UNCHANGED <<call, gone, profile, stored, book, practised>>
    PROVE  Inv'
<1>1. CallFits' /\ call'.pc = "idle"
    BY CallRests DEF Inv, JobFits
<1>2. Numbered
    BY NumberRests DEF Inv, Closing
<1>3. job' \in Job /\ job'.pc = "events" /\ SameSuites(job', job) /\ job'.outcome = job.outcome
    BY DEF Attempt, Inv, JobFits, Job, SameSuites
<1>4. JobFits'
    <2>1. SnapshotFits' /\ job.outcome = "none"
        BY <1>3 DEF SnapshotFits, SameSuites, Inv, JobFits, OutcomeFits, Closing
    <2> QED
        BY <1>1, <1>2, <1>3, <2>1, JobMoves DEF Inv, Closing, Trying
<1>5. profile \in Nat
    BY PipelineAssumption DEF Inv, JobFits
<1> DEFINE new == NewUpkeep(source, problem)
<1>6. new \in Upkeep /\ new.topics = {} /\ new.skills = {} /\ new.version = 0 /\ ~new.drafted
    BY NewUpkeepFits DEF NewUpkeep
<1> HIDE DEF new
<1>7. /\ upkeep' \in Upkeep /\ upkeep'.now = profile /\ upkeep'.topics = {} /\ upkeep'.skills = {}
      /\ upkeep'.version = 0 /\ ~upkeep'.drafted
    BY <1>5, <1>6 DEF Attempt, new, Upkeep
<1>8. UpkeepFits(upkeep', profile)
    BY <1>5, <1>7 DEF UpkeepFits
<1> QED
    BY <1>1, <1>3, <1>4, <1>7, <1>8, WorkInv DEF Refreshing

LEMMA BeginRefreshInv ==
    ASSUME Inv, NEW refresh \in Refreshes, BeginRefresh(refresh[1], refresh[2])
    PROVE  Inv'
<1>1. refresh[1] \in Sources /\ refresh[2] \in Problems \union {Nothing}
    BY PipelineAssumption
<1> QED
    BY <1>1, AttemptInv DEF BeginRefresh, At

LEMMA SaveIsStaleInv == ASSUME Inv, SaveIsStale PROVE Inv'
<1>1. job.pc = "save" /\ upkeep \in Upkeep
    BY DEF SaveIsStale, At, Inv, RefreshFits, NotesTypeOK
<1>2. CASE job.attempt = 1
    <2>1. upkeep.source \in Sources /\ upkeep.problem \in Problems \union {Nothing}
        BY <1>1 DEF Upkeep
    <2> QED
        BY <1>1, <1>2, <2>1, AttemptInv DEF SaveIsStale
<1>3. CASE job.attempt # 1
    BY <1>1, <1>3, FailInv DEF SaveIsStale, notesVars, Closing
<1> QED
    BY <1>2, <1>3

LEMMA ReadEventsInv == ASSUME Inv, ReadEvents PROVE Inv'
<1>1. job.pc = "events" /\ job.kind = "profile"
    BY DEF ReadEvents, At, Inv, JobFits
<1>2. CallFits' /\ JobFits' /\ job'.pc = "load"
    BY <1>1, RefreshMoves DEF ReadEvents
<1>3. upkeep \in Upkeep /\ practised \subseteq Topics /\ UpkeepFits(upkeep, profile)
    BY DEF Inv, RefreshFits, NotesTypeOK
<1>4. /\ upkeep' \in Upkeep /\ upkeep'.topics = practised
      /\ upkeep'.skills = upkeep.skills /\ upkeep'.now = upkeep.now /\ upkeep'.version = upkeep.version
      /\ upkeep'.drafted = upkeep.drafted /\ upkeep'.notes = upkeep.notes /\ upkeep'.held = upkeep.held
      /\ upkeep'.source = upkeep.source /\ upkeep'.problem = upkeep.problem
    BY <1>3 DEF ReadEvents, Upkeep
<1>5. UpkeepFits(upkeep', profile)
    BY <1>3, <1>4 DEF UpkeepFits, DraftFits
<1> QED
    BY <1>2, <1>4, <1>5, WorkInv DEF ReadEvents, Refreshing

LEMMA ReadProfileInv == ASSUME Inv, ReadProfile PROVE Inv'
<1>1. job.pc = "load" /\ job.kind = "profile"
    BY DEF ReadProfile, At
<1>2. CallFits' /\ JobFits' /\ job'.pc = "ask"
    BY <1>1, RefreshMoves DEF ReadProfile
<1>3. /\ upkeep \in Upkeep /\ book \in Book /\ Tidy(book.notes, profile) /\ UpkeepFits(upkeep, profile)
      /\ profile \in Nat
    BY PipelineAssumption DEF Inv, RefreshFits, NotesTypeOK, NotesAreTidy, JobFits
<1>4. upkeep' \in Upkeep /\ upkeep' = Loaded(upkeep, profile)
    BY <1>3, LoadedFits DEF ReadProfile
<1>5. /\ upkeep'.source = upkeep.source /\ upkeep'.now = upkeep.now
      /\ upkeep'.topics = upkeep.topics /\ upkeep'.skills = upkeep.skills
      /\ upkeep'.version = profile /\ upkeep'.held = book.notes /\ upkeep'.notes = book.notes
      /\ upkeep'.before = book.summary
      /\ upkeep'.drafted <=> upkeep.source = "none"
    BY <1>3, <1>4, LoadedReads
<1>6. Keeps(book.notes, book.notes)
    BY <1>3, NotesKeepThemselves DEF Book
<1>7. UpkeepFits(upkeep', profile)
    BY <1>3, <1>5, <1>6 DEF UpkeepFits, DraftFits
<1> QED
    BY <1>2, <1>4, <1>5, <1>7, WorkInv DEF ReadProfile

LEMMA SkipInv == ASSUME Inv, Skip PROVE Inv'
<1>1. CallFits' /\ JobFits' /\ job'.pc = "report"
    BY RefreshMoves DEF Skip, At
<1> QED
    BY <1>1, Rests DEF Skip, Refreshing

LEMMA ChangeNotesInv == ASSUME Inv, NEW change \in Changes, ChangeNotes(change) PROVE Inv'
<1>1. job.pc = "check" /\ job.kind = "profile" /\ ~upkeep.drafted /\ Acceptable(change, upkeep.held)
    BY DEF ChangeNotes, At
<1>2. upkeep \in Upkeep /\ upkeep.held \in Notes /\ UpkeepFits(upkeep, profile)
    BY DEF Inv, RefreshFits, NotesTypeOK, Upkeep
<1>3. upkeep' \in Upkeep /\ SameReading(upkeep, upkeep')
    BY <1>1, <1>2, AppliedFits DEF ChangeNotes
<1>4. UpkeepFits(upkeep', profile)
    BY <1>1, <1>2, <1>3 DEF UpkeepFits, SameReading
<1>5. CallFits'
    BY CallRests DEF ChangeNotes, Inv
<1>6. JobFits'
    <2>1. UNCHANGED <<call, job, stored, profile>> /\ JobFits
        BY DEF ChangeNotes, Inv
    <2>2. SuiteFits' /\ OutcomeFits' /\ SnapshotFits'
        BY <2>1 DEF JobFits, SuiteFits, OutcomeFits, SnapshotFits, VisibilityIsTheDrafts, AnnouncedIsStored
    <2> QED
        BY <2>1, <2>2 DEF JobFits
<1> QED
    BY <1>1, <1>3, <1>4, <1>5, <1>6, WorkInv DEF ChangeNotes, Refreshing, SameReading, Inv, RefreshFits

LEMMA MaintainNotesInv == ASSUME Inv, MaintainNotes PROVE Inv'
<1>1. job.pc = "check" /\ job.kind = "profile" /\ ~upkeep.drafted
    BY DEF MaintainNotes, At
<1>2. CallFits' /\ JobFits' /\ job'.pc = "ask"
    BY <1>1, RefreshMoves DEF MaintainNotes
<1>3. upkeep \in Upkeep /\ upkeep.notes \in Notes /\ UpkeepFits(upkeep, profile) /\ profile \in Nat
    BY PipelineAssumption DEF Inv, RefreshFits, NotesTypeOK, JobFits, Upkeep
<1>4. PICK notes \in Notes :
        Valid(notes, upkeep) /\ upkeep' = [upkeep EXCEPT !.notes = notes, !.drafted = TRUE]
    BY <1>3, OnlyFits DEF MaintainNotes
<1>5. /\ upkeep' \in Upkeep /\ upkeep'.notes = notes
      /\ upkeep'.source = upkeep.source /\ upkeep'.problem = upkeep.problem
      /\ upkeep'.now = upkeep.now /\ upkeep'.version = upkeep.version
      /\ upkeep'.topics = upkeep.topics /\ upkeep'.skills = upkeep.skills
      /\ upkeep'.held = upkeep.held /\ upkeep'.before = upkeep.before
    BY <1>3, <1>4 DEF Upkeep
<1>6. Tidy(notes, profile)
    BY <1>3, <1>4, TidyLater DEF Valid, UpkeepFits, Upkeep
<1>7. UpkeepFits(upkeep', profile)
    BY <1>3, <1>4, <1>5, <1>6 DEF UpkeepFits, DraftFits, Valid
<1> QED
    BY <1>1, <1>2, <1>5, <1>7, WorkInv DEF MaintainNotes, Refreshing, Inv, RefreshFits

LEMMA AcceptProfileInv ==
    ASSUME Inv, NEW summary \in Lengths, NEW claimed \in SUBSET Topics, AcceptProfile(summary, claimed)
    PROVE  Inv'
<1>1. job.pc = "check" /\ job.kind = "profile" /\ upkeep.drafted
    BY DEF AcceptProfile, At
<1>2. CallFits' /\ JobFits' /\ job'.pc = "save"
    BY <1>1, RefreshMoves DEF AcceptProfile
<1>3. upkeep \in Upkeep /\ UpkeepFits(upkeep, profile)
    BY DEF Inv, RefreshFits, NotesTypeOK
<1> DEFINE skills == claimed \intersect upkeep.topics
<1>4. summary \in Nat /\ skills \subseteq Topics /\ skills \subseteq practised
    BY <1>3, NotesAssumption DEF UpkeepFits
<1>5. upkeep' = [upkeep EXCEPT !.summary = summary, !.skills = skills]
    BY DEF AcceptProfile, Curated
<1> HIDE DEF skills
<1>6. /\ upkeep' \in Upkeep /\ upkeep'.summary = summary /\ upkeep'.skills = skills
      /\ upkeep'.source = upkeep.source /\ upkeep'.problem = upkeep.problem
      /\ upkeep'.now = upkeep.now /\ upkeep'.version = upkeep.version
      /\ upkeep'.topics = upkeep.topics /\ upkeep'.notes = upkeep.notes
      /\ upkeep'.held = upkeep.held /\ upkeep'.before = upkeep.before
      /\ upkeep'.drafted = upkeep.drafted
    BY <1>3, <1>4, <1>5 DEF Upkeep
<1>7. UpkeepFits(upkeep', profile)
    BY <1>3, <1>4, <1>6 DEF UpkeepFits, DraftFits
<1> QED
    BY <1>1, <1>2, <1>6, <1>7, WorkInv DEF AcceptProfile, Refreshing, Inv, RefreshFits

LEMMA LivingSummary == minLivingSummaryRunes \in Nat \ {0}
BY DEF minLivingSummaryRunes

\* The profile that replaces another was made from it.
LEMMA SavedKeeps ==
    ASSUME Inv, SaveProfile
    PROVE  /\ Keeps(book.notes, book'.notes)
           /\ ~Regresses(book.summary, book'.summary, minLivingSummaryRunes)
           /\ upkeep.source = "coding" => Minds(book.notes, book'.notes, upkeep.problem)
<1>1. Refreshing /\ job.pc = "save" /\ profile = upkeep.version
    BY DEF SaveProfile, At, Refreshing
<1>2. book.notes = upkeep.held /\ book.summary = upkeep.before /\ upkeep.drafted
      /\ ~Regresses(upkeep.before, upkeep.summary, minLivingSummaryRunes)
    BY <1>1 DEF Inv, RefreshFits
<1>3. book'.notes = upkeep.notes /\ book'.summary = upkeep.summary
    BY DEF SaveProfile
<1> QED
    BY <1>2, <1>3 DEF Inv, RefreshFits, UpkeepFits, DraftFits

LEMMA SaveProfileInv == ASSUME Inv, SaveProfile PROVE Inv'
<1>1. job.pc = "save" /\ job.kind = "profile" /\ profile \in 0..MaxProfiles /\ profile' = profile + 1
    BY PipelineAssumption DEF SaveProfile, At, Inv, JobFits, Closing
<1>2. CallFits' /\ call'.pc = "idle"
    BY <1>1, CallRests DEF SaveProfile, Inv, JobFits
<1>3. job'.pc = "report" /\ job'.kind = "profile"
    BY <1>1 DEF SaveProfile, Goto, Fail, Inv, JobFits, Job
<1>4. Numbered
    BY <1>1, <1>3, PipelineAssumption DEF Numbered, Closing
<1>5. JobFits'
    <2>1. CASE Goto("report")
        BY <1>1, <1>2, <1>4, <2>1, GotoFits DEF SaveProfile, Inv, Closing
    <2>2. CASE Fail
        BY <1>1, <1>2, <1>4, <2>2, FailFits DEF SaveProfile, Inv, Closing
    <2> QED
        BY <2>1, <2>2 DEF SaveProfile
<1>6. upkeep \in Upkeep /\ UpkeepFits(upkeep, profile) /\ upkeep.drafted /\ practised \subseteq Topics
    BY <1>1 DEF Inv, RefreshFits, NotesTypeOK, Refreshing
<1>7. /\ upkeep.notes \in Notes /\ upkeep.summary \in Nat /\ upkeep.skills \subseteq Topics
      /\ upkeep.now \in Nat /\ upkeep.version \in Nat
    BY <1>6 DEF Upkeep
<1>8. Tidy(upkeep.notes, profile')
    <2>1. Tidy(upkeep.notes, profile)
        BY <1>6 DEF UpkeepFits, DraftFits
    <2>2. profile \in Nat /\ profile' \in Nat /\ profile <= profile'
        BY <1>1, PipelineAssumption
    <2> QED
        BY <1>7, <2>1, <2>2, TidyLater
<1>9. book' = [notes |-> upkeep.notes, summary |-> upkeep.summary, skills |-> upkeep.skills]
      /\ practised' = practised /\ upkeep' = upkeep
    BY DEF SaveProfile
<1>10. NotesTypeOK' /\ NotesAreTidy' /\ SkillsAreEvidenced'
    BY <1>6, <1>7, <1>8, <1>9 DEF NotesTypeOK, Book, NotesAreTidy, SkillsAreEvidenced, UpkeepFits
<1>11. UpkeepFits(upkeep, profile)'
    BY <1>1, <1>6, <1>7, <1>8, <1>9, PipelineAssumption DEF UpkeepFits, DraftFits
<1> QED
    BY <1>2, <1>3, <1>5, <1>10, <1>11 DEF Inv, RefreshFits, Refreshing

LEMMA ProfileLostInv == ASSUME Inv, ProfileLost PROVE Inv'
<1>1. job.pc = "save" /\ job.kind = "profile" /\ UNCHANGED <<call, gone, profile, stored, notesVars>>
    BY DEF ProfileLost, At
<1>2. CASE Fail
    BY <1>1, <1>2, FailInv DEF Closing
<1>3. CASE Goto("report")
    <2>1. CallFits' /\ call'.pc = "idle"
        BY <1>1, CallRests DEF Inv, JobFits
    <2>2. Numbered
        BY <1>1, NumberRests DEF Inv, Closing
    <2>3. JobFits' /\ job'.pc = "report"
        BY <1>1, <1>3, <2>1, <2>2, GotoFits DEF Inv, Closing
    <2> QED
        BY <1>1, <2>1, <2>3, Rests DEF Refreshing
<1> QED
    BY <1>2, <1>3 DEF ProfileLost

-----------------------------------------------------------------------------
(* Steps of others.                                                        *)

\* The job stays where it is.
LEMMA JobRests ==
    ASSUME JobFits, UNCHANGED <<job, stored, profile>>, call.pc = "idle" <=> call'.pc = "idle"
    PROVE  JobFits'
<1>1. SuiteFits' /\ OutcomeFits' /\ SnapshotFits'
    BY DEF JobFits, SuiteFits, OutcomeFits, SnapshotFits, VisibilityIsTheDrafts, AnnouncedIsStored
<1> QED
    BY <1>1 DEF JobFits

LEMMA RouterActsInv == ASSUME Inv, RouterActs PROVE Inv'
<1>1. CallFits' /\ call.pc # "idle" /\ call'.pc # "idle"
    BY RouterStepFits DEF RouterActs, Inv
<1>2. JobFits'
    BY <1>1, JobRests DEF RouterActs, Inv
<1> QED
    BY <1>1, <1>2, Rests DEF RouterActs, Refreshing

LEMMA LeavesInv == ASSUME Inv, Leaves PROVE Inv'
<1>1. CallFits'
    BY DEF Leaves, ClientLeaves, Inv, CallFits
<1>2. JobFits'
    BY JobRests DEF Leaves, ClientLeaves, Inv
<1> QED
    BY <1>1, <1>2, Rests DEF Leaves, Refreshing

LEMMA PractiseInv == ASSUME Inv, NEW topic \in Topics, Practise(topic) PROVE Inv'
<1>1. CallFits'
    BY CallRests DEF Practise, Inv
<1>2. JobFits'
    BY JobRests DEF Practise, Inv
<1>3. /\ book' = book /\ upkeep' = upkeep /\ profile' = profile /\ job' = job
      /\ practised \subseteq practised' /\ practised' \subseteq Topics
    BY DEF Practise, Inv, RefreshFits, NotesTypeOK
<1>4. NotesTypeOK' /\ NotesAreTidy' /\ SkillsAreEvidenced'
    BY <1>3 DEF Inv, RefreshFits, NotesTypeOK, NotesAreTidy, SkillsAreEvidenced
<1>5. UpkeepFits(upkeep, profile)'
    BY <1>3 DEF Inv, RefreshFits, UpkeepFits
<1> QED
    BY <1>1, <1>2, <1>3, <1>4, <1>5 DEF Inv, RefreshFits, Refreshing

\* Another refresh, too, replaces the notes by what it made of them.
LEMMA MovesKeep ==
    ASSUME Inv, ProfileMoves
    PROVE  \/ UNCHANGED book
           \/ \E notes \in Notes :
                /\ book' = [book EXCEPT !.notes = notes, !.skills = practised]
                /\ Tidy(notes, profile + 1) /\ Keeps(book.notes, notes)
<1>1. CASE UNCHANGED book
    BY <1>1
<1>2. CASE ~UNCHANGED book
    <2>1. profile \in Nat /\ book \in Book /\ book.notes \in Notes
        BY PipelineAssumption DEF Inv, JobFits, RefreshFits, NotesTypeOK, Book
    <2> DEFINE next == profile + 1
               read == Loaded(Others, profile)
               taken == [read EXCEPT !.now = next]
    <2>2. PICK change \in Changes :
            LET mine == Applied(change, taken)
            IN  /\ Acceptable(change, book.notes)
                /\ \E top \in Remnants(mine) :
                     LET notes == Only(top, mine.notes)
                     IN  /\ Valid(notes, mine)
                         /\ book' = [book EXCEPT !.notes = notes, !.skills = practised]
        BY <1>2 DEF ProfileMoves
    <2> DEFINE mine == Applied(change, taken)
    <2>3. Others \in Upkeep
        BY NewUpkeepFits DEF Others, Sources
    <2>4. read \in Upkeep /\ read.held = book.notes
        BY <2>1, <2>3, LoadedFits, LoadedReads
    <2>5. next \in Nat
        BY <2>1
    <2> HIDE DEF next, read
    <2>6. taken \in Upkeep /\ taken.held = book.notes /\ taken.now = next
        BY <2>4, <2>5 DEF Upkeep
    <2> HIDE DEF taken
    <2>7. mine \in Upkeep /\ mine.held = book.notes /\ mine.now = next
        BY <2>1, <2>2, <2>6, AppliedFits DEF SameReading
    <2>8. PICK top \in Remnants(mine) :
            /\ Valid(Only(top, mine.notes), mine)
            /\ book' = [book EXCEPT !.notes = Only(top, mine.notes), !.skills = practised]
        BY <2>2
    <2>9. Only(top, mine.notes) \in Notes
        BY <2>7, OnlyFits DEF Upkeep
    <2>10. Tidy(Only(top, mine.notes), profile + 1) /\ Keeps(book.notes, Only(top, mine.notes))
        BY <2>7, <2>8 DEF Valid, next
    <2> QED
        BY <2>8, <2>9, <2>10
<1> QED
    BY <1>1, <1>2

LEMMA ProfileMovesInv == ASSUME Inv, ProfileMoves PROVE Inv'
<1>1. /\ profile \in Nat /\ profile' = profile + 1 /\ profile' \in 0..MaxProfiles
      /\ job' = job /\ call' = call /\ stored' = stored /\ upkeep' = upkeep /\ practised' = practised
    <2>1. /\ profile < MaxProfiles /\ profile' = profile + 1
          /\ UNCHANGED <<call, job, stored, practised, upkeep>>
        BY Zenon DEF ProfileMoves
    <2> QED
        BY <2>1, PipelineAssumption DEF Inv, JobFits
<1>2. CallFits'
    BY CallRests DEF ProfileMoves, Inv
<1>3. JobFits'
    <2>1. SuiteFits' /\ OutcomeFits' /\ SnapshotFits'
        BY <1>1 DEF Inv, JobFits, SuiteFits, OutcomeFits, SnapshotFits, VisibilityIsTheDrafts, AnnouncedIsStored
    <2>2. profile' \in 0..MaxProfiles + 1 /\ profile' # MaxProfiles + 1
        BY <1>1, PipelineAssumption
    <2> QED
        BY <1>1, <2>1, <2>2 DEF Inv, JobFits
<1>4. book \in Book /\ Tidy(book.notes, profile) /\ book.skills \subseteq practised /\ practised \subseteq Topics
      /\ upkeep \in Upkeep /\ UpkeepFits(upkeep, profile)
    BY DEF Inv, RefreshFits, NotesTypeOK, NotesAreTidy, SkillsAreEvidenced
<1>5. book' \in Book /\ Tidy(book'.notes, profile') /\ book'.skills \subseteq practised
    <2>1. CASE UNCHANGED book
        BY <1>1, <1>4, <2>1, TidyLater DEF Book
    <2>2. CASE ~UNCHANGED book
        <3>1. PICK notes \in Notes :
                /\ book' = [book EXCEPT !.notes = notes, !.skills = practised]
                /\ Tidy(notes, profile + 1)
            BY <2>2, MovesKeep
        <3> QED
            BY <1>1, <1>4, <3>1 DEF Book
    <2> QED
        BY <2>1, <2>2
<1>6. NotesTypeOK' /\ NotesAreTidy' /\ SkillsAreEvidenced'
    BY <1>1, <1>4, <1>5 DEF NotesTypeOK, NotesAreTidy, SkillsAreEvidenced
<1>7. upkeep.notes \in Notes /\ upkeep.now \in Nat /\ upkeep.version \in Nat
    BY <1>4 DEF Upkeep
<1>8. upkeep.drafted => Tidy(upkeep.notes, profile')
    BY <1>1, <1>4, <1>7, TidyLater DEF UpkeepFits, DraftFits
<1>9. UpkeepFits(upkeep, profile)' /\ profile' # upkeep.version
    BY <1>1, <1>4, <1>7, <1>8 DEF UpkeepFits, DraftFits
<1> QED
    BY <1>1, <1>2, <1>3, <1>6, <1>9 DEF Inv, RefreshFits, Refreshing

-----------------------------------------------------------------------------
(* The theorems.                                                           *)

LEMMA RefreshStepInv == ASSUME Inv, RefreshStep PROVE Inv'
<1>1. CASE EvidenceMissing
    BY <1>1, FailInv DEF EvidenceMissing, At, Closing
<1> QED
    BY <1>1, BeginRefreshInv, ReadEventsInv, ReadProfileInv, SkipInv, ChangeNotesInv, MaintainNotesInv,
       AcceptProfileInv, SaveProfileInv, SaveIsStaleInv, ProfileLostInv
    DEF RefreshStep

LEMMA JobStepInv == ASSUME Inv, JobStep PROVE Inv'
<1>1. CASE LoadFails
    BY <1>1, FailInv DEF LoadFails, At, Closing
<1>2. CASE Unanswered
    BY <1>2, UnansweredInv DEF Unanswered
<1>3. CASE BuildFails
    BY <1>3, FailInv DEF BuildFails, At, Closing
<1>4. CASE RunFails
    BY <1>4, FailInv DEF RunFails, At, Closing
<1>5. CASE AdjudicateFails
    BY <1>5, FailInv DEF AdjudicateFails, At, Closing
<1>6. CASE Condemned
    BY <1>6, UnansweredInv DEF Condemned
<1>7. CASE Save
    BY <1>7, StoreInv DEF Save
<1>8. ASSUME NEW landed \in BOOLEAN, SaveFails(landed) PROVE Inv'
    BY <1>8, StoreInv DEF SaveFails
<1> QED
    BY <1>1, <1>2, <1>3, <1>4, <1>5, <1>6, <1>7, <1>8, RefuseInv, BeginInv, LoadProfileInv, AskInv,
       AnsweredInv, RejectInv, AcceptAnswerInv, AcceptProblemInv, RunReferenceInv, AdjudicateInv,
       RepairInv, RefreshStepInv, ReportInv
    DEF JobStep

LEMMA NextInv == ASSUME Inv, [Next]_vars PROVE Inv'
<1>1. CASE UNCHANGED vars
    <2>1. UNCHANGED <<call, gone, job, profile, stored, notesVars>>
        BY <1>1 DEF vars
    <2>2. CallFits' /\ JobFits'
        BY <2>1, CallRests, JobRests DEF Inv
    <2> QED
        BY <2>1, <2>2, Rests DEF Refreshing
<1>2. CASE Next
    BY <1>2, JobStepInv, RouterActsInv, LeavesInv, ProfileMovesInv, PractiseInv DEF Next
<1> QED
    BY <1>1, <1>2

(***************************************************************************)
(* The inductive invariant: what the router has heard, how far the job has *)
(* come and what a refresh holds fit together at every step.               *)
(***************************************************************************)
THEOREM PipelineInvariant == Spec => []Inv
<1> QED
    BY InitInv, NextInv, PTL DEF Spec

(***************************************************************************)
(* However many providers there are and whichever of them fail, reject or  *)
(* stream, at most one gives content to a request.                         *)
(***************************************************************************)
THEOREM OneVoiceHolds == Spec => []OneVoice
<1>1. Inv => OneVoice
    BY OneSpeaks DEF Inv
<1> QED
    BY <1>1, PipelineInvariant, PTL

(***************************************************************************)
(* What a job drafts, stores and reports belongs together: one snapshot,   *)
(* only a suite that passed, the visibility of the draft, no report of     *)
(* what is not stored, tidy notes and evidenced skills.                    *)
(***************************************************************************)
THEOREM PipelineIsSound == Spec => []PipelineInv
<1>1. Inv => PipelineInv
    <2> SUFFICES ASSUME Inv PROVE PipelineInv
        OBVIOUS
    <2>1. TypeOK
        BY DEF Inv, CallFits, VoiceFits, JobFits, RefreshFits, TypeOK, RouterTypeOK
    <2>2. OneSnapshot
        <3> SUFFICES ASSUME job.kind \in {"problem", "mcq"} PROVE Cardinality(job.used) <= 1
            BY DEF OneSnapshot
        <3>1. CASE job.used = {}
            BY <3>1, FS_EmptySet
        <3>2. CASE job.used # {}
            <4>1. PICK v : job.used = {v}
                BY <3>2 DEF Inv, JobFits, SnapshotFits
            <4>2. Cardinality({v}) = 1
                BY FS_Singleton
            <4> QED
                BY <4>1, <4>2
        <3> QED
            BY <3>1, <3>2
    <2>3. StoredIsVerified /\ VisibilityIsTheDrafts /\ AnnouncedIsStored
        BY DEF Inv, JobFits, SuiteFits, OutcomeFits, StoredIsVerified
    <2>4. NotesAreTidy /\ SkillsAreEvidenced
        BY DEF Inv, RefreshFits
    <2> QED
        BY <2>1, <2>2, <2>3, <2>4 DEF PipelineInv
<1> QED
    BY <1>1, PipelineInvariant, PTL

\* Only two steps write the profile.
LEMMA BookRests ==
    ASSUME [Next]_vars, book' # book
    PROVE  SaveProfile \/ (ProfileMoves /\ job' = job)
BY DEF Next, vars, notesVars, JobStep, RefreshStep, RouterActs, Leaves, Practise, ProfileMoves,
       Refuse, Begin, LoadProfile, LoadFails, Ask, Unanswered, Answered, Reject, BuildFails,
       AcceptAnswer, AcceptProblem, RunFails, RunReference, Adjudicate, AdjudicateFails, Condemned,
       Repair, BeginRefresh, ReadEvents, ReadProfile, Skip, EvidenceMissing, ChangeNotes,
       MaintainNotes, AcceptProfile, SaveIsStale, ProfileLost, Save, SaveFails, Report

(***************************************************************************)
(* Whatever replaces the profile was made from it, although others replace *)
(* it while a refresh works: no note loses its time or its text, the       *)
(* summary does not collapse, a completion minds its own problem.          *)
(***************************************************************************)
THEOREM ProfileKeepsWhatWasHolds == Spec => ProfileKeepsWhatWas
<1>1. ASSUME Inv, [Next]_vars, book' # book
      PROVE  /\ Keeps(book.notes, book'.notes)
             /\ ~Regresses(book.summary, book'.summary, minLivingSummaryRunes)
             /\ job' # job /\ upkeep.source = "coding"
                 => Minds(book.notes, book'.notes, upkeep.problem)
    <2>1. CASE SaveProfile
        BY <1>1, <2>1, SavedKeeps
    <2>2. CASE ProfileMoves /\ job' = job
        <3>1. PICK notes \in Notes :
                book' = [book EXCEPT !.notes = notes, !.skills = practised] /\ Keeps(book.notes, notes)
            BY <1>1, <2>2, MovesKeep
        <3>2. book \in Book /\ book.summary \in Nat
            BY <1>1 DEF Inv, RefreshFits, NotesTypeOK, Book
        <3>3. book'.notes = notes /\ book'.summary = book.summary
            BY <3>1, <3>2 DEF Book
        <3> QED
            BY <2>2, <3>1, <3>2, <3>3, NothingRegresses, LivingSummary
    <2> QED
        BY <1>1, <2>1, <2>2, BookRests
<1> QED
    BY <1>1, PipelineInvariant, PTL DEF Spec, ProfileKeepsWhatWas
=============================================================================
