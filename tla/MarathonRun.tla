---------------------------- MODULE MarathonRun ----------------------------
(***************************************************************************)
(* A run of the MCQ marathon in one browser page (MarathonPage.tsx): it    *)
(* builds a set of questions, takes the answers, saves the session after   *)
(* every change, writes an event for each answer, and has the memory       *)
(* reflect on a round before the next one is built or the run is finished. *)
(*                                                                         *)
(* Everything the page asks of the server is answered later, while the     *)
(* learner goes on: PATCHes of the session, one at a time; events, all at  *)
(* once; one generation or reflection; gradings of written answers; and    *)
(* the saves of an exit.  A handler works on the view it was rendered      *)
(* with.  The page knows only whether it is evaluating: a new set, and the *)
(* end of any grading, let the learner go on while others are in flight.   *)
(* A page that was left is opened again when its calls have ended.         *)
(***************************************************************************)
EXTENDS Naturals, Sequences, FiniteSets

CONSTANTS
    Answers,     \* the verdicts that an answer may get
    Written,     \* the indexes of the questions that are graded by the server
    Graders,     \* bound: gradings that are in flight at once
    SetSize,     \* questions of a set
    MaxRounds,   \* bound: rounds of the run
    MaxSets,     \* bound: sets that are built
    MaxCalls,    \* bound: PATCHes, events and gradings on the way when the learner goes on
    MaxAhead,    \* bound: PATCHes and events on the way when a draft is saved
    MaxFaults    \* bound: calls that fail, other than gradings, and reloads

ASSUME MarathonAssumption ==
    /\ "skipped" \notin Answers
    /\ {SetSize, MaxRounds, MaxSets, MaxCalls, MaxAhead} \subseteq Nat \ {0}
    /\ MaxFaults \in Nat

VARIABLES
    page,      \* phase, the generation or reflection under way, the exit, the rounds told
    view,      \* what the learner sees: round, set, question, verdicts
    grading,   \* evaluating, and the views of the handlers whose gradings are in flight
    saves,     \* the PATCHes of the page; the first one is in flight
    pending,   \* the events whose write is not known to have succeeded
    flush,     \* what the reflection and the exit still wait for
    row,       \* server: the session
    recorded,  \* server: the memory events
    reflected, \* server: the rounds that the memory has reflected on
    tracked,   \* history: the events of this page
    forgot,    \* history: questions whose verdict was not saved when the page went
    overtaken, \* history: questions in grading when a new set or another grading's end
               \* made the page forget that it was evaluating
    strayed,   \* history: the grade of one of them came when the page had gone on
    sets,      \* how many sets were built
    faults     \* how many calls failed, other than gradings, and reloads

pageVars == <<page, view, grading, saves>>
eventVars == <<pending, flush, tracked>>
serverVars == <<row, recorded, reflected>>
historyVars == <<forgot, overtaken, strayed>>
marathonVars == <<pageVars, eventVars, serverVars, historyVars, sets, faults>>

-----------------------------------------------------------------------------

Rounds == 1..MaxRounds

Question == [set : 1..MaxSets, index : 1..SetSize]

Verdict == [question : Question, round : Rounds, as : Answers \union {"skipped"}]

\* MarathonSessionState, as far as it is not the draft of an answer.  Set 0 is no set.
View ==
    [round : Rounds, set : 0..MaxSets, index : 1..SetSize, confirmed : BOOLEAN,
     verdicts : SUBSET Verdict]

NoSet == [round |-> 1, set |-> 0, index |-> 1, confirmed |-> FALSE, verdicts |-> {}]

Told(type, round) == [type |-> type, round |-> round]

Event == Verdict \union [type : {"started", "completed", "exited"}, round : Rounds]

\* A save that somebody waits for: the entry into a round, the finish, the exit.
Patch == [status : {"", "active", "completed"}, view : View, for : {"", "enter", "finish", "exit"}]

Waiter == {"reflection", "exit"}

Page ==
    [phase : {"closed", "loading", "active", "generation_failed", "results"},
     work : {"none", "generate", "enter", "flush", "maintain", "complete"},
     goal : {"next", "finish"},        \* what the reflection is for
     round : Rounds,                   \* the round to be built
     held : SUBSET Verdict,            \* the verdicts that its handler, or the finish, knows
     exit : {"none", "save", "flush"},
     exited : BOOLEAN,                 \* exitEventQueuedRef
     told : SUBSET Rounds,             \* completionEventRoundsRef
     left : View]                      \* the view that the exit saves

Closed ==
    [phase |-> "closed", work |-> "none", goal |-> "next", round |-> 1, held |-> {},
     exit |-> "none", exited |-> FALSE, told |-> {}, left |-> NoSet]

Idle == [on |-> FALSE, of |-> [g \in Graders |-> NoSet]]

InGrading == {g \in Graders : grading.of[g] # NoSet}

NoFlush == [w \in Waiter |-> [open |-> {}, failed |-> {}]]

TypeOK ==
    /\ page \in Page
    /\ view \in View
    /\ grading \in [on : BOOLEAN, of : [Graders -> View]]
    /\ saves \in Seq(Patch)
    /\ pending \in SUBSET [event : Event, promise : {"open", "ok", "failed"}]
    /\ flush \in [Waiter -> [open : SUBSET Event, failed : SUBSET Event]]
    /\ row \in [status : {"active", "completed"}, view : View]
    /\ recorded \in SUBSET Event
    /\ reflected \in SUBSET Rounds
    /\ tracked \in SUBSET Event
    /\ forgot \in SUBSET Question
    /\ overtaken \in SUBSET Question
    /\ strayed \in BOOLEAN
    /\ sets \in 0..MaxSets
    /\ faults \in 0..MaxFaults

\* The session was created by the launch; the page is not open yet.
Init ==
    /\ page = Closed
    /\ view = NoSet
    /\ grading = Idle
    /\ saves = <<>>
    /\ pending = {}
    /\ flush = NoFlush
    /\ row = [status |-> "active", view |-> NoSet]
    /\ recorded = {}
    /\ reflected = {}
    /\ tracked = {}
    /\ forgot = {}
    /\ overtaken = {}
    /\ strayed = FALSE
    /\ sets = 0
    /\ faults = 0

In(phase) == page.phase = phase

Current(v) == [set |-> v.set, index |-> v.index]

Judged(v) == {u.question : u \in v.verdicts}

\* persistSession: the PATCH waits for those before it.
Persist(status, v, for) == saves' = Append(saves, [status |-> status, view |-> v, for |-> for])

\* trackMcqEvent: the write begins at once, and nobody waits for it.
Track(events) ==
    /\ pending' = pending \union {[event |-> e, promise |-> "open"] : e \in events}
    /\ tracked' = tracked \union events
    /\ UNCHANGED flush

Promised(promise) == {p.event : p \in {p \in pending : p.promise = promise}}

\* setEvaluating(FALSE) while the gradings of graders are in flight.
Overtake(graders) == overtaken' = overtaken \union {Current(grading.of[g]) : g \in graders}

Fault == faults < MaxFaults /\ faults' = faults + 1

-----------------------------------------------------------------------------
(* Building a set.                                                         *)

\* The page has no call left from before.
Quiet == saves = <<>> /\ Promised("open") = {} /\ InGrading = {}

\* handleStart, with the launch that brought the learner here: the browser keeps it over a
\* reload, and the run begins again in the same session, whatever the session says.
Start == view' = NoSet /\ page' = [Closed EXCEPT !.phase = "loading", !.work = "generate"]

\* Without a launch: GET the session and go on with it, show its results, or build a set.
Resume ==
    /\ view' = row.view
    /\ page' =
           [Closed EXCEPT
               !.phase = IF row.status # "active" THEN "results"
                         ELSE IF row.view.set > 0 THEN "active" ELSE "loading",
               !.work = IF row.status = "active" /\ row.view.set = 0 THEN "generate" ELSE "none"]

\* initialize.  What an earlier page has told without saving it is forgotten.
Open ==
    /\ In("closed")
    /\ Quiet
    /\ Start \/ Resume
    /\ pending' = {}
    /\ tracked' = {}
    /\ forgot' = forgot \union ({e.question : e \in tracked \intersect Verdict} \ Judged(row.view))
    /\ strayed' = FALSE
    /\ UNCHANGED <<grading, saves, flush, serverVars, overtaken, sets, faults>>

\* beginRound and persistSession of enterGeneratedRound.  The save has the verdicts of the
\* handler, none in a first round; the page keeps those that came while it was waiting.
EnterRound(held) ==
    LET round == page.round
        fresh == [view EXCEPT !.round = round, !.set = sets + 1, !.index = 1, !.confirmed = FALSE]
    IN
    /\ sets < MaxSets
    /\ sets' = sets + 1
    /\ view' = fresh
    /\ grading' = [grading EXCEPT !.on = FALSE]
    /\ Overtake(InGrading)
    /\ page' = [page EXCEPT !.phase = "active", !.work = "enter", !.held = {}]
    /\ Persist("", [fresh EXCEPT !.verdicts = IF round = 1 THEN {} ELSE held], "enter")
    /\ Track({Told("started", round)})
    /\ UNCHANGED <<serverVars, forgot, strayed, faults>>

\* generateRound answers; its failure is shown with three ways on.
Generate ==
    /\ page.work = "generate"
    /\ \/ EnterRound(page.held)
       \/ /\ Fault
          /\ page' = [page EXCEPT !.phase = "generation_failed", !.work = "none"]
          /\ UNCHANGED <<view, grading, saves, eventVars, serverVars, historyVars, sets>>

\* handleRetryGeneration, or handleUsePracticeSet.
TryAgain ==
    /\ In("generation_failed")
    /\ \/ /\ page' = [page EXCEPT !.phase = "loading", !.work = "generate", !.held = view.verdicts]
          /\ UNCHANGED <<view, grading, saves, eventVars, serverVars, historyVars, sets, faults>>
       \/ EnterRound(view.verdicts)

-----------------------------------------------------------------------------
(* Answering.                                                              *)

Calls == Len(saves) + Cardinality(Promised("open"))

Busy == Calls + Cardinality(InGrading) >= MaxCalls

\* A selection, the blur of a written answer, or the timer saves the view again.
SaveDraft ==
    /\ In("active") /\ Calls < MaxAhead
    /\ Persist("", view, "")
    /\ UNCHANGED <<page, view, grading, eventVars, serverVars, historyVars, sets, faults>>

\* The verdict on the question of v, by a handler that was rendered with v.
Settle(v, as) ==
    LET verdict == [question |-> Current(v), round |-> v.round, as |-> as]
        results == {u \in v.verdicts : u.as # "skipped"}
        skipped == {u \in view.verdicts : u.as = "skipped"}
    IN
    /\ view' = [view EXCEPT !.confirmed = TRUE, !.verdicts = results \union skipped \union {verdict}]
    /\ Persist("", [v EXCEPT !.confirmed = TRUE, !.verdicts = @ \union {verdict}], "")
    /\ Track({verdict})
    /\ UNCHANGED <<page, serverVars, forgot, sets, faults>>

\* Slip: a question can be skipped while its answer is graded.
SlipMayJudge == In("active") /\ ~view.confirmed /\ ~Busy

\* The buttons are disabled while an answer is graded.
MayJudge == In("active") /\ ~view.confirmed /\ ~grading.on /\ ~Busy

\* handleConfirm of a selection, or handleSkip.
Confirm ==
    /\ MayJudge
    /\ \E as \in (IF view.index \in Written THEN {} ELSE Answers) \union {"skipped"} :
           Settle(view, as)
    /\ UNCHANGED <<grading, overtaken, strayed>>

\* handleConfirm of a written answer: POST /mcq/evaluate, whatever others are in flight.
Evaluate ==
    /\ MayJudge
    /\ view.index \in Written
    /\ \E g \in Graders \ InGrading :
           grading' = [on |-> TRUE, of |-> [grading.of EXCEPT ![g] = view]]
    /\ UNCHANGED <<page, view, saves, eventVars, serverVars, historyVars, sets, faults>>

(***************************************************************************)
(* The grade comes, or the call fails and the learner may try again; the   *)
(* page is not evaluating any more, although another grading may be in     *)
(* flight.  The handler settles the question it was rendered with, even if *)
(* the page shows another one by now, or has a verdict on this one.        *)
(***************************************************************************)
Evaluated ==
    /\ Calls < MaxCalls
    /\ \E g \in InGrading :
           LET v == grading.of[g] IN
           /\ grading' = [on |-> FALSE, of |-> [grading.of EXCEPT ![g] = NoSet]]
           /\ Overtake(InGrading \ {g})
           /\ \/ /\ \E as \in Answers : Settle(v, as)
                 /\ strayed' = (strayed \/ (Current(v) \in overtaken /\ v # view))
              \/ UNCHANGED <<page, view, saves, eventVars, serverVars, forgot, strayed, sets, faults>>

\* handleNext.
NextQuestion ==
    /\ In("active") /\ view.confirmed /\ view.index < SetSize /\ ~Busy
    /\ view' = [view EXCEPT !.index = @ + 1, !.confirmed = FALSE]
    /\ Persist("", view', "")
    /\ grading' = [grading EXCEPT !.on = FALSE]
    /\ UNCHANGED <<page, eventVars, serverVars, historyVars, sets, faults>>

-----------------------------------------------------------------------------
(* Reflecting on a round, before the next one or the end.                  *)

\* flushPendingMemoryEvents waits for the writes that are pending when it is called.
Await(waiter, awaited) ==
    flush' = [flush EXCEPT ![waiter] =
                 [open |-> {p.event : p \in {p \in awaited : p.promise = "open"}},
                  failed |-> {p.event : p \in {p \in awaited : p.promise = "failed"}}]]

\* handleNextRound or handleFinish: the round is told once, then its events are flushed.
Reflect ==
    LET completed == IF view.round \in page.told THEN {} ELSE {Told("completed", view.round)} IN
    /\ In("active") /\ view.confirmed /\ view.index = SetSize
    /\ page.work = "none"
    /\ \E goal \in {"next", "finish"} :
           /\ goal = "next" => view.round < MaxRounds
           /\ page' = [page EXCEPT !.phase = "loading", !.work = "flush", !.goal = goal,
                                    !.told = @ \union {view.round}, !.held = view.verdicts]
    /\ pending' = pending \union {[event |-> e, promise |-> "open"] : e \in completed}
    /\ tracked' = tracked \union completed
    /\ Await("reflection", pending')
    /\ UNCHANGED <<view, grading, saves, serverVars, historyVars, sets, faults>>

\* Slip: the writes that failed are taken off the list like the others.
SlipFlushed(waiter) ==
    /\ flush[waiter].open = {}
    /\ pending' = {p \in pending : p.promise = "open"}
    /\ flush' = [flush EXCEPT ![waiter] = [open |-> {}, failed |-> {}]]

\* All of them were written; they are taken off the list.
Flushed(waiter) ==
    /\ flush[waiter] = [open |-> {}, failed |-> {}]
    /\ pending' = {p \in pending : p.promise # "ok"}
    /\ UNCHANGED flush

\* Some were not: they are written again, and the caller fails.
FlushFails(waiter) ==
    LET failed == flush[waiter].failed IN
    /\ flush[waiter].open = {}
    /\ failed # {}
    /\ pending' = {p \in pending : p.event \notin failed}
                      \union {[event |-> e, promise |-> "open"] : e \in failed}
    /\ flush' = [flush EXCEPT ![waiter] = [open |-> {}, failed |-> {}]]

FlushRound ==
    /\ page.work = "flush"
    /\ \/ /\ Flushed("reflection")
          /\ page' = [page EXCEPT !.work = "maintain"]
       \/ /\ FlushFails("reflection")
          /\ page' = [page EXCEPT !.phase = "active", !.work = "none"]
    /\ UNCHANGED <<view, grading, saves, serverVars, tracked, historyVars, sets, faults>>

\* The learner is told, and may go on or end again.
MaintainFails == page' = [page EXCEPT !.phase = "active", !.work = "none"]

\* POST /memory/profile/maintain; its answer may be lost.
Maintain ==
    /\ page.work = "maintain"
    /\ \/ /\ reflected' = reflected \union {view.round}
          /\ IF page.goal = "next"
             THEN /\ page' = [page EXCEPT !.work = "generate", !.round = view.round + 1]
                  /\ UNCHANGED saves
             ELSE /\ page' = [page EXCEPT !.work = "complete"]
                  /\ Persist("completed", [view EXCEPT !.verdicts = page.held], "finish")
          /\ UNCHANGED faults
       \/ /\ Fault
          /\ MaintainFails
          /\ \/ reflected' = reflected \union {view.round}
             \/ UNCHANGED reflected
          /\ UNCHANGED saves
    /\ UNCHANGED <<view, grading, eventVars, row, recorded, historyVars, sets>>

-----------------------------------------------------------------------------
(* Leaving.                                                                *)

\* handleExit: the view is saved, then the events are flushed.
Exit ==
    LET exited == IF page.exited THEN {} ELSE {Told("exited", view.round)} IN
    /\ In("active") /\ page.exit = "none" /\ ~grading.on /\ ~Busy
    /\ page' = [page EXCEPT !.exit = "save", !.exited = TRUE, !.left = view]
    /\ Persist("active", view, "exit")
    /\ Track(exited)
    /\ UNCHANGED <<view, grading, serverVars, historyVars, sets, faults>>

\* The learner is led away; what the page has begun goes on, a grading too.
FlushExit ==
    /\ page.exit = "flush"
    /\ \/ Flushed("exit") /\ page' = Closed
       \/ FlushFails("exit") /\ page' = [page EXCEPT !.exit = "none"]
    /\ UNCHANGED <<view, grading, saves, serverVars, tracked, historyVars, sets, faults>>

\* The browser reloads or closes the page: some of its calls still reach the server.
Reload ==
    /\ ~In("closed")
    /\ Fault
    /\ page' = Closed
    /\ view' = NoSet
    /\ grading' = Idle
    /\ saves' = <<>>
    /\ \/ saves # <<>> /\ row' = [status |-> IF saves[1].status = "" THEN row.status ELSE saves[1].status,
                                  view |-> saves[1].view]
       \/ UNCHANGED row
    /\ \E sent \in SUBSET Promised("open") : recorded' = recorded \union sent
    /\ pending' = {}
    /\ flush' = NoFlush
    /\ UNCHANGED <<reflected, tracked, historyVars, sets>>

-----------------------------------------------------------------------------
(* The answers of the server.                                              *)

\* The PATCH at the head of the queue replaces the state of the session.
Write(patch) ==
    row' = [status |-> IF patch.status = "" THEN row.status ELSE patch.status, view |-> patch.view]

Saved(for) ==
    CASE for = "enter" -> page' = [page EXCEPT !.work = "none"]
      [] for = "finish" -> page' = [page EXCEPT !.phase = "results", !.work = "none"]
      [] for = "exit" -> page' = [page EXCEPT !.exit = "flush"]
      [] OTHER -> UNCHANGED page

\* The failure of a save that nobody waits for is ignored.
NotSaved(for) ==
    CASE for = "enter" -> page' = [page EXCEPT !.phase = "generation_failed", !.work = "none"]
      [] for = "finish" -> page' = [page EXCEPT !.phase = "active", !.work = "none"]
      [] for = "exit" -> page' = [page EXCEPT !.exit = "none"]
      [] OTHER -> UNCHANGED page

Heard(for) == IF In("closed") THEN "" ELSE for

\* Slip: the PATCHes are sent without waiting for one another.
SlipSendPatch ==
    \E i \in DOMAIN saves :
        /\ saves' = SubSeq(saves, 1, i - 1) \o SubSeq(saves, i + 1, Len(saves))
        /\ Write(saves[i])
        /\ Saved(Heard(saves[i].for))
        /\ IF saves[i].for = "exit" THEN Await("exit", pending) ELSE UNCHANGED flush
        /\ UNCHANGED <<view, grading, pending, tracked, recorded, reflected, historyVars, sets, faults>>

\* The first PATCH succeeds, fails, or is applied and its answer lost.
SendPatch ==
    LET patch == Head(saves) IN
    /\ saves # <<>>
    /\ saves' = Tail(saves)
    /\ \/ /\ Write(patch)
          /\ Saved(Heard(patch.for))
          /\ IF Heard(patch.for) = "exit" THEN Await("exit", pending) ELSE UNCHANGED flush
          /\ UNCHANGED faults
       \/ /\ Fault
          /\ Write(patch) \/ UNCHANGED row
          /\ NotSaved(Heard(patch.for))
          /\ UNCHANGED flush
    /\ UNCHANGED <<view, grading, pending, tracked, recorded, reflected, historyVars, sets>>

\* The promise of e settles, for all that wait for it.
Resolve(e, promise) ==
    /\ pending' = (pending \ {[event |-> e, promise |-> "open"]}) \union {[event |-> e, promise |-> promise]}
    /\ flush' = [w \in Waiter |->
                    [open |-> flush[w].open \ {e},
                     failed |-> IF promise = "failed" /\ e \in flush[w].open
                                THEN flush[w].failed \union {e} ELSE flush[w].failed]]

\* POST /memory/events; its answer may be lost.
SendEvent ==
    /\ \E e \in Promised("open") :
           \/ /\ recorded' = recorded \union {e}
              /\ Resolve(e, "ok")
              /\ UNCHANGED faults
           \/ /\ Fault
              /\ Resolve(e, "failed")
              /\ recorded' = recorded \union {e} \/ UNCHANGED recorded
    /\ UNCHANGED <<pageVars, row, reflected, tracked, historyVars, sets>>

Learner == SaveDraft \/ Confirm \/ Evaluate \/ NextQuestion \/ TryAgain \/ Reflect \/ Exit \/ Reload

Server == Generate \/ Evaluated \/ FlushRound \/ Maintain \/ FlushExit \/ SendPatch \/ SendEvent

Next == Open \/ Learner \/ Server

Spec == Init /\ [][Next]_marathonVars

-----------------------------------------------------------------------------

\* A round is built once the memory has reflected on those before it, after whatever
\* failures, retries and reloads (handleNextRound).
RoundsAreReflected ==
    \A v \in {view, row.view} : \A round \in Rounds : round < v.round => round \in reflected

\* The memory reflects when all that the page has told is recorded, unless a grade has
\* strayed.
ReflectsOnAllEvents == page.work = "maintain" /\ ~strayed => tracked \subseteq recorded

(***************************************************************************)
(* "Every write must settle successfully before the round-level memory     *)
(* refresh can run" (flushPendingMemoryEvents): when the page asks the     *)
(* memory to reflect, all it has told is recorded, however often the       *)
(* learner tried, left and failed to leave before; and no round is built   *)
(* ahead of that.  It fails when, since the page was opened, the grade of  *)
(* an overtaken question came after the page had gone on.                  *)
(***************************************************************************)
RunInv == TypeOK /\ RoundsAreReflected /\ ReflectsOnAllEvents

(***************************************************************************)
(* A question gets one verdict in the memory, although answers, skips and  *)
(* grades overlap, writes are repeated and the page is reopened; unless    *)
(* the page went before it had saved the first one, or the question's own  *)
(* grading was overtaken: then it can be skipped, or sent again, before    *)
(* the grade comes.                                                        *)
(***************************************************************************)
OneVerdictPerQuestion ==
    \A e, f \in recorded \ [type : {"started", "completed", "exited"}, round : Rounds] :
        e.question = f.question /\ e # f => e.question \in forgot \union overtaken

\* v is saved after w in a run that goes on.
AsFarAs(v, w) ==
    \/ v.set > w.set
    \/ v.set = w.set /\ v.index > w.index
    \/ v.set = w.set /\ v.index = w.index /\ (w.confirmed => v.confirmed) /\ w.verdicts \subseteq v.verdicts

\* "An awaited Exit save cannot be overtaken by an older write" (saveQueueRef): while the
\* exit waits for its events, the session is not behind what the learner left.  The save
\* of a grade that strayed does put it back.
ExitSavesTheRun == page.exit = "flush" /\ ~strayed => AsFarAs(row.view, page.left)

=============================================================================
