--------------------------- MODULE PracticeIntakes ---------------------------
(***************************************************************************)
(* The baselines of one topic (intake/service.go over its stores) and the  *)
(* pages that ask for them (GeneratePage.tsx, QuestionModal.tsx).  A page  *)
(* has one request in flight: POST /practice-intakes (Prepare), which may  *)
(* restart the topic, or PATCH /practice-intakes/{id} (Update), which      *)
(* saves one answer or closes the baseline.  A request reads a record,     *)
(* may ask the model for questions, and writes the whole record back.      *)
(***************************************************************************)
EXTENDS Naturals, Sequences, FiniteSets, SequencesExt

CONSTANTS
    Tabs,        \* the pages of the learner
    Records,     \* the ids that new baselines may get
    Questions,   \* the questions of a draft
    MaxDrafts,   \* bound: drafts that the model makes
    None         \* no record

ASSUME IntakeAssumption ==
    /\ None \notin Records
    /\ Questions # {}
    /\ MaxDrafts \in Nat

VARIABLES
    records,  \* the practice_intakes rows of the topic
    recent,   \* their ids, the last updated first
    drafts,   \* how many drafts there are
    familiar, \* whether memory knows the topic
    page,     \* the local state of every page and of its request
    raced     \* history: two requests worked on one record, or on none, at the same time

intakeVars == <<records, recent, drafts, familiar, page, raced>>

-----------------------------------------------------------------------------

Closed == {"completed", "skipped"}

\* The ids of two drafts differ.
QuestionIds == (1..MaxDrafts) \X Questions

QuestionsOf(draft) == {draft} \X Questions

\* Draft 0 has no questions; error says that the model gave none.
Record ==
    [status : {"absent", "pending"} \union Closed, draft : 0..MaxDrafts,
     answers : SUBSET QuestionIds, error : BOOLEAN]

Absent == [status |-> "absent", draft |-> 0, answers |-> {}, error |-> FALSE]
Fresh  == [Absent EXCEPT !.status = "pending"]

Points ==
    {"form", "find", "check", "create", "draft", "shown", "get", "put", "launched"}

(***************************************************************************)
(* id and row are the page's baseline, or what its request has read of it; *)
(* chosen are the answers of the open modal; restart is "Update baseline"; *)
(* a PATCH asks for a status, or for the answer to a question.             *)
(***************************************************************************)
Page ==
    [at : Points, id : Records \union {None}, row : Record, chosen : SUBSET QuestionIds,
     restart : BOOLEAN, ask : {"none", "answer"} \union Closed, question : QuestionIds \union {None}]

Form ==
    [at |-> "form", id |-> None, row |-> Absent, chosen |-> {}, restart |-> FALSE,
     ask |-> "none", question |-> None]

TypeOK ==
    /\ records \in [Records -> Record]
    /\ recent \in Seq(Records)
    /\ Range(recent) = {i \in Records : records[i] # Absent}
    /\ drafts \in 0..MaxDrafts
    /\ familiar \in BOOLEAN
    /\ page \in [Tabs -> Page]
    /\ raced \in BOOLEAN

Init ==
    /\ records = [i \in Records |-> Absent]
    /\ recent = <<>>
    /\ drafts = 0
    /\ familiar \in BOOLEAN
    /\ page = [t \in Tabs |-> Form]
    /\ raced = FALSE

At(t, point) == page[t].at = point

Goto(t, point) == page' = [page EXCEPT ![t].at = point]

\* A request that has read the record i, or that no record exists, and may still write.
Holds(t, i) == page[t].id = i /\ page[t].at \in {"check", "create", "draft", "put"}

NoteRace(t, i) == raced' = (raced \/ \E u \in Tabs \ {t} : Holds(u, i))

(***************************************************************************)
(* The answer to a page: a closed baseline launches the practice; a modal  *)
(* opens with the answers of its record and keeps its own while it is      *)
(* open.                                                                   *)
(***************************************************************************)
Shown(t, i, row) ==
    [page[t] EXCEPT
        !.at = "shown", !.id = i, !.row = row, !.ask = "none", !.question = None, !.restart = FALSE,
        !.chosen = IF row.status = "pending" /\ row.draft # 0 THEN @ \union row.answers ELSE {}]

(***************************************************************************)
(* Operators named Slip... are the definition that follows them with a     *)
(* plausible mistake in it; no action uses them.                           *)
(***************************************************************************)

\* Slip: every answer but that to a question launches the practice.
SlipAnswered(t, i, row) ==
    page' = [page EXCEPT ![t] =
                IF page[t].ask # "answer" THEN [Form EXCEPT !.at = "launched", !.id = i, !.row = row]
                ELSE Shown(t, i, row)]

Answered(t, i, row) ==
    page' = [page EXCEPT ![t] =
                IF row.status \in Closed /\ page[t].ask # "answer"
                THEN [Form EXCEPT !.at = "launched", !.id = i, !.row = row]
                ELSE Shown(t, i, row)]

-----------------------------------------------------------------------------
(* The store.                                                              *)

\* FindLatestByTopic.
Latest == IF recent = <<>> THEN None ELSE Head(recent)

\* ListPending with limit 1: the pending record that was updated last.
IsLatestPending(i) ==
    \E k \in DOMAIN recent :
        /\ recent[k] = i /\ records[i].status = "pending"
        /\ \A j \in 1..(k - 1) : records[recent[j]].status # "pending"

\* Create and Update write the whole row.
Write(i, row) ==
    /\ records' = [records EXCEPT ![i] = row]
    /\ IF i \in Range(recent)
       THEN \E k \in DOMAIN recent : recent[k] = i /\ recent' = <<i>> \o RemoveAt(recent, k)
       ELSE recent' = <<i>> \o recent

-----------------------------------------------------------------------------
(* Opening and leaving a page.                                             *)

\* The page loads and shows the pending baseline, if there is one.
Restore(t) ==
    /\ At(t, "form") /\ page[t].id = None
    /\ \E i \in Records :
           /\ IsLatestPending(i)
           /\ page' = [page EXCEPT ![t] = Shown(t, i, records[i])]
    /\ UNCHANGED <<records, recent, drafts, familiar, raced>>

\* A page is closed or reloaded, whatever its request was doing.
Leave(t) ==
    /\ ~At(t, "form")
    /\ page' = [page EXCEPT ![t] = Form]
    /\ UNCHANGED <<records, recent, drafts, familiar, raced>>

-----------------------------------------------------------------------------
(* Prepare.                                                                *)

\* Start, Retry or "Update baseline".  A modal that is open hides them.
ModalOpen(t) == ~page[t].row.error /\ page[t].row.status = "pending" /\ page[t].row.draft # 0

Prepare(t) ==
    /\ page[t].at \in {"form", "shown"}
    /\ ~ModalOpen(t)
    /\ \E restart \in BOOLEAN :
           page' = [page EXCEPT ![t].at = "find", ![t].restart = restart]
    /\ UNCHANGED <<records, recent, drafts, familiar, raced>>

\* A restart asks for nothing that there is.
StartAnew(t) ==
    /\ page' = [page EXCEPT ![t].id = None, ![t].row = Absent,
                            ![t].at = IF page[t].restart THEN "create" ELSE "check"]
    /\ IF page[t].restart THEN UNCHANGED raced ELSE NoteRace(t, None)

FindLatest(t) ==
    LET i == Latest IN
    /\ At(t, "find")
    /\ \/ /\ page[t].restart \/ i = None
          /\ StartAnew(t)
       \/ /\ ~page[t].restart /\ i # None
          /\ records[i].status # "pending" \/ records[i].draft # 0
          /\ Answered(t, i, records[i])
          /\ UNCHANGED raced
       \/ /\ ~page[t].restart /\ i # None
          /\ records[i].status = "pending" /\ records[i].draft = 0
          /\ page' = [page EXCEPT ![t].at = "draft", ![t].id = i, ![t].row = records[i]]
          /\ NoteRace(t, i)
    /\ UNCHANGED <<records, recent, drafts, familiar>>

\* isFamiliar: a topic that memory knows is skipped at once.
CheckFamiliar(t) ==
    /\ At(t, "check")
    /\ IF familiar
       THEN \E i \in {i \in Records : records[i] = Absent} :
                /\ Write(i, [Fresh EXCEPT !.status = "skipped"])
                /\ Answered(t, i, [Fresh EXCEPT !.status = "skipped"])
       ELSE Goto(t, "create") /\ UNCHANGED <<records, recent>>
    /\ UNCHANGED <<drafts, familiar, raced>>

CreateRecord(t) ==
    /\ At(t, "create")
    /\ \E i \in {i \in Records : records[i] = Absent} :
           /\ Write(i, Fresh)
           /\ page' = [page EXCEPT ![t].at = "draft", ![t].id = i, ![t].row = Fresh]
    /\ UNCHANGED <<drafts, familiar, raced>>

\* Slip: only the columns of the questions are written.
SlipWriteDraft(t) ==
    LET i == page[t].id
        row == [records[i] EXCEPT !.draft = drafts + 1, !.error = FALSE] IN
    /\ At(t, "draft")
    /\ drafts < MaxDrafts
    /\ drafts' = drafts + 1
    /\ Write(i, row) /\ Answered(t, i, row)
    /\ UNCHANGED <<familiar, raced>>

\* retryGeneration: the model's questions, or its failure, in the record as it was read.
WriteDraft(t) ==
    LET i == page[t].id IN
    /\ At(t, "draft")
    /\ \/ /\ drafts < MaxDrafts
          /\ drafts' = drafts + 1
          /\ LET row == [page[t].row EXCEPT !.draft = drafts + 1, !.error = FALSE]
             IN  Write(i, row) /\ Answered(t, i, row)
       \/ /\ LET row == [page[t].row EXCEPT !.error = TRUE]
             IN  Write(i, row) /\ Answered(t, i, row)
          /\ UNCHANGED drafts
    /\ UNCHANGED <<familiar, raced>>

-----------------------------------------------------------------------------
(* Update.                                                                 *)

\* In the modal a choice, or "Build session" at its end; to skip there or after a failure.
Ask(t) ==
    LET row == page[t].row
        to(ask, question) ==
            page' = [page EXCEPT ![t].at = "get", ![t].ask = ask, ![t].question = question] IN
    /\ At(t, "shown")
    /\ row.status = "pending"
    /\ \/ ~row.error /\ \E question \in QuestionsOf(row.draft) : row.draft # 0 /\ to("answer", question)
       \/ ~row.error /\ row.draft # 0 /\ QuestionsOf(row.draft) \subseteq page[t].chosen /\ to("completed", None)
       \/ (row.error \/ row.draft # 0) /\ to("skipped", None)
    /\ UNCHANGED <<records, recent, drafts, familiar, raced>>

\* validAnswer, and all questions answered before completion.
Valid(ask, question, row) ==
    CASE ask = "answer"    -> question \in QuestionsOf(row.draft)
      [] ask = "completed" -> row.draft # 0 /\ row.answers = QuestionsOf(row.draft)
      [] ask = "skipped"   -> TRUE

\* Slip: a record that is closed is updated like any other.
SlipGetClosed(t) ==
    LET i == page[t].id IN
    /\ At(t, "get")
    /\ Valid(page[t].ask, page[t].question, records[i])
    /\ page' = [page EXCEPT ![t].at = "put",
                    ![t].row = IF page[t].ask = "answer"
                               THEN [records[i] EXCEPT !.answers = @ \union {page[t].question}]
                               ELSE [records[i] EXCEPT !.status = page[t].ask]]
    /\ NoteRace(t, i)
    /\ UNCHANGED <<records, recent, drafts, familiar>>

\* Update reads the record: one that is closed is the answer, and what is not valid is refused.
GetRecord(t) ==
    LET i == page[t].id
        row == records[i]
        ask == page[t].ask
        valid == Valid(ask, page[t].question, row) IN
    /\ At(t, "get")
    /\ \/ /\ row.status # "pending"
          /\ Answered(t, i, row)
          /\ UNCHANGED raced
       \/ /\ row.status = "pending" /\ valid
          /\ page' = [page EXCEPT ![t].at = "put",
                          ![t].row = IF ask = "answer"
                                     THEN [row EXCEPT !.answers = @ \union {page[t].question}]
                                     ELSE [row EXCEPT !.status = ask]]
          /\ NoteRace(t, i)
       \/ /\ row.status = "pending" /\ ~valid
          /\ page' = [page EXCEPT ![t].at = "shown", ![t].ask = "none", ![t].question = None]
          /\ UNCHANGED raced
    /\ UNCHANGED <<records, recent, drafts, familiar>>

PutRecord(t) ==
    /\ At(t, "put")
    /\ Write(page[t].id, page[t].row)
    /\ Answered(t, page[t].id, page[t].row)
    /\ UNCHANGED <<drafts, familiar, raced>>

-----------------------------------------------------------------------------

\* Practice of the topic is evidence: memory knows it from then on.
BecomeFamiliar ==
    /\ ~familiar
    /\ \E t \in Tabs : At(t, "launched")
    /\ familiar' = TRUE
    /\ UNCHANGED <<records, recent, drafts, page, raced>>

PageStep(t) ==
    \/ Restore(t) \/ Leave(t)
    \/ Prepare(t) \/ FindLatest(t) \/ CheckFamiliar(t) \/ CreateRecord(t) \/ WriteDraft(t)
    \/ Ask(t) \/ GetRecord(t) \/ PutRecord(t)

Next == BecomeFamiliar \/ \E t \in Tabs : PageStep(t)

Spec == Init /\ [][Next]_intakeVars

-----------------------------------------------------------------------------

(***************************************************************************)
(* Whatever is written over, the answers of a record are answers to its    *)
(* questions, and a completed one has them all: what Context hands to the  *)
(* generation is a whole baseline.                                         *)
(***************************************************************************)
AnswersFit ==
    \A i \in Records :
        /\ records[i].answers \subseteq QuestionsOf(records[i].draft)
        /\ records[i].status = "completed" =>
               records[i].draft # 0 /\ records[i].answers = QuestionsOf(records[i].draft)

\* The records are well typed, and fit for the generation that reads them (Context).
IntakeInv == TypeOK /\ AnswersFit

\* An answer that a page was told is saved is in the record, unless two requests raced.
AnswersAreKept ==
    \A t \in Tabs :
        ~raced /\ page[t].at \in {"shown", "get"} => page[t].chosen \subseteq records[page[t].id].answers

\* A page that starts a practice names a closed baseline, unless two requests raced.
LaunchedWithBaseline ==
    \A t \in Tabs : ~raced /\ At(t, "launched") => records[page[t].id].status \in Closed

\* A page goes on from what is stored (saveIntakeAnswer, startPractice).
PagesAreRight == AnswersAreKept /\ LaunchedWithBaseline

\* Completion and Skip are for good, whatever pages come later, unless two requests raced.
ClosedForGood ==
    [][\A i \in Records :
           ~raced /\ records[i].status \in Closed => records'[i] = records[i]]_intakeVars

=============================================================================
