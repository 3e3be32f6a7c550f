---------------------------- MODULE ChatThreads ----------------------------
(***************************************************************************)
(* The conversations of one interview session (chat/service.go over        *)
(* chat/postgres_store.go): the threads, their messages and the evidence   *)
(* that a finished interview leaves in memory.  The requests:              *)
(*                                                                         *)
(*   create  POST /chat/threads                (CreateOrResume);           *)
(*   turn    POST /chat/threads/{id}/turns     (Turn);                     *)
(*   reset   POST /chat/threads/{id}/reset     (Reset, CreateOrResume);    *)
(*   finish  POST /chat/threads/{id}/finish    (Finish).                   *)
(*                                                                         *)
(* A step is one call of the store, the model or the memory service: every *)
(* request works on the rows that it has read, while others write them.    *)
(* The session is never deleted, and every request is authenticated.       *)
(***************************************************************************)
EXTENDS Naturals, Sequences, FiniteSets

CONSTANTS
    Threads,      \* the ids that new threads may get
    Requests,     \* the requests in flight
    Clients,      \* the client_message_ids of the learner's turns
    MaxMessages,  \* bound: messages of a thread
    MaxReads,     \* bound: turns, resets and finishes that read a thread
    None          \* no thread, no message

ASSUME ChatAssumption ==
    /\ None \notin Threads \union Clients
    /\ MaxMessages \in Nat
    /\ MaxReads \in Nat

VARIABLES
    threads,    \* the chat_threads rows
    messages,   \* the session_messages rows of each thread
    session,    \* the session: completed, and its memory_update_status
    memory,     \* interview_completed events, the one kept of them, the processed threads
    request,    \* the local state of every request
    unseen,     \* history: the work that a request did without a look at another's
    reads       \* how many turns, resets and finishes there were

chatVars == <<threads, messages, session, memory, request, unseen, reads>>

-----------------------------------------------------------------------------

ThreadStatus == {"active", "closed", "completed"}

Thread == [status : ThreadStatus \union {"absent"}, successor : Threads \union {None}]

Absent == [status |-> "absent", successor |-> None]

\* An opening replies to no message.
Message ==
    [role : {"user", "assistant"}, client : Clients \union {None}, status : {"complete", "interrupted"}]

UserMessage(c)   == [role |-> "user", client |-> c, status |-> "complete"]
Reply(c, status) == [role |-> "assistant", client |-> c, status |-> status]

Points ==
    {"idle", "find", "look", "insert", "opening",
     "append", "reply", "stream", "touch", "close", "link",
     "assess", "complete", "settle", "events", "record", "refresh", "status"}

\* row is the copy of the thread that the request has read and writes back.
Request ==
    [at : Points, op : {"none", "create", "turn", "reset", "finish"}, id : Threads \union {None},
     row : Thread, client : Clients \union {None}, next : Threads \union {None}, saved : BOOLEAN]

Idle ==
    [at |-> "idle", op |-> "none", id |-> None, row |-> Absent, client |-> None, next |-> None,
     saved |-> FALSE]

MemoryStatus == {"idle", "synced", "failed"}

TypeOK ==
    /\ threads \in [Threads -> Thread]
    /\ messages \in [Threads -> Seq(Message)]
    /\ session \in [completed : BOOLEAN, memory : MemoryStatus]
    /\ memory \in [recorded : [Threads -> Nat], kept : Threads \union {None},
                   processed : SUBSET Threads]
    /\ request \in [Requests -> Request]
    /\ unseen \in SUBSET [at : {"reply", "events"}, id : Threads, client : Clients \union {None}]
    /\ reads \in 0..MaxReads

Init ==
    /\ threads = [t \in Threads |-> Absent]
    /\ messages = [t \in Threads |-> <<>>]
    /\ session = [completed |-> FALSE, memory |-> "idle"]
    /\ memory = [recorded |-> [t \in Threads |-> 0], kept |-> None, processed |-> {}]
    /\ request = [r \in Requests |-> Idle]
    /\ unseen = {}
    /\ reads = 0

At(r, point) == request[r].at = point

Goto(r, point) == request' = [request EXCEPT ![r].at = point]

Answer(r) == request' = [request EXCEPT ![r] = Idle]

ActiveThreads == {t \in Threads : threads[t].status = "active"}

\* The work of a request on a thread that another one may repeat.
Stages == {"reply", "stream", "events", "record"}

Work(at, id, client) ==
    [at |-> CASE at = "stream" -> "reply" [] at = "record" -> "events" [] OTHER -> at,
     id |-> id, client |-> client]

\* r begins a piece of work that another request has begun and not ended.
Begin(r, at, id, client) ==
    unseen' = unseen \union
        {Work(at, id, client) : q \in {q \in Requests \ {r} :
            /\ request[q].at \in Stages
            /\ Work(request[q].at, request[q].id, request[q].client) = Work(at, id, client)}}

\* The look at what was done already fails, and its error is ignored.
Miss(at, id, client) == unseen' = unseen \union {Work(at, id, client)}

-----------------------------------------------------------------------------
(* The store.                                                              *)

(***************************************************************************)
(* Operators named Slip... are the definition that follows them with a     *)
(* plausible mistake in it; no action uses them.                           *)
(***************************************************************************)

\* Slip: only inserts are held against the index.
SlipIndexAdmits(t, status) == status \in ThreadStatus

\* idx_chat_threads_one_active_session_kind refuses a second active thread.
IndexAdmits(t, status) == status = "active" => ActiveThreads \subseteq {t}

\* UpdateThread writes the whole row.
UpdateThread(t, row) ==
    threads' = IF IndexAdmits(t, row.status) THEN [threads EXCEPT ![t] = row] ELSE threads

\* idx_session_messages_client_id: a learner's message is stored once.
AppendMessage(t, message) ==
    messages' =
        IF message.role = "user" /\ \E i \in DOMAIN messages[t] : messages[t][i] = message
        THEN messages
        ELSE [messages EXCEPT ![t] = Append(@, message)]

Replies(t, c) ==
    {i \in DOMAIN messages[t] : messages[t][i].role = "assistant" /\ messages[t][i].client = c}

\* FindAssistantReply returns the latest reply; Turn replays it when it is complete.
CompleteReply(t, c) ==
    \E i \in Replies(t, c) :
        /\ \A j \in Replies(t, c) : j <= i
        /\ messages[t][i].status = "complete"

-----------------------------------------------------------------------------
(* CreateOrResume, alone or called by Reset.                               *)

Create(r) ==
    /\ At(r, "idle")
    /\ request' = [request EXCEPT ![r] = [Idle EXCEPT !.at = "find", !.op = "create"]]
    /\ UNCHANGED <<threads, messages, session, memory, unseen, reads>>

\* The thread t is the answer: Reset still links it.
Answered(r, t) ==
    request' =
        [request EXCEPT ![r] =
            IF @.op = "reset" THEN [@ EXCEPT !.at = "link", !.next = t] ELSE Idle]

FindActive(r) ==
    /\ At(r, "find")
    /\ \/ /\ ActiveThreads = {}
          /\ Goto(r, "insert")
       \/ \E t \in ActiveThreads :
              request' = [request EXCEPT ![r].at = "look", ![r].next = t]
    /\ UNCHANGED <<threads, messages, session, memory, unseen, reads>>

\* A resumed thread without messages gets the opening that an earlier request owes it.
LookAtMessages(r) ==
    /\ At(r, "look")
    /\ IF messages[request[r].next] = <<>>
       THEN Goto(r, "opening")
       ELSE Answered(r, request[r].next)
    /\ UNCHANGED <<threads, messages, session, memory, unseen, reads>>

\* A refused insert returns the thread of the concurrent request as it is.
InsertThread(r) ==
    /\ At(r, "insert")
    /\ \/ \E t \in Threads :
              /\ threads[t] = Absent
              /\ ActiveThreads = {}
              /\ threads' = [threads EXCEPT ![t].status = "active"]
              /\ request' = [request EXCEPT ![r].at = "opening", ![r].next = t]
       \/ /\ ActiveThreads # {}
          /\ \E t \in ActiveThreads : Answered(r, t)
          /\ UNCHANGED threads
    /\ UNCHANGED <<messages, session, memory, unseen, reads>>

\* generateOpening, then the opening is appended; without it the request fails.
GenerateOpening(r) ==
    LET t == request[r].next IN
    /\ At(r, "opening")
    /\ \/ /\ Len(messages[t]) < MaxMessages
          /\ AppendMessage(t, Reply(None, "complete"))
          /\ Answered(r, t)
       \/ Answer(r) /\ UNCHANGED messages
    /\ UNCHANGED <<threads, session, memory, unseen, reads>>

-----------------------------------------------------------------------------
(* Turn.                                                                   *)

\* A request other than create begins by reading its thread.
Read(r, op, t, point, client) ==
    /\ At(r, "idle")
    /\ reads < MaxReads
    /\ threads[t] # Absent
    /\ reads' = reads + 1
    /\ request' =
           [request EXCEPT ![r] =
               [Idle EXCEPT !.at = point, !.op = op, !.id = t, !.row = threads[t], !.client = client]]
    /\ UNCHANGED <<threads, messages, session, memory, unseen>>

ReadForTurn(r) ==
    \E t \in Threads, c \in Clients :
        /\ threads[t].status = "active"
        /\ Read(r, "turn", t, "append", c)

AppendTurn(r) ==
    LET q == request[r] IN
    /\ At(r, "append")
    /\ Len(messages[q.id]) < MaxMessages
    /\ AppendMessage(q.id, UserMessage(q.client))
    /\ Goto(r, "reply")
    /\ Begin(r, "reply", q.id, q.client)
    /\ UNCHANGED <<threads, session, memory, reads>>

\* Slip: the reply is looked for under the id of a message that was not stored.
SlipFindReply(r) ==
    /\ At(r, "reply")
    /\ Goto(r, "stream")
    /\ UNCHANGED <<threads, messages, session, memory, unseen, reads>>

\* A turn that has its reply is replayed; any other is streamed, and so is one whose
\* reply cannot be looked for.
FindReply(r) ==
    LET q == request[r] IN
    /\ At(r, "reply")
    /\ \/ /\ IF CompleteReply(q.id, q.client) THEN Answer(r) ELSE Goto(r, "stream")
          /\ UNCHANGED unseen
       \/ Goto(r, "stream") /\ Miss("reply", q.id, q.client)
    /\ UNCHANGED <<threads, messages, session, memory, reads>>

(***************************************************************************)
(* The stream ends, complete or not; what has been said so far is stored,  *)
(* unless nothing has, or the store fails: the client that has left        *)
(* cancelled the context of the call.                                      *)
(***************************************************************************)
EndStream(r) ==
    LET q == request[r] IN
    /\ At(r, "stream")
    /\ \/ /\ Len(messages[q.id]) < MaxMessages
          /\ \E status \in {"complete", "interrupted"} : AppendMessage(q.id, Reply(q.client, status))
          /\ Goto(r, "touch")
       \/ Goto(r, "touch") /\ UNCHANGED messages
    /\ UNCHANGED <<threads, session, memory, unseen, reads>>

\* UpdateThread for updated_at: the row as it was read, its errors ignored.
TouchThread(r) ==
    /\ At(r, "touch")
    /\ UpdateThread(request[r].id, request[r].row)
    /\ Answer(r)
    /\ UNCHANGED <<messages, session, memory, unseen, reads>>

-----------------------------------------------------------------------------
(* Reset: it closes its thread, creates or resumes another, and links it.  *)

ReadForReset(r) == \E t \in Threads : Read(r, "reset", t, "close", None)

\* Slip: the copy that is linked later keeps the status that was read.
SlipCloseThread(r) ==
    /\ At(r, "close")
    /\ UpdateThread(request[r].id, [request[r].row EXCEPT !.status = "closed"])
    /\ Goto(r, "find")
    /\ UNCHANGED <<messages, session, memory, unseen, reads>>

CloseThread(r) ==
    LET closed == [request[r].row EXCEPT !.status = "closed"] IN
    /\ At(r, "close")
    /\ UpdateThread(request[r].id, closed)
    /\ request' = [request EXCEPT ![r].row = closed, ![r].at = "find"]
    /\ UNCHANGED <<messages, session, memory, unseen, reads>>

LinkSuccessor(r) ==
    LET q == request[r] IN
    /\ At(r, "link")
    /\ UpdateThread(q.id, [q.row EXCEPT !.successor = q.next])
    /\ Answer(r)
    /\ UNCHANGED <<messages, session, memory, unseen, reads>>

-----------------------------------------------------------------------------
(* Finish.                                                                 *)

(***************************************************************************)
(* A completed thread of a session that says "synced" is answered at once, *)
(* which changes nothing; but the error of that read is ignored, and a     *)
(* session that cannot be read says nothing: the finish is done again.     *)
(***************************************************************************)
ReadForFinish(r) == \E t \in Threads : Read(r, "finish", t, "assess", None)

\* AssessInterview over the complete messages.
Assess(r) ==
    /\ At(r, "assess")
    /\ Goto(r, "complete") \/ Answer(r)
    /\ UNCHANGED <<threads, messages, session, memory, unseen, reads>>

CompleteThread(r) ==
    LET completed == [request[r].row EXCEPT !.status = "completed"] IN
    /\ At(r, "complete")
    /\ UpdateThread(request[r].id, completed)
    /\ request' = [request EXCEPT ![r].row = completed, ![r].at = "settle"]
    /\ UNCHANGED <<messages, session, memory, unseen, reads>>

CompleteSession(r) ==
    /\ At(r, "settle")
    /\ \/ /\ session' = [session EXCEPT !.completed = TRUE]
          /\ Goto(r, "events")
          /\ Begin(r, "events", request[r].id, None)
       \/ Answer(r) /\ UNCHANGED <<session, unseen>>
    /\ UNCHANGED <<threads, messages, memory, reads>>

\* ListEvents: the interview that an earlier attempt recorded is not recorded again,
\* unless the events cannot be listed.
LookForEvent(r) ==
    LET t == request[r].id IN
    /\ At(r, "events")
    /\ \/ /\ IF memory.recorded[t] > 0
             THEN request' = [request EXCEPT ![r].at = "refresh", ![r].saved = TRUE]
             ELSE Goto(r, "record")
          /\ UNCHANGED unseen
       \/ Goto(r, "record") /\ Miss("events", t, None)
    /\ UNCHANGED <<threads, messages, session, memory, reads>>

(***************************************************************************)
(* RecordEvent.  The evidence of a session's interviews has one source key *)
(* (profileEvidenceSourceKey): of two threads the richer or later event is *)
(* kept (profileEvidenceEventPreferred).                                   *)
(***************************************************************************)
RecordInterview(r) ==
    LET t == request[r].id IN
    /\ At(r, "record")
    /\ \/ /\ \E k \in {t} \union ({memory.kept} \ {None}) :
                 memory' = [memory EXCEPT !.recorded[t] = @ + 1, !.kept = k]
          /\ request' = [request EXCEPT ![r].at = "refresh", ![r].saved = TRUE]
       \/ Goto(r, "refresh") /\ UNCHANGED memory
    /\ UNCHANGED <<threads, messages, session, unseen, reads>>

(***************************************************************************)
(* What RefreshProfile for the thread t may do, and the status that Finish *)
(* takes it for: a call fails; t is already processed; no evidence of t is *)
(* kept, an error; the profile is saved with the mark of t; the generated  *)
(* profile is invalid, which Skipped tells without the word "failed".      *)
(***************************************************************************)
Outcome(status, marked) == [status |-> status, marked |-> marked]

RefreshOutcomes(t) ==
    {Outcome("failed", {})}
        \union (IF t \in memory.processed THEN {Outcome("synced", {})}
                ELSE IF t = memory.kept THEN {Outcome("synced", {t}), Outcome("synced", {})}
                ELSE {})

\* Without its event saved the profile is not refreshed.
Refresh(r) ==
    LET q == request[r] IN
    /\ At(r, "refresh")
    /\ \E outcome \in
           IF q.saved THEN RefreshOutcomes(q.id) ELSE {Outcome("failed", {})} :
           /\ memory' = [memory EXCEPT !.processed = @ \union outcome.marked]
           /\ request' = [request EXCEPT ![r].at = "status", ![r].saved = outcome.status = "synced"]
    /\ UNCHANGED <<threads, messages, session, unseen, reads>>

\* SetMemoryUpdateStatus, its error ignored.
SetStatus(r) ==
    /\ At(r, "status")
    /\ \/ session' = [session EXCEPT !.memory = IF request[r].saved THEN "synced" ELSE "failed"]
       \/ UNCHANGED session
    /\ Answer(r)
    /\ UNCHANGED <<threads, messages, memory, unseen, reads>>

-----------------------------------------------------------------------------

\* A request ends wherever it is: a call fails, its client leaves, the server stops.
Abandon(r) ==
    /\ ~At(r, "idle")
    /\ Answer(r)
    /\ UNCHANGED <<threads, messages, session, memory, unseen, reads>>

CreateStep(r) ==
    Create(r) \/ FindActive(r) \/ LookAtMessages(r) \/ InsertThread(r) \/ GenerateOpening(r)

TurnStep(r) ==
    ReadForTurn(r) \/ AppendTurn(r) \/ FindReply(r) \/ EndStream(r) \/ TouchThread(r)

ResetStep(r) == ReadForReset(r) \/ CloseThread(r) \/ LinkSuccessor(r)

FinishStep(r) ==
    \/ ReadForFinish(r) \/ Assess(r) \/ CompleteThread(r) \/ CompleteSession(r)
    \/ LookForEvent(r) \/ RecordInterview(r) \/ Refresh(r) \/ SetStatus(r)

Next ==
    \E r \in Requests : CreateStep(r) \/ TurnStep(r) \/ ResetStep(r) \/ FinishStep(r) \/ Abandon(r)

Spec == Init /\ [][Next]_chatVars

-----------------------------------------------------------------------------

\* A session has one active thread, although late turns write back the rows they read.
OneActiveThread == \A t, u \in ActiveThreads : t = u

\* The rows are well typed, and one thread of the session is active (UpdateThread,
\* CreateThread).
ThreadInv == TypeOK /\ OneActiveThread

(***************************************************************************)
(* A turn that is sent again, after an interrupted stream or any failure,  *)
(* is answered once: two complete replies come only of two turns with the  *)
(* same client_message_id at the same time, or of a turn that could not    *)
(* look for the first reply (Turn, FindAssistantReply).                    *)
(***************************************************************************)
AnsweredOnce ==
    \A t \in Threads, c \in Clients :
        Cardinality({i \in Replies(t, c) : messages[t][i].status = "complete"}) > 1 =>
            Work("reply", t, c) \in unseen

\* However often an interview is finished, its event is recorded once, unless two
\* requests finished it at the same time or the events could not be listed (Finish).
RecordedOnce ==
    \A t \in Threads : memory.recorded[t] > 1 => Work("events", t, None) \in unseen

\* What is sent again is not done again (Turn, Finish).
RepeatsAreHarmless == AnsweredOnce /\ RecordedOnce

\* A turn is under way that has read t while it was active.
LateTurn(t) == \E r \in Requests : request[r].op = "turn" /\ request[r].id = t

\* A thread that is over stays over once the turns that it interrupted have ended.
OverStaysOver ==
    [][\A t \in Threads :
           threads[t].status \in {"closed", "completed"} /\ ~LateTurn(t) =>
               threads'[t].status # "active"]_chatVars

=============================================================================
