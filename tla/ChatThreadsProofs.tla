--------------------------- MODULE ChatThreadsProofs ---------------------------
(***************************************************************************)
(* Proofs about ChatThreads for any threads, requests and messages.  What  *)
(* the store keeps of a conversation follows from what the requests in     *)
(* flight have read: WholeRequests says what a request holds at each point *)
(* of its handler, AnswerInv and RecordInv which of them may still repeat  *)
(* the work of another.                                                    *)
(***************************************************************************)
EXTENDS ChatThreads, FiniteSetTheorems, TLAPS

USE ChatAssumption

-----------------------------------------------------------------------------
(* What a request holds.                                                   *)

PointsOf(op) ==
    CASE op = "none"   -> {"idle"}
      [] op = "create" -> {"find", "look", "insert", "opening"}
      [] op = "turn"   -> {"append", "reply", "stream", "touch"}
      [] op = "reset"  -> {"close", "find", "look", "insert", "opening", "link"}
      [] op = "finish" -> {"assess", "complete", "settle", "events", "record", "refresh", "status"}

\* A request is at a point of its own handler; all but Create have read a thread, only
\* a turn has a message, a reset goes on with the row that it has closed, and next is
\* the thread to be opened or linked.
Whole(q) ==
    /\ q.at \in PointsOf(q.op)
    /\ q.op \in {"turn", "reset", "finish"} => q.id \in Threads
    /\ q.op # "turn" => q.client = None
    /\ q.op = "turn" => q.client \in Clients
    /\ q.op = "reset" /\ q.at # "close" => q.row.status = "closed"
    /\ q.at \in {"look", "opening", "link"} => q.next \in Threads

WholeRequests == \A r \in Requests : Whole(request[r])

ChatInv == ThreadInv /\ WholeRequests

LEMMA IdleIsWhole == Idle \in Request /\ Whole(Idle)
    BY DEF Idle, Request, Whole, PointsOf, Points, Absent, Thread, ThreadStatus

\* What a point says of the request that is there.
LEMMA PointTells ==
    ASSUME NEW q, Whole(q), q.op \in {"none", "create", "turn", "reset", "finish"}
    PROVE  /\ q.at = "idle" <=> q.op = "none"
           /\ q.at \in {"append", "reply", "stream", "touch"} <=> q.op = "turn"
           /\ q.at \in {"close", "link"} => q.op = "reset"
           /\ q.at \in {"find", "look", "insert", "opening"} => q.op \in {"create", "reset"}
           /\ q.at \in PointsOf("finish") <=> q.op = "finish"
    BY DEF Whole, PointsOf

\* A step that replaces the request r by a typed and whole one.
LEMMA OneRequestMoves ==
    ASSUME request \in [Requests -> Request], WholeRequests,
           NEW r \in Requests, NEW q \in Request, Whole(q),
           request' = [request EXCEPT ![r] = q]
    PROVE  request' \in [Requests -> Request] /\ WholeRequests'
    BY DEF WholeRequests

-----------------------------------------------------------------------------
(* The store keeps its rows typed and one thread active.                   *)

\* UpdateThread keeps the index, whatever row is written.
LEMMA UpdateKeepsIndex ==
    ASSUME threads \in [Threads -> Thread], OneActiveThread,
           NEW t \in Threads, NEW row \in Thread, UpdateThread(t, row)
    PROVE  threads' \in [Threads -> Thread] /\ OneActiveThread'
<1>1. CASE IndexAdmits(t, row.status)
    <2>1. threads' = [threads EXCEPT ![t] = row]
        BY <1>1 DEF UpdateThread
    <2>2. ActiveThreads' \subseteq (IF row.status = "active" THEN {t} ELSE ActiveThreads)
        BY <1>1, <2>1 DEF ActiveThreads, IndexAdmits
    <2> QED
        BY <2>1, <2>2 DEF OneActiveThread
<1>2. CASE ~IndexAdmits(t, row.status)
    BY <1>2 DEF UpdateThread, OneActiveThread, ActiveThreads
<1> QED
    BY <1>1, <1>2

LEMMA ThreadsUnchanged == OneActiveThread /\ threads' = threads => OneActiveThread'
    BY DEF OneActiveThread, ActiveThreads

LEMMA AppendIsTyped ==
    ASSUME messages \in [Threads -> Seq(Message)], NEW t \in Threads, NEW m \in Message,
           AppendMessage(t, m)
    PROVE  messages' \in [Threads -> Seq(Message)]
<1>1. Append(messages[t], m) \in Seq(Message)
    OBVIOUS
<1> QED
    BY <1>1 DEF AppendMessage

\* Begin adds to unseen only the work that begins.
LEMMA BeginMarks ==
    ASSUME NEW r, NEW at, NEW id, NEW client, Begin(r, at, id, client)
    PROVE  /\ unseen \subseteq unseen'
           /\ unseen' \subseteq unseen \union {Work(at, id, client)}
           /\ \A q \in Requests \ {r} :
                  /\ request[q].at \in Stages
                  /\ Work(request[q].at, request[q].id, request[q].client) = Work(at, id, client)
                  => Work(at, id, client) \in unseen'
    BY DEF Begin

LEMMA WorkIs ==
    ASSUME NEW id, NEW client
    PROVE  /\ Work("reply", id, client)  = [at |-> "reply", id |-> id, client |-> client]
           /\ Work("stream", id, client) = [at |-> "reply", id |-> id, client |-> client]
           /\ Work("events", id, client) = [at |-> "events", id |-> id, client |-> client]
           /\ Work("record", id, client) = [at |-> "events", id |-> id, client |-> client]
    BY DEF Work

LEMMA InitChatInv == Init => ChatInv
<1> SUFFICES ASSUME Init PROVE ChatInv
    OBVIOUS
<1>1. TypeOK
    BY IdleIsWhole DEF Init, TypeOK, Absent, Thread, ThreadStatus, MemoryStatus
<1>2. OneActiveThread
    BY DEF Init, OneActiveThread, ActiveThreads, Absent
<1>3. WholeRequests
    BY IdleIsWhole DEF Init, WholeRequests
<1> QED
    BY <1>1, <1>2, <1>3 DEF ChatInv, ThreadInv

-----------------------------------------------------------------------------
(* Every step keeps it.                                                    *)

\* A step that leaves the rows, the messages and the session alone.
LEMMA QuietStep ==
    ASSUME ChatInv, NEW r \in Requests, NEW q \in Request, Whole(q),
           request' = [request EXCEPT ![r] = q],
           UNCHANGED <<threads, messages, session, memory, unseen>>, reads' \in 0..MaxReads
    PROVE  ChatInv'
    BY OneRequestMoves, ThreadsUnchanged DEF ChatInv, ThreadInv, TypeOK

\* What a step starts from.
LEMMA InvGives ==
    ASSUME ChatInv, NEW r \in Requests
    PROVE  /\ TypeOK /\ OneActiveThread /\ WholeRequests
           /\ request[r] \in Request /\ Whole(request[r])
           /\ request \in [Requests -> Request]
           /\ reads \in 0..MaxReads
           /\ request[r].op \in {"none", "create", "turn", "reset", "finish"}
    BY DEF ChatInv, ThreadInv, TypeOK, WholeRequests, Request

\* A request that answers its client, whole or at the link of a reset.
LEMMA AnsweredIsWhole ==
    ASSUME ChatInv, NEW r \in Requests, NEW t \in Threads, Answered(r, t),
           request[r].at \in {"look", "insert", "opening"}
    PROVE  \E q \in Request : Whole(q) /\ request' = [request EXCEPT ![r] = q]
<1>1. CASE request[r].op = "reset"
    <2> DEFINE q == [request[r] EXCEPT !.at = "link", !.next = t]
    <2>1. q \in Request /\ Whole(q)
        BY ZenonT(60), <1>1, InvGives DEF Request, Whole, PointsOf, Points
    <2>2. request' = [request EXCEPT ![r] = q]
        BY <1>1, InvGives DEF Answered
    <2> QED
        BY <2>1, <2>2
<1>2. CASE request[r].op # "reset"
    BY <1>2, IdleIsWhole, InvGives DEF Answered
<1> QED
    BY <1>1, <1>2

LEMMA CreateKeeps ==
    ASSUME ChatInv, NEW r \in Requests, CreateStep(r)
    PROVE  ChatInv'
<1> DEFINE q == request[r]
<1>0. /\ TypeOK /\ OneActiveThread /\ WholeRequests
      /\ q \in Request /\ Whole(q) /\ request \in [Requests -> Request]
      /\ reads \in 0..MaxReads
      /\ q.op \in {"none", "create", "turn", "reset", "finish"}
    BY InvGives
<1>1. CASE Create(r)
    <2> DEFINE next == [Idle EXCEPT !.at = "find", !.op = "create"]
    <2>1. next \in Request /\ Whole(next)
        BY DEF Idle, Request, Whole, PointsOf, Points, Absent, Thread, ThreadStatus
    <2> QED
        BY <1>0, <1>1, <2>1, QuietStep DEF Create
<1>2. CASE FindActive(r)
    <2>1. CASE Goto(r, "insert")
        <3>1. [q EXCEPT !.at = "insert"] \in Request /\ Whole([q EXCEPT !.at = "insert"])
            BY <1>0, <1>2 DEF FindActive, At, Request, Whole, PointsOf, Points
        <3> QED
            BY <1>0, <1>2, <2>1, <3>1, QuietStep DEF FindActive, Goto
    <2>2. ASSUME NEW t \in ActiveThreads,
                 request' = [request EXCEPT ![r].at = "look", ![r].next = t]
          PROVE  ChatInv'
        <3> DEFINE next == [q EXCEPT !.at = "look", !.next = t]
        <3>1. next \in Request /\ Whole(next)
            BY <1>0, <1>2 DEF FindActive, At, Request, Whole, PointsOf, Points, ActiveThreads
        <3>2. request' = [request EXCEPT ![r] = next]
            BY <1>0, <2>2
        <3> QED
            BY <1>0, <1>2, <3>1, <3>2, QuietStep DEF FindActive
    <2> QED
        BY <1>2, <2>1, <2>2 DEF FindActive
<1>3. CASE LookAtMessages(r)
    <2>1. CASE Goto(r, "opening")
        <3>1. [q EXCEPT !.at = "opening"] \in Request /\ Whole([q EXCEPT !.at = "opening"])
            BY <1>0, <1>3 DEF LookAtMessages, At, Request, Whole, PointsOf, Points
        <3> QED
            BY <1>0, <1>3, <2>1, <3>1, QuietStep DEF LookAtMessages, Goto
    <2>2. CASE Answered(r, q.next)
        <3>1. q.next \in Threads /\ q.at = "look"
            BY <1>0, <1>3 DEF LookAtMessages, At, Whole
        <3>2. PICK n \in Request : Whole(n) /\ request' = [request EXCEPT ![r] = n]
            BY <2>2, <3>1, AnsweredIsWhole
        <3> QED
            BY <1>0, <1>3, <3>2, QuietStep DEF LookAtMessages
    <2> QED
        BY <1>3, <2>1, <2>2 DEF LookAtMessages
<1>4. CASE InsertThread(r)
    <2>1. ASSUME NEW t \in Threads, ActiveThreads = {}, threads[t] = Absent,
                 threads' = [threads EXCEPT ![t].status = "active"],
                 request' = [request EXCEPT ![r].at = "opening", ![r].next = t]
          PROVE  ChatInv'
        <3> DEFINE next == [q EXCEPT !.at = "opening", !.next = t]
        <3>1. next \in Request /\ Whole(next)
            BY <1>0, <1>4 DEF InsertThread, At, Request, Whole, PointsOf, Points
        <3>2. request' = [request EXCEPT ![r] = next]
            BY <1>0, <2>1
        <3>3. request' \in [Requests -> Request] /\ WholeRequests'
            BY <1>0, <3>1, <3>2, OneRequestMoves
        <3>4. threads' \in [Threads -> Thread] /\ ActiveThreads' \subseteq {t}
            <4> DEFINE row == [threads[t] EXCEPT !.status = "active"]
            <4>1. threads \in [Threads -> Thread]
                BY <1>0 DEF TypeOK
            <4>2. row \in Thread /\ threads' = [threads EXCEPT ![t] = row]
                BY <2>1, <4>1 DEF Thread, ThreadStatus
            <4>3. threads' \in [Threads -> Thread]
                BY <4>1, <4>2
            <4>4. \A u \in Threads \ {t} : threads[u].status # "active" /\ threads'[u] = threads[u]
                BY <2>1, <4>1, <4>2 DEF ActiveThreads
            <4> QED
                BY <4>3, <4>4 DEF ActiveThreads
        <3>5. OneActiveThread'
            BY <3>4 DEF OneActiveThread
        <3> QED
            BY <1>0, <1>4, <3>3, <3>4, <3>5 DEF InsertThread, ChatInv, ThreadInv, TypeOK
    <2>2. ASSUME NEW t \in ActiveThreads, Answered(r, t), UNCHANGED threads
          PROVE  ChatInv'
        <3>1. t \in Threads /\ q.at = "insert"
            BY <1>4 DEF InsertThread, At, ActiveThreads
        <3>2. PICK n \in Request : Whole(n) /\ request' = [request EXCEPT ![r] = n]
            BY <2>2, <3>1, AnsweredIsWhole
        <3> QED
            BY <1>0, <1>4, <2>2, <3>2, QuietStep DEF InsertThread
    <2> QED
        BY <1>4, <2>1, <2>2 DEF InsertThread
<1>5. CASE GenerateOpening(r)
    <2>1. q.next \in Threads /\ q.at = "opening"
        BY <1>0, <1>5 DEF GenerateOpening, At, Whole
    <2>2. CASE AppendMessage(q.next, Reply(None, "complete")) /\ Answered(r, q.next)
        <3>1. PICK n \in Request : Whole(n) /\ request' = [request EXCEPT ![r] = n]
            BY <2>1, <2>2, AnsweredIsWhole
        <3>2. Reply(None, "complete") \in Message
            BY DEF Reply, Message
        <3>3. messages' \in [Threads -> Seq(Message)]
            BY <1>0, <2>1, <2>2, <3>2, AppendIsTyped DEF TypeOK
        <3> QED
            BY <1>0, <1>5, <3>1, <3>3, OneRequestMoves, ThreadsUnchanged
            DEF GenerateOpening, ChatInv, ThreadInv, TypeOK
    <2>3. CASE Answer(r) /\ UNCHANGED messages
        BY <1>0, <1>5, <2>3, IdleIsWhole, QuietStep DEF GenerateOpening, Answer
    <2> QED
        BY <1>5, <2>2, <2>3 DEF GenerateOpening
<1> QED
    BY <1>1, <1>2, <1>3, <1>4, <1>5 DEF CreateStep

\* A request that reads its thread.
LEMMA ReadKeeps ==
    ASSUME ChatInv, NEW r \in Requests, NEW t \in Threads, NEW client,
           NEW op, NEW point, Read(r, op, t, point, client),
           \/ op = "turn" /\ point = "append" /\ client \in Clients
           \/ op = "reset" /\ point = "close" /\ client = None
           \/ op = "finish" /\ point = "assess" /\ client = None
    PROVE  ChatInv'
<1> DEFINE next == [Idle EXCEPT !.at = point, !.op = op, !.id = t, !.row = threads[t], !.client = client]
<1>1. threads[t] \in Thread
    BY InvGives DEF TypeOK
<1>2. next \in Request /\ Whole(next)
    BY <1>1 DEF Idle, Request, Whole, PointsOf, Points
<1>3. reads' \in 0..MaxReads
    BY InvGives DEF Read
<1> QED
    BY <1>2, <1>3, QuietStep DEF Read

LEMMA TurnKeeps ==
    ASSUME ChatInv, NEW r \in Requests, TurnStep(r)
    PROVE  ChatInv'
<1> DEFINE q == request[r]
<1>0. /\ TypeOK /\ OneActiveThread /\ WholeRequests
      /\ q \in Request /\ Whole(q) /\ request \in [Requests -> Request]
      /\ reads \in 0..MaxReads
      /\ q.op \in {"none", "create", "turn", "reset", "finish"}
    BY InvGives
<1>a. ASSUME q.at \in {"append", "reply", "stream", "touch"}
      PROVE  q.op = "turn" /\ q.id \in Threads /\ q.client \in Clients /\ q.row \in Thread
    BY <1>0, <1>a, PointTells DEF Whole, Request
<1>b. ASSUME NEW point \in {"append", "reply", "stream", "touch"},
             q.at \in {"append", "reply", "stream", "touch"}
      PROVE  [q EXCEPT !.at = point] \in Request /\ Whole([q EXCEPT !.at = point])
    BY <1>0, <1>a, <1>b DEF Request, Whole, PointsOf, Points
<1>1. CASE ReadForTurn(r)
    BY <1>1, ReadKeeps DEF ReadForTurn
<1>2. CASE AppendTurn(r)
    <2>1. q.at = "append" /\ q.id \in Threads /\ q.client \in Clients
        BY <1>2, <1>a DEF AppendTurn, At
    <2>2. UserMessage(q.client) \in Message
        BY <2>1 DEF UserMessage, Message
    <2>3. messages' \in [Threads -> Seq(Message)]
        BY <1>0, <1>2, <2>1, <2>2, AppendIsTyped DEF AppendTurn, TypeOK
    <2>4. request' \in [Requests -> Request] /\ WholeRequests'
        BY <1>0, <1>2, <1>b, <2>1, OneRequestMoves DEF AppendTurn, Goto
    <2>5. unseen' \in SUBSET [at : {"reply", "events"}, id : Threads, client : Clients \union {None}]
        BY <1>0, <1>2, <2>1, BeginMarks, WorkIs DEF AppendTurn, TypeOK
    <2> QED
        BY <1>0, <1>2, <2>3, <2>4, <2>5, ThreadsUnchanged DEF AppendTurn, ChatInv, ThreadInv, TypeOK
<1>3. CASE FindReply(r)
    <2>1. q.at = "reply" /\ q.id \in Threads /\ q.client \in Clients
        BY <1>3, <1>a DEF FindReply, At
    <2>2. request' \in [Requests -> Request] /\ WholeRequests'
        BY <1>0, <1>3, <1>b, <2>1, OneRequestMoves, IdleIsWhole DEF FindReply, Goto, Answer
    <2>3. unseen' \in SUBSET [at : {"reply", "events"}, id : Threads, client : Clients \union {None}]
        BY <1>0, <1>3, <2>1, WorkIs DEF FindReply, Miss, TypeOK
    <2> QED
        BY <1>0, <1>3, <2>2, <2>3, ThreadsUnchanged DEF FindReply, ChatInv, ThreadInv, TypeOK
<1>4. CASE EndStream(r)
    <2>1. q.at = "stream" /\ q.id \in Threads /\ q.client \in Clients
        BY <1>4, <1>a DEF EndStream, At
    <2>2. \A status \in {"complete", "interrupted"} : Reply(q.client, status) \in Message
        BY <2>1 DEF Reply, Message
    <2>3. messages' \in [Threads -> Seq(Message)]
        BY <1>0, <1>4, <2>1, <2>2, AppendIsTyped DEF EndStream, TypeOK
    <2>4. request' \in [Requests -> Request] /\ WholeRequests'
        BY <1>0, <1>4, <1>b, <2>1, OneRequestMoves DEF EndStream, Goto
    <2> QED
        BY <1>0, <1>4, <2>3, <2>4, ThreadsUnchanged DEF EndStream, ChatInv, ThreadInv, TypeOK
<1>5. CASE TouchThread(r)
    <2>1. q.id \in Threads /\ q.row \in Thread
        BY <1>5, <1>a DEF TouchThread, At
    <2>2. threads' \in [Threads -> Thread] /\ OneActiveThread'
        BY <1>0, <1>5, <2>1, UpdateKeepsIndex DEF TouchThread, TypeOK
    <2>3. request' \in [Requests -> Request] /\ WholeRequests'
        BY <1>0, <1>5, IdleIsWhole, OneRequestMoves DEF TouchThread, Answer
    <2> QED
        BY <1>0, <1>5, <2>2, <2>3 DEF TouchThread, ChatInv, ThreadInv, TypeOK
<1> QED
    BY <1>1, <1>2, <1>3, <1>4, <1>5 DEF TurnStep

LEMMA ResetKeeps ==
    ASSUME ChatInv, NEW r \in Requests, ResetStep(r)
    PROVE  ChatInv'
<1> DEFINE q == request[r]
<1>0. /\ TypeOK /\ OneActiveThread /\ WholeRequests
      /\ q \in Request /\ Whole(q) /\ request \in [Requests -> Request]
      /\ q.op \in {"none", "create", "turn", "reset", "finish"}
    BY InvGives
<1>a. ASSUME q.at \in {"close", "link"}
      PROVE  q.op = "reset" /\ q.id \in Threads /\ q.row \in Thread
    BY <1>0, <1>a, PointTells DEF Whole, Request
<1>1. CASE ReadForReset(r)
    BY <1>1, ReadKeeps DEF ReadForReset
<1>2. CASE CloseThread(r)
    <2> DEFINE closed == [q.row EXCEPT !.status = "closed"]
               next == [q EXCEPT !.row = closed, !.at = "find"]
    <2>1. q.op = "reset" /\ q.id \in Threads /\ closed \in Thread /\ closed.status = "closed"
        BY <1>2, <1>a DEF CloseThread, At, Thread, ThreadStatus
    <2>2. threads' \in [Threads -> Thread] /\ OneActiveThread'
        BY <1>0, <1>2, <2>1, UpdateKeepsIndex DEF CloseThread, TypeOK
    <2>3. next \in Request /\ Whole(next)
        BY <1>0, <2>1 DEF Request, Whole, PointsOf, Points
    <2>4. request' = [request EXCEPT ![r] = next]
        BY <1>0, <1>2 DEF CloseThread
    <2>5. request' \in [Requests -> Request] /\ WholeRequests'
        BY <1>0, <2>3, <2>4, OneRequestMoves
    <2> QED
        BY <1>0, <1>2, <2>2, <2>5 DEF CloseThread, ChatInv, ThreadInv, TypeOK
<1>3. CASE LinkSuccessor(r)
    <2> DEFINE linked == [q.row EXCEPT !.successor = q.next]
    <2>1. q.id \in Threads /\ linked \in Thread
        BY <1>0, <1>3, <1>a DEF LinkSuccessor, At, Thread, ThreadStatus, Request
    <2>2. threads' \in [Threads -> Thread] /\ OneActiveThread'
        BY <1>0, <1>3, <2>1, UpdateKeepsIndex DEF LinkSuccessor, TypeOK
    <2>3. request' \in [Requests -> Request] /\ WholeRequests'
        BY <1>0, <1>3, IdleIsWhole, OneRequestMoves DEF LinkSuccessor, Answer
    <2> QED
        BY <1>0, <1>3, <2>2, <2>3 DEF LinkSuccessor, ChatInv, ThreadInv, TypeOK
<1> QED
    BY <1>1, <1>2, <1>3 DEF ResetStep

LEMMA FinishKeeps ==
    ASSUME ChatInv, NEW r \in Requests, FinishStep(r)
    PROVE  ChatInv'
<1> DEFINE q == request[r]
           finishing == {"assess", "complete", "settle", "events", "record", "refresh", "status"}
<1>0. /\ TypeOK /\ OneActiveThread /\ WholeRequests
      /\ q \in Request /\ Whole(q) /\ request \in [Requests -> Request]
      /\ q.op \in {"none", "create", "turn", "reset", "finish"}
      /\ reads \in 0..MaxReads
    BY InvGives
<1>a. ASSUME q.at \in finishing
      PROVE  q.op = "finish" /\ q.id \in Threads /\ q.row \in Thread /\ q.client = None
    BY <1>0, <1>a, PointTells DEF Whole, Request, PointsOf
<1>b. ASSUME NEW point \in finishing, q.at \in finishing
      PROVE  [q EXCEPT !.at = point] \in Request /\ Whole([q EXCEPT !.at = point])
    BY <1>0, <1>a, <1>b DEF Request, Whole, PointsOf, Points
<1>c. ASSUME NEW point \in finishing, NEW saved \in BOOLEAN, q.at \in finishing
      PROVE  /\ [q EXCEPT !.at = point, !.saved = saved] \in Request
             /\ Whole([q EXCEPT !.at = point, !.saved = saved])
    BY ZenonT(60), <1>0, <1>a, <1>c DEF Request, Whole, PointsOf, Points
<1>1. CASE ReadForFinish(r)
    BY <1>1, ReadKeeps DEF ReadForFinish
<1>2. CASE Assess(r)
    <2>1. q.at \in finishing
        BY <1>2 DEF Assess, At
    <2> QED
        BY <1>0, <1>2, <1>b, <2>1, IdleIsWhole, QuietStep DEF Assess, Goto, Answer
<1>3. CASE CompleteThread(r)
    <2> DEFINE completed == [q.row EXCEPT !.status = "completed"]
               next == [q EXCEPT !.row = completed, !.at = "settle"]
    <2>1. q.at \in finishing /\ q.id \in Threads /\ completed \in Thread
        BY <1>3, <1>a DEF CompleteThread, At, Thread, ThreadStatus
    <2>2. threads' \in [Threads -> Thread] /\ OneActiveThread'
        BY <1>0, <1>3, <2>1, UpdateKeepsIndex DEF CompleteThread, TypeOK
    <2>3. next \in Request /\ Whole(next)
        BY <1>0, <1>a, <2>1 DEF Request, Whole, PointsOf, Points
    <2>4. request' = [request EXCEPT ![r] = next]
        BY <1>0, <1>3 DEF CompleteThread
    <2>5. request' \in [Requests -> Request] /\ WholeRequests'
        BY <1>0, <2>3, <2>4, OneRequestMoves
    <2> QED
        BY <1>0, <1>3, <2>2, <2>5 DEF CompleteThread, ChatInv, ThreadInv, TypeOK
<1>4. CASE CompleteSession(r)
    <2>1. q.at \in finishing /\ q.id \in Threads
        BY <1>4, <1>a DEF CompleteSession, At
    <2>2. CASE session' = [session EXCEPT !.completed = TRUE] /\ Goto(r, "events")
               /\ Begin(r, "events", q.id, None)
        <3>1. session' \in [completed : BOOLEAN, memory : MemoryStatus]
            BY <1>0, <2>2 DEF TypeOK
        <3>2. request' = [request EXCEPT ![r] = [q EXCEPT !.at = "events"]]
            BY <1>0, <2>2 DEF Goto
        <3>4. request' \in [Requests -> Request] /\ WholeRequests'
            BY <1>0, <1>b, <2>1, <3>2, OneRequestMoves
        <3>3. unseen' \in SUBSET [at : {"reply", "events"}, id : Threads, client : Clients \union {None}]
            BY <1>0, <2>1, <2>2, BeginMarks, WorkIs DEF TypeOK
        <3> QED
            BY <1>0, <1>4, <3>1, <3>4, <3>3, ThreadsUnchanged
            DEF CompleteSession, ChatInv, ThreadInv, TypeOK
    <2>3. CASE Answer(r) /\ UNCHANGED <<session, unseen>>
        BY <1>0, <1>4, <2>3, IdleIsWhole, QuietStep DEF CompleteSession, Answer
    <2> QED
        BY <1>4, <2>2, <2>3 DEF CompleteSession
<1>5. CASE LookForEvent(r)
    <2>1. q.at \in finishing /\ q.id \in Threads
        BY <1>5, <1>a DEF LookForEvent, At
    <2>2. \/ request' = [request EXCEPT ![r] = [q EXCEPT !.at = "refresh", !.saved = TRUE]]
          \/ request' = [request EXCEPT ![r] = [q EXCEPT !.at = "record"]]
        BY <1>0, <1>5 DEF LookForEvent, Goto
    <2>3. request' \in [Requests -> Request] /\ WholeRequests'
        BY <1>0, <1>b, <1>c, <2>1, <2>2, OneRequestMoves
    <2>4. unseen' \in SUBSET [at : {"reply", "events"}, id : Threads, client : Clients \union {None}]
        BY <1>0, <1>5, <2>1, WorkIs DEF LookForEvent, Miss, TypeOK
    <2> QED
        BY <1>0, <1>5, <2>3, <2>4, ThreadsUnchanged DEF LookForEvent, ChatInv, ThreadInv, TypeOK
<1>6. CASE RecordInterview(r)
    <2>1. q.at \in finishing /\ q.id \in Threads
        BY <1>6, <1>a DEF RecordInterview, At
    <2>2. \/ request' = [request EXCEPT ![r] = [q EXCEPT !.at = "refresh", !.saved = TRUE]]
          \/ request' = [request EXCEPT ![r] = [q EXCEPT !.at = "refresh"]]
        BY <1>0, <1>6 DEF RecordInterview, Goto
    <2>3. request' \in [Requests -> Request] /\ WholeRequests'
        BY <1>0, <1>b, <1>c, <2>1, <2>2, OneRequestMoves
    <2>4. memory' \in [recorded : [Threads -> Nat], kept : Threads \union {None},
                       processed : SUBSET Threads]
        <3>1. memory \in [recorded : [Threads -> Nat], kept : Threads \union {None},
                         processed : SUBSET Threads]
            BY <1>0 DEF TypeOK
        <3>2. ASSUME NEW k \in {q.id} \union ({memory.kept} \ {None}),
                     memory' = [memory EXCEPT !.recorded[q.id] = @ + 1, !.kept = k]
              PROVE  /\ memory' = [memory EXCEPT
                            !.recorded = [memory.recorded EXCEPT ![q.id] = memory.recorded[q.id] + 1],
                            !.kept = k]
                     /\ [memory.recorded EXCEPT ![q.id] = @ + 1] \in [Threads -> Nat]
                     /\ k \in Threads \union {None}
            BY <2>1, <3>1, <3>2
        <3> QED
            BY <1>6, <3>1, <3>2 DEF RecordInterview
    <2> QED
        BY <1>0, <1>6, <2>3, <2>4, ThreadsUnchanged DEF RecordInterview, ChatInv, ThreadInv, TypeOK
<1>7. CASE Refresh(r)
    <2>1. q.at \in finishing /\ q.id \in Threads
        BY <1>7, <1>a DEF Refresh, At
    <2>6. RefreshOutcomes(q.id) \union {Outcome("failed", {})}
              \subseteq [status : {"synced", "failed"}, marked : SUBSET Threads]
        BY <2>1 DEF RefreshOutcomes, Outcome
    <2>2. PICK outcome \in [status : {"synced", "failed"}, marked : SUBSET Threads] :
              /\ memory' = [memory EXCEPT !.processed = @ \union outcome.marked]
              /\ request' = [request EXCEPT ![r].at = "status", ![r].saved = outcome.status = "synced"]
        BY <1>7, <2>6 DEF Refresh
    <2>3. request' = [request EXCEPT ![r] = [q EXCEPT !.at = "status", !.saved = (outcome.status = "synced")]]
        BY <1>0, <2>2
    <2>4. request' \in [Requests -> Request] /\ WholeRequests'
        BY <1>0, <1>c, <2>1, <2>3, OneRequestMoves
    <2>5. memory' \in [recorded : [Threads -> Nat], kept : Threads \union {None},
                       processed : SUBSET Threads]
        BY <1>0, <2>2 DEF TypeOK
    <2> QED
        BY <1>0, <1>7, <2>4, <2>5, ThreadsUnchanged DEF Refresh, ChatInv, ThreadInv, TypeOK
<1>8. CASE SetStatus(r)
    <2>1. request' \in [Requests -> Request] /\ WholeRequests'
        BY <1>0, <1>8, IdleIsWhole, OneRequestMoves DEF SetStatus, Answer
    <2>2. session' \in [completed : BOOLEAN, memory : MemoryStatus]
        BY <1>0, <1>8 DEF SetStatus, TypeOK, MemoryStatus
    <2> QED
        BY <1>0, <1>8, <2>1, <2>2, ThreadsUnchanged DEF SetStatus, ChatInv, ThreadInv, TypeOK
<1> QED
    BY <1>1, <1>2, <1>3, <1>4, <1>5, <1>6, <1>7, <1>8 DEF FinishStep

LEMMA NextKeepsChatInv == ChatInv /\ [Next]_chatVars => ChatInv'
<1> SUFFICES ASSUME ChatInv, [Next]_chatVars PROVE ChatInv'
    OBVIOUS
<1>1. ASSUME NEW r \in Requests, Abandon(r)
      PROVE  ChatInv'
    BY <1>1, InvGives, IdleIsWhole, QuietStep DEF Abandon, Answer
<1>2. CASE UNCHANGED chatVars
    BY <1>2 DEF chatVars, ChatInv, ThreadInv, TypeOK, OneActiveThread, ActiveThreads, WholeRequests
<1> QED
    BY <1>1, <1>2, CreateKeeps, TurnKeeps, ResetKeeps, FinishKeeps DEF Next

THEOREM ChatInvariant == Spec => []ChatInv
    BY InitChatInv, NextKeepsChatInv, PTL DEF Spec

(***************************************************************************)
(* The rows are well typed and a session has one active thread at a time,  *)
(* however late a turn, a reset or a finish writes back the row that it    *)
(* has read.                                                               *)
(***************************************************************************)
THEOREM ThreadsAreSound == Spec => []ThreadInv
    BY ChatInvariant, PTL DEF ChatInv

-----------------------------------------------------------------------------
(* A turn that is sent again is answered once.                             *)

Answering == {"reply", "stream"}

\* The requests that may answer the message c of the thread t.
Answers(q, t, c) == q.at \in Answering /\ q.id = t /\ q.client = c

CompleteAt(t, c, i) == i \in Replies(t, c) /\ messages[t][i].status = "complete"

(***************************************************************************)
(* Unless it was not seen: one request at a time looks for a reply and     *)
(* streams one; who streams has found no complete reply; and nothing is    *)
(* appended after a complete reply.                                        *)
(***************************************************************************)
AnswerInv ==
    \A t \in Threads, c \in Clients :
        Work("reply", t, c) \notin unseen =>
            /\ \A r, s \in Requests :
                   Answers(request[r], t, c) /\ Answers(request[s], t, c) => r = s
            /\ \A r \in Requests :
                   Answers(request[r], t, c) /\ request[r].at = "stream" =>
                       \A i \in Replies(t, c) : ~CompleteAt(t, c, i)
            /\ \A i, j \in Replies(t, c) : CompleteAt(t, c, i) => j <= i

\* A step that appends no reply and begins to answer nothing.
LEMMA BystanderAnswers ==
    ASSUME TypeOK, AnswerInv, unseen \subseteq unseen',
           \A t \in Threads, c \in Clients :
               /\ Replies(t, c)' = Replies(t, c)
               /\ \A i \in Replies(t, c) : messages'[t][i] = messages[t][i],
           \A r \in Requests :
               request'[r].at \in Answering =>
                   /\ request[r].at = request'[r].at
                   /\ request[r].id = request'[r].id
                   /\ request[r].client = request'[r].client
    PROVE  AnswerInv'
<1> SUFFICES ASSUME NEW t \in Threads, NEW c \in Clients, Work("reply", t, c) \notin unseen'
             PROVE  /\ \A r, s \in Requests :
                           Answers(request'[r], t, c) /\ Answers(request'[s], t, c) => r = s
                    /\ \A r \in Requests :
                           Answers(request'[r], t, c) /\ request'[r].at = "stream" =>
                               \A i \in Replies(t, c)' : ~CompleteAt(t, c, i)'
                    /\ \A i, j \in Replies(t, c)' : CompleteAt(t, c, i)' => j <= i
    BY DEF AnswerInv
<1>1. Work("reply", t, c) \notin unseen
    OBVIOUS
<1>2. \A r \in Requests : Answers(request'[r], t, c) => Answers(request[r], t, c)
    BY DEF Answers
<1>3. \A i \in Replies(t, c) : CompleteAt(t, c, i)' <=> CompleteAt(t, c, i)
    BY DEF CompleteAt
<1> QED
    BY <1>1, <1>2, <1>3 DEF AnswerInv, Answers

\* A message that answers none of the learner's leaves the replies as they are.
LEMMA AppendOther ==
    ASSUME TypeOK, NEW u \in Threads, NEW m \in Message, m.role = "user" \/ m.client = None,
           AppendMessage(u, m), NEW t \in Threads, NEW c \in Clients
    PROVE  /\ Replies(t, c)' = Replies(t, c)
           /\ \A i \in Replies(t, c) : messages'[t][i] = messages[t][i]
<1>1. messages \in [Threads -> Seq(Message)]
    BY DEF TypeOK
<1>2. CASE messages' = messages
    BY <1>2 DEF Replies
<1>3. CASE messages' = [messages EXCEPT ![u] = Append(messages[u], m)] /\ t # u
    <2>1. messages'[t] = messages[t]
        BY <1>1, <1>3
    <2> QED
        BY <2>1 DEF Replies
<1>4. CASE messages' = [messages EXCEPT ![u] = Append(messages[u], m)] /\ t = u
    <2> DEFINE n == Len(messages[t])
    <2>1. messages[t] \in Seq(Message) /\ messages'[t] = Append(messages[t], m) /\ n \in Nat
        BY <1>1, <1>4
    <2>2. /\ DOMAIN messages[t] = 1..n /\ DOMAIN messages'[t] = 1..(n + 1)
          /\ messages'[t][n + 1] = m
          /\ \A i \in 1..n : messages'[t][i] = messages[t][i]
        BY <2>1
    <2>3. ~(m.role = "assistant" /\ m.client = c)
        OBVIOUS
    <2>4. \A i \in 1..(n + 1) : i \in 1..n \/ i = n + 1
        BY <2>1
    <2>5. 1..n \subseteq 1..(n + 1)
        BY <2>1
    <2> HIDE DEF n
    <2> QED
        BY <2>2, <2>3, <2>4, <2>5 DEF Replies
<1> QED
    BY <1>2, <1>3, <1>4 DEF AppendMessage

\* A reply comes after all others, and only its own message gets another.
LEMMA AppendReply ==
    ASSUME TypeOK, NEW u \in Threads, NEW d \in Clients, NEW status \in {"complete", "interrupted"},
           AppendMessage(u, Reply(d, status)), NEW t \in Threads, NEW c \in Clients
    PROVE  /\ \A i \in Replies(t, c) : i \in Nat /\ messages'[t][i] = messages[t][i]
           /\ <<t, c>> # <<u, d>> => Replies(t, c)' = Replies(t, c)
           /\ <<t, c>> = <<u, d>> =>
                  \E n \in Nat : /\ Replies(t, c)' = Replies(t, c) \union {n}
                                 /\ \A i \in Replies(t, c) : i < n
<1> DEFINE m == Reply(d, status)
           n == Len(messages[t])
<1>1. messages \in [Threads -> Seq(Message)] /\ messages[t] \in Seq(Message) /\ n \in Nat
    BY DEF TypeOK
<1>2. messages' = [messages EXCEPT ![u] = Append(messages[u], m)]
    BY DEF AppendMessage, Reply
<1>3. m.role = "assistant" /\ m.client = d
    BY DEF Reply
<1>4. DOMAIN messages[t] = 1..n
    BY <1>1
<1>5. CASE t # u
    <2>1. messages'[t] = messages[t]
        BY <1>1, <1>2, <1>5
    <2> QED
        BY <1>1, <1>4, <1>5, <2>1 DEF Replies
<1>6. CASE t = u
    <2>1. messages'[t] = Append(messages[t], m)
        BY <1>1, <1>2, <1>6
    <2>2. /\ DOMAIN messages'[t] = 1..(n + 1)
          /\ messages'[t][n + 1] = m
          /\ \A i \in 1..n : messages'[t][i] = messages[t][i]
        BY <1>1, <2>1
    <2>3. /\ 1..(n + 1) = (1..n) \union {n + 1}
          /\ \A i \in 1..n : i < n + 1 /\ i \in Nat
          /\ n + 1 \in Nat
        BY <1>1
    <2> HIDE DEF n, m
    <2>4. \A i \in Replies(t, c) : i \in 1..n
        BY <1>4 DEF Replies
    <2>5. c = d => Replies(t, c)' = Replies(t, c) \union {n + 1}
        BY <1>3, <1>4, <2>2, <2>3 DEF Replies
    <2>6. c # d => Replies(t, c)' = Replies(t, c)
        BY <1>3, <1>4, <2>2, <2>3 DEF Replies
    <2> QED
        BY <1>6, <2>2, <2>3, <2>4, <2>5, <2>6
<1> QED
    BY <1>5, <1>6

\* A step of r that appends nothing and does not take r to an answer.
LEMMA NoAnswerHere ==
    ASSUME TypeOK, AnswerInv, NEW r \in Requests, unseen \subseteq unseen', messages' = messages,
           \A s \in Requests \ {r} : request'[s] = request[s],
           request'[r].at \notin Answering
    PROVE  AnswerInv'
<1>1. \A t \in Threads, c \in Clients :
          /\ Replies(t, c)' = Replies(t, c)
          /\ \A i \in Replies(t, c) : messages'[t][i] = messages[t][i]
    BY DEF Replies
<1>2. \A s \in Requests :
          request'[s].at \in Answering =>
              /\ request[s].at = request'[s].at
              /\ request[s].id = request'[s].id
              /\ request[s].client = request'[s].client
    OBVIOUS
<1> QED
    BY <1>1, <1>2, BystanderAnswers

LEMMA CreateAnswers ==
    ASSUME ChatInv, AnswerInv, NEW r \in Requests, CreateStep(r)
    PROVE  AnswerInv'
<1>0. TypeOK /\ request \in [Requests -> Request] /\ Whole(request[r])
    BY InvGives
<1> DEFINE aside ==
        (\A s \in Requests \ {r} : request'[s] = request[s]) /\ request'[r].at \notin Answering
<1>1. ASSUME NEW t, Answered(r, t)
      PROVE  aside
    BY <1>0, <1>1 DEF Answered, Idle, Answering, Request
<1>2. CASE Create(r)
    BY <1>0, <1>2, NoAnswerHere DEF Create, Idle, Answering
<1>3. CASE FindActive(r)
    <2>1. aside
        BY <1>0, <1>3 DEF FindActive, Goto, Answering, Request
    <2> QED
        BY <1>0, <1>3, <2>1, NoAnswerHere DEF FindActive
<1>4. CASE LookAtMessages(r)
    <2>1. aside
        BY <1>0, <1>1, <1>4 DEF LookAtMessages, Goto, Answering, Request
    <2> QED
        BY <1>0, <1>4, <2>1, NoAnswerHere DEF LookAtMessages
<1>5. CASE InsertThread(r)
    <2>1. aside
        BY <1>0, <1>1, <1>5 DEF InsertThread, Answering, Request
    <2> QED
        BY <1>0, <1>5, <2>1, NoAnswerHere DEF InsertThread
<1>6. CASE GenerateOpening(r)
    <2> DEFINE u == request[r].next
    <2>1. u \in Threads
        BY <1>0, <1>6 DEF GenerateOpening, At, Whole
    <2>2. CASE AppendMessage(u, Reply(None, "complete")) /\ Answered(r, u)
        <3>1. Reply(None, "complete") \in Message /\ Reply(None, "complete").client = None
            BY DEF Reply, Message
        <3>2. \A t \in Threads, c \in Clients :
                  /\ Replies(t, c)' = Replies(t, c)
                  /\ \A i \in Replies(t, c) : messages'[t][i] = messages[t][i]
            BY <1>0, <2>1, <2>2, <3>1, AppendOther
        <3>3. \A s \in Requests : request'[s].at \in Answering => request'[s] = request[s]
            BY <1>1, <2>2
        <3>4. unseen' = unseen
            BY <1>6 DEF GenerateOpening
        <3> HIDE DEF u
        <3> QED
            BY <1>0, <3>2, <3>3, <3>4, BystanderAnswers
    <2>3. CASE Answer(r) /\ UNCHANGED messages
        BY <1>0, <1>6, <2>3, NoAnswerHere DEF GenerateOpening, Answer, Idle, Answering
    <2> QED
        BY <1>6, <2>2, <2>3 DEF GenerateOpening
<1> QED
    BY <1>2, <1>3, <1>4, <1>5, <1>6 DEF CreateStep

LEMMA TurnAnswers ==
    ASSUME ChatInv, AnswerInv, NEW r \in Requests, TurnStep(r)
    PROVE  AnswerInv'
<1> DEFINE q == request[r]
           w == Work("reply", q.id, q.client)
<1>0. TypeOK /\ request \in [Requests -> Request] /\ Whole(q) /\ q \in Request
      /\ q.op \in {"none", "create", "turn", "reset", "finish"}
    BY InvGives
<1>a. ASSUME q.at \in {"append", "reply", "stream", "touch"}
      PROVE  q.id \in Threads /\ q.client \in Clients
    BY <1>0, <1>a, PointTells DEF Whole
<1>b. \A t \in Threads, c \in Clients : Work("reply", t, c) = w => t = q.id /\ c = q.client
    BY WorkIs
<1>1. CASE ReadForTurn(r)
    BY <1>0, <1>1, NoAnswerHere DEF ReadForTurn, Read, Idle, Answering
<1>2. CASE AppendTurn(r)
    <2>1. q.id \in Threads /\ q.client \in Clients
        BY <1>2, <1>a DEF AppendTurn, At
    <2>2. UserMessage(q.client) \in Message /\ UserMessage(q.client).role = "user"
        BY <2>1 DEF UserMessage, Message
    <2>3. \A t \in Threads, c \in Clients :
              /\ Replies(t, c)' = Replies(t, c)
              /\ \A i \in Replies(t, c) : messages'[t][i] = messages[t][i]
        BY <1>0, <1>2, <2>1, <2>2, AppendOther DEF AppendTurn
    <2>4. /\ request' = [request EXCEPT ![r] = [q EXCEPT !.at = "reply"]]
          /\ Begin(r, "reply", q.id, q.client)
        BY <1>0, <1>2 DEF AppendTurn, Goto
    <2>5. /\ unseen \subseteq unseen'
          /\ \A s \in Requests \ {r} : Answers(request[s], q.id, q.client) => w \in unseen'
        BY <2>4, BeginMarks, WorkIs DEF Answers, Answering, Stages
    <2>6. /\ request'[r] = [q EXCEPT !.at = "reply"]
          /\ \A s \in Requests \ {r} : request'[s] = request[s]
        BY <1>0, <2>4
    <2>7. request'[r].at = "reply" /\ request'[r].id = q.id /\ request'[r].client = q.client
        BY <1>0, <2>6 DEF Request
    <2> SUFFICES ASSUME NEW t \in Threads, NEW c \in Clients, Work("reply", t, c) \notin unseen'
                 PROVE  /\ \A r1, s \in Requests :
                               Answers(request'[r1], t, c) /\ Answers(request'[s], t, c) => r1 = s
                        /\ \A r1 \in Requests :
                               Answers(request'[r1], t, c) /\ request'[r1].at = "stream" =>
                                   \A i \in Replies(t, c)' : ~CompleteAt(t, c, i)'
                        /\ \A i, j \in Replies(t, c)' : CompleteAt(t, c, i)' => j <= i
        BY DEF AnswerInv
    <2>8. Work("reply", t, c) \notin unseen
        BY <2>5
    <2>9. \A s \in Requests \ {r} :
              Answers(request'[s], t, c) <=> Answers(request[s], t, c)
        BY <2>6
    <2>10. Answers(request'[r], t, c) => \A s \in Requests \ {r} : ~Answers(request[s], t, c)
        BY <2>5, <2>7 DEF Answers
    <2>11. \A i \in Replies(t, c) : CompleteAt(t, c, i)' <=> CompleteAt(t, c, i)
        BY <2>3 DEF CompleteAt
    <2> HIDE DEF q, w
    <2>12. \A r1, s \in Requests : Answers(request'[r1], t, c) /\ Answers(request'[s], t, c) => r1 = s
        BY <2>8, <2>9, <2>10 DEF AnswerInv
    <2> QED
        BY ZenonT(60), <2>3, <2>6, <2>7, <2>8, <2>9, <2>11, <2>12 DEF AnswerInv
<1>3. CASE FindReply(r)
    <2>0. q.id \in Threads /\ q.client \in Clients /\ q.at = "reply"
        BY <1>3, <1>a DEF FindReply, At
    <2>1. CASE Answer(r) /\ unseen' = unseen
        BY <1>0, <1>3, <2>1, NoAnswerHere DEF FindReply, Answer, Idle, Answering
    <2>2. CASE /\ Goto(r, "stream")
               /\ \/ ~CompleteReply(q.id, q.client) /\ unseen' = unseen
                  \/ Miss("reply", q.id, q.client)
        <3>1. unseen \subseteq unseen' /\ (w \notin unseen' => ~CompleteReply(q.id, q.client))
            BY <2>2 DEF Miss
        <3>2. /\ request'[r].at = "stream" /\ request'[r].id = q.id /\ request'[r].client = q.client
              /\ \A s \in Requests \ {r} : request'[s] = request[s]
            BY <1>0, <2>2 DEF Goto, Request
        <3>3. \A t \in Threads, c \in Clients :
                  /\ Replies(t, c)' = Replies(t, c)
                  /\ \A i : CompleteAt(t, c, i)' <=> CompleteAt(t, c, i)
            BY <1>3 DEF FindReply, Replies, CompleteAt
        <3> SUFFICES ASSUME NEW t \in Threads, NEW c \in Clients, Work("reply", t, c) \notin unseen'
                     PROVE  /\ \A r1, s \in Requests :
                                   Answers(request'[r1], t, c) /\ Answers(request'[s], t, c) => r1 = s
                            /\ \A r1 \in Requests :
                                   Answers(request'[r1], t, c) /\ request'[r1].at = "stream" =>
                                       \A i \in Replies(t, c)' : ~CompleteAt(t, c, i)'
                            /\ \A i, j \in Replies(t, c)' : CompleteAt(t, c, i)' => j <= i
            BY DEF AnswerInv
        <3>4. Work("reply", t, c) \notin unseen
            BY <3>1
        <3>5. \A s \in Requests : Answers(request'[s], t, c) <=> Answers(request[s], t, c)
            BY <2>0, <3>2 DEF Answers, Answering
        <3>6. /\ \A r1, s \in Requests : Answers(request[r1], t, c) /\ Answers(request[s], t, c) => r1 = s
              /\ \A r1 \in Requests :
                     Answers(request[r1], t, c) /\ request[r1].at = "stream" =>
                         \A i \in Replies(t, c) : ~CompleteAt(t, c, i)
              /\ \A i, j \in Replies(t, c) : CompleteAt(t, c, i) => j <= i
            BY <3>4 DEF AnswerInv
        <3>7. ASSUME Answers(request'[r], t, c), NEW i \in Replies(t, c), CompleteAt(t, c, i)
              PROVE  FALSE
            <4>1. t = q.id /\ c = q.client
                BY <3>2, <3>7 DEF Answers
            <4>2. ~CompleteReply(t, c)
                BY <3>1, <4>1
            <4> QED
                BY <3>6, <3>7, <4>2 DEF CompleteReply, CompleteAt
        <3> HIDE DEF q, w
        <3> QED
            BY <3>2, <3>3, <3>5, <3>6, <3>7
    <2> QED
        BY <1>3, <2>1, <2>2 DEF FindReply
<1>4. CASE EndStream(r)
    <2>0. q.id \in Threads /\ q.client \in Clients /\ q.at = "stream"
        BY <1>4, <1>a DEF EndStream, At
    <2>1. /\ request'[r].at = "touch"
          /\ \A s \in Requests \ {r} : request'[s] = request[s]
          /\ unseen' = unseen
        BY <1>0, <1>4 DEF EndStream, Goto, Request
    <2>2. CASE messages' = messages
        BY <1>0, <2>1, <2>2, NoAnswerHere DEF Answering
    <2>3. ASSUME NEW status \in {"complete", "interrupted"},
                 AppendMessage(q.id, Reply(q.client, status))
          PROVE  AnswerInv'
        <3> SUFFICES ASSUME NEW t \in Threads, NEW c \in Clients, Work("reply", t, c) \notin unseen'
                     PROVE  /\ \A r1, s \in Requests :
                                   Answers(request'[r1], t, c) /\ Answers(request'[s], t, c) => r1 = s
                            /\ \A r1 \in Requests :
                                   Answers(request'[r1], t, c) /\ request'[r1].at = "stream" =>
                                       \A i \in Replies(t, c)' : ~CompleteAt(t, c, i)'
                            /\ \A i, j \in Replies(t, c)' : CompleteAt(t, c, i)' => j <= i
            BY DEF AnswerInv
        <3>1. /\ \A r1, s \in Requests : Answers(request[r1], t, c) /\ Answers(request[s], t, c) => r1 = s
              /\ \A r1 \in Requests :
                     Answers(request[r1], t, c) /\ request[r1].at = "stream" =>
                         \A i \in Replies(t, c) : ~CompleteAt(t, c, i)
              /\ \A i, j \in Replies(t, c) : CompleteAt(t, c, i) => j <= i
            BY <2>1 DEF AnswerInv
        <3>2. \A s \in Requests : Answers(request'[s], t, c) => s # r /\ Answers(request[s], t, c)
            BY <2>1 DEF Answers, Answering
        <3>3. \A i \in Replies(t, c) : i \in Nat /\ messages'[t][i] = messages[t][i]
            BY <1>0, <2>0, <2>3, AppendReply
        <3>4. CASE <<t, c>> # <<q.id, q.client>>
            <4>1. Replies(t, c)' = Replies(t, c)
                BY <1>0, <2>0, <2>3, <3>4, AppendReply
            <4>2. \A i \in Replies(t, c) : CompleteAt(t, c, i)' <=> CompleteAt(t, c, i)
                BY <3>3, <4>1 DEF CompleteAt
            <4> HIDE DEF q, w
            <4> QED
                BY <2>1, <3>1, <3>2, <4>1, <4>2
        <3>5. CASE <<t, c>> = <<q.id, q.client>>
            <4>1. PICK n \in Nat : /\ Replies(t, c)' = Replies(t, c) \union {n}
                                   /\ \A i \in Replies(t, c) : i < n
                BY <1>0, <2>0, <2>3, <3>5, AppendReply
            <4>2. Answers(request[r], t, c)
                BY <2>0, <3>5 DEF Answers, Answering
            <4>3. \A i \in Replies(t, c) : ~CompleteAt(t, c, i)'
                BY <2>0, <3>1, <3>3, <4>2 DEF CompleteAt
            <4>4. \A s \in Requests : ~Answers(request'[s], t, c)
                BY <3>1, <3>2, <4>2
            <4> HIDE DEF q, w
            <4>5. \A i, j \in Replies(t, c)' : CompleteAt(t, c, i)' => j <= i
                BY <3>3, <4>1, <4>3
            <4> QED
                BY <4>4, <4>5
        <3> QED
            BY <3>4, <3>5
    <2> QED
        BY <1>4, <2>2, <2>3 DEF EndStream
<1>5. CASE TouchThread(r)
    BY <1>0, <1>5, NoAnswerHere DEF TouchThread, Answer, Idle, Answering
<1> QED
    BY <1>1, <1>2, <1>3, <1>4, <1>5 DEF TurnStep

\* Where the steps of the other handlers take a request.
LEMMA OthersMove ==
    ASSUME ChatInv, NEW r \in Requests, ResetStep(r) \/ FinishStep(r) \/ Abandon(r)
    PROVE  /\ \A s \in Requests \ {r} : request'[s] = request[s]
           /\ request'[r].at \notin Answering \union {"touch", "append"}
           /\ messages' = messages
           /\ unseen \subseteq unseen'
<1>0. request \in [Requests -> Request]
    BY InvGives
<1>1. CASE ReadForReset(r)
    BY <1>0, <1>1 DEF ReadForReset, Read, Idle, Answering
<1>9. CASE CloseThread(r)
    BY <1>0, <1>9 DEF CloseThread, Answering, Request
<1>10. CASE LinkSuccessor(r)
    BY <1>0, <1>10 DEF LinkSuccessor, Answer, Idle, Answering
<1>2. CASE Abandon(r)
    BY <1>0, <1>2 DEF Abandon, Answer, Idle, Answering
<1>3. CASE ReadForFinish(r)
    BY <1>0, <1>3 DEF ReadForFinish, Read, Idle, Answering
<1>11. CASE Assess(r)
    BY <1>0, <1>11 DEF Assess, Goto, Answer, Idle, Answering, Request
<1>12. CASE CompleteThread(r)
    BY <1>0, <1>12 DEF CompleteThread, Answering, Request
<1>4. CASE CompleteSession(r)
    BY <1>0, <1>4, BeginMarks DEF CompleteSession, Goto, Answer, Idle, Answering, Request
<1>5. CASE LookForEvent(r)
    BY <1>0, <1>5 DEF LookForEvent, Miss, Goto, Answering, Request
<1>6. CASE RecordInterview(r)
    <2>1. \/ request' = [request EXCEPT ![r].at = "refresh", ![r].saved = TRUE]
          \/ request' = [request EXCEPT ![r].at = "refresh"]
        BY <1>6 DEF RecordInterview, Goto
    <2>2. /\ \A s \in Requests \ {r} : request'[s] = request[s]
          /\ request'[r].at = "refresh"
        BY <1>0, <2>1 DEF Request
    <2>3. messages' = messages /\ unseen' = unseen
        BY <1>6 DEF RecordInterview
    <2> QED
        BY <2>2, <2>3 DEF Answering
<1>7. CASE Refresh(r)
    BY <1>0, <1>7 DEF Refresh, Answering, Request
<1>8. CASE SetStatus(r)
    BY <1>0, <1>8 DEF SetStatus, Answer, Idle, Answering
<1> QED
    BY <1>1, <1>2, <1>3, <1>4, <1>5, <1>6, <1>7, <1>8, <1>9, <1>10, <1>11, <1>12
    DEF ResetStep, FinishStep

LEMMA NextKeepsAnswerInv == ChatInv /\ AnswerInv /\ [Next]_chatVars => AnswerInv'
<1> SUFFICES ASSUME ChatInv, AnswerInv, [Next]_chatVars PROVE AnswerInv'
    OBVIOUS
<1>1. ASSUME NEW r \in Requests, ResetStep(r) \/ FinishStep(r) \/ Abandon(r)
      PROVE  AnswerInv'
    BY <1>1, OthersMove, InvGives, NoAnswerHere
<1>2. CASE UNCHANGED chatVars
    BY <1>2 DEF chatVars, AnswerInv, Answers, CompleteAt, Replies
<1> QED
    BY <1>1, <1>2, CreateAnswers, TurnAnswers DEF Next

LEMMA AnsweredOnceHolds == ChatInv /\ AnswerInv => AnsweredOnce
<1> SUFFICES ASSUME ChatInv, AnswerInv, NEW t \in Threads, NEW c \in Clients,
                    Work("reply", t, c) \notin unseen
             PROVE  ~(Cardinality({i \in Replies(t, c) : messages[t][i].status = "complete"}) > 1)
    BY DEF AnsweredOnce
<1> DEFINE done == {i \in Replies(t, c) : messages[t][i].status = "complete"}
<1>1. \A i \in done : i \in Nat
    BY DEF Replies, ChatInv, ThreadInv, TypeOK
<1>2. \A i, j \in done : j <= i
    BY DEF AnswerInv, CompleteAt
<1> HIDE DEF done
<1>3. Cardinality(done) \in {0, 1}
    <2>1. CASE done = {}
        BY <2>1, FS_EmptySet
    <2>2. ASSUME NEW x \in done
          PROVE  Cardinality(done) = 1
        <3>1. \A y \in done : y = x
            BY <1>1, <1>2
        <3>2. done = {x}
            BY <3>1
        <3> QED
            BY <3>2, FS_Singleton
    <2> QED
        BY <2>1, <2>2
<1>4. ~(Cardinality(done) > 1)
    BY <1>3
<1> QED
    BY <1>4 DEF done

-----------------------------------------------------------------------------
(* An interview that is finished again is recorded once.                   *)

Recording == {"events", "record"}

\* The requests that may record the interview of the thread t.
Records(q, t) == q.at \in Recording /\ q.id = t

(***************************************************************************)
(* Unless it was not seen: one request at a time looks for the event and   *)
(* records it, and only while there is none.                               *)
(***************************************************************************)
Recorder(t) ==
    /\ \A r, s \in Requests : Records(request[r], t) /\ Records(request[s], t) => r = s
    /\ \A r \in Requests :
           Records(request[r], t) /\ request[r].at = "record" => memory.recorded[t] = 0
    /\ memory.recorded[t] <= 1

RecordInv == \A t \in Threads : Work("events", t, None) \notin unseen => Recorder(t)

\* A step of r that records nothing and does not take r to a recording.
LEMMA NoRecordHere ==
    ASSUME RecordInv, NEW r \in Requests, unseen \subseteq unseen',
           memory'.recorded = memory.recorded,
           \A s \in Requests \ {r} : request'[s] = request[s],
           request'[r].at \notin Recording
    PROVE  RecordInv'
<1> SUFFICES ASSUME NEW t \in Threads, Work("events", t, None) \notin unseen' PROVE Recorder(t)'
    BY DEF RecordInv
<1>1. \A s \in Requests : Records(request'[s], t) => s # r /\ Records(request[s], t)
    BY DEF Records
<1> QED
    BY <1>1 DEF RecordInv, Recorder

LEMMA OthersDoNotRecord ==
    ASSUME ChatInv, RecordInv, NEW r \in Requests,
           CreateStep(r) \/ TurnStep(r) \/ ResetStep(r) \/ Abandon(r)
    PROVE  RecordInv'
<1>0. request \in [Requests -> Request]
    BY InvGives
<1> DEFINE aside ==
        /\ \A s \in Requests \ {r} : request'[s] = request[s]
        /\ request'[r].at \notin Recording
        /\ unseen \subseteq unseen'
        /\ memory' = memory
<1>1. ASSUME NEW t, Answered(r, t)
      PROVE  (\A s \in Requests \ {r} : request'[s] = request[s]) /\ request'[r].at \notin Recording
    BY <1>0, <1>1 DEF Answered, Idle, Recording, Request
<1>2. CASE Create(r)
    <2>1. aside
        BY <1>0, <1>2 DEF Create, Idle, Recording, Request
    <2> QED
        BY <2>1, NoRecordHere
<1>8. CASE FindActive(r)
    <2>1. aside
        BY <1>0, <1>8 DEF FindActive, Goto, Recording, Request
    <2> QED
        BY <2>1, NoRecordHere
<1>9. CASE Abandon(r)
    <2>1. aside
        BY <1>0, <1>9 DEF Abandon, Answer, Idle, Recording, Request
    <2> QED
        BY <2>1, NoRecordHere
<1>3. CASE LookAtMessages(r)
    <2>1. aside
        BY <1>0, <1>1, <1>3 DEF LookAtMessages, Goto, Recording, Request
    <2> QED
        BY <2>1, NoRecordHere
<1>4. CASE InsertThread(r)
    <2>1. aside
        BY <1>0, <1>1, <1>4 DEF InsertThread, Recording, Request
    <2> QED
        BY <2>1, NoRecordHere
<1>5. CASE GenerateOpening(r)
    <2>1. aside
        BY <1>0, <1>1, <1>5 DEF GenerateOpening, Answer, Idle, Recording
    <2> QED
        BY <2>1, NoRecordHere
<1>6. CASE TurnStep(r)
    <2>1. CASE ReadForTurn(r)
        BY <1>0, <2>1, NoRecordHere DEF ReadForTurn, Read, Idle, Recording
    <2>2. CASE AppendTurn(r)
        <3>1. aside
            BY <1>0, <2>2, BeginMarks DEF AppendTurn, Goto, Recording, Request
        <3> QED
            BY <3>1, NoRecordHere
    <2>3. CASE FindReply(r)
        <3>1. aside
            BY <1>0, <2>3 DEF FindReply, Miss, Goto, Answer, Idle, Recording, Request
        <3> QED
            BY <3>1, NoRecordHere
    <2>4. CASE EndStream(r)
        <3>1. aside
            BY <1>0, <2>4 DEF EndStream, Goto, Recording, Request
        <3> QED
            BY <3>1, NoRecordHere
    <2>5. CASE TouchThread(r)
        BY <1>0, <2>5, NoRecordHere DEF TouchThread, Answer, Idle, Recording
    <2> QED
        BY <1>6, <2>1, <2>2, <2>3, <2>4, <2>5 DEF TurnStep
<1>7. CASE ResetStep(r)
    <2>1. ReadForReset(r) => aside
        BY <1>0 DEF ReadForReset, Read, Idle, Recording
    <2>2. CloseThread(r) => aside
        BY <1>0 DEF CloseThread, Recording, Request
    <2>3. LinkSuccessor(r) => aside
        BY <1>0 DEF LinkSuccessor, Answer, Idle, Recording
    <2>4. aside
        BY <1>7, <2>1, <2>2, <2>3 DEF ResetStep
    <2> QED
        BY <2>4, NoRecordHere
<1> QED
    BY <1>2, <1>3, <1>4, <1>5, <1>6, <1>7, <1>8, <1>9 DEF CreateStep

LEMMA FinishRecords ==
    ASSUME ChatInv, RecordInv, NEW r \in Requests, FinishStep(r)
    PROVE  RecordInv'
<1> DEFINE q == request[r]
           w == Work("events", q.id, None)
<1>0. TypeOK /\ request \in [Requests -> Request] /\ WholeRequests /\ Whole(q)
      /\ q.op \in {"none", "create", "turn", "reset", "finish"}
    BY InvGives
<1>a. ASSUME NEW s \in Requests, request[s].at \in PointsOf("finish")
      PROVE  request[s].id \in Threads /\ request[s].client = None
    <2>1. Whole(request[s]) /\ request[s].op \in {"none", "create", "turn", "reset", "finish"}
        BY InvGives
    <2>2. request[s].op = "finish"
        BY <1>a, <2>1, PointTells
    <2> QED
        BY <2>1, <2>2 DEF Whole
<1>b. \A t \in Threads : Work("events", t, None) = w => t = q.id
    BY WorkIs
<1>k. memory \in [recorded : [Threads -> Nat], kept : Threads \union {None},
                  processed : SUBSET Threads]
    BY <1>0 DEF TypeOK
<1>c. memory.recorded \in [Threads -> Nat]
    BY <1>k
<1>1. CASE ReadForFinish(r) \/ Assess(r) \/ CompleteThread(r) \/ SetStatus(r)
    <2> DEFINE aside == /\ \A s \in Requests \ {r} : request'[s] = request[s]
                        /\ request'[r].at \notin Recording
                        /\ unseen \subseteq unseen'
                        /\ memory' = memory
    <2>1. ReadForFinish(r) => aside
        BY <1>0 DEF ReadForFinish, Read, Idle, Recording
    <2>2. Assess(r) => aside
        BY <1>0 DEF Assess, Goto, Answer, Idle, Recording, Request
    <2>3. CompleteThread(r) => aside
        BY <1>0 DEF CompleteThread, Recording, Request
    <2>4. SetStatus(r) => aside
        BY <1>0 DEF SetStatus, Answer, Idle, Recording
    <2>5. aside
        BY <1>1, <2>1, <2>2, <2>3, <2>4
    <2> QED
        BY <2>5, NoRecordHere
<1>2. CASE Refresh(r)
    <2>1. /\ \A s \in Requests \ {r} : request'[s] = request[s]
          /\ request'[r].at \notin Recording
          /\ unseen \subseteq unseen'
        BY <1>0, <1>2 DEF Refresh, Recording, Request
    <2>2. memory'.recorded = memory.recorded
        BY <1>0, <1>2 DEF Refresh, TypeOK
    <2> QED
        BY <2>1, <2>2, NoRecordHere
<1>3. CASE CompleteSession(r)
    <2>1. CASE Answer(r) /\ unseen' = unseen
        <3>1. /\ \A s \in Requests \ {r} : request'[s] = request[s]
              /\ request'[r].at \notin Recording
            BY <1>0, <2>1 DEF Answer, Idle, Recording
        <3> QED
            BY <1>3, <2>1, <3>1, NoRecordHere DEF CompleteSession
    <2>2. CASE Goto(r, "events") /\ Begin(r, "events", q.id, None)
        <3>1. request'[r].at = "events" /\ request'[r].id = q.id
            BY <1>0, <2>2 DEF Goto, Request
        <3>2. \A s \in Requests \ {r} : request'[s] = request[s]
            BY <1>0, <2>2 DEF Goto
        <3>3. /\ unseen \subseteq unseen'
              /\ \A s \in Requests \ {r} :
                     /\ request[s].at \in Stages
                     /\ Work(request[s].at, request[s].id, request[s].client) = w
                     => w \in unseen'
            BY <2>2, BeginMarks
        <3>4. \A s \in Requests \ {r} : Records(request[s], q.id) => w \in unseen'
            <4> SUFFICES ASSUME NEW s \in Requests \ {r}, Records(request[s], q.id)
                         PROVE  w \in unseen'
                OBVIOUS
            <4>1. request[s].at \in {"events", "record"} /\ request[s].id = q.id
                BY DEF Records, Recording
            <4>2. request[s].client = None
                BY <1>a, <4>1 DEF PointsOf
            <4>3. Work(request[s].at, request[s].id, request[s].client) = w
                BY <4>1, <4>2, WorkIs
            <4>4. request[s].at \in Stages
                BY <4>1 DEF Stages
            <4> HIDE DEF q, w
            <4> QED
                BY <3>3, <4>3, <4>4
        <3>5. memory' = memory
            BY <1>3 DEF CompleteSession
        <3> SUFFICES ASSUME NEW t \in Threads, Work("events", t, None) \notin unseen'
                     PROVE  Recorder(t)'
            BY DEF RecordInv
        <3>6. Recorder(t)
            BY <3>3 DEF RecordInv
        <3>7. \A s \in Requests \ {r} : Records(request'[s], t) <=> Records(request[s], t)
            BY <3>2
        <3>8. Records(request'[r], t) => \A s \in Requests \ {r} : ~Records(request[s], t)
            BY <3>1, <3>4 DEF Records
        <3> HIDE DEF q, w
        <3> QED
            BY <3>1, <3>2, <3>5, <3>6, <3>7, <3>8 DEF Recorder
    <2> QED
        BY <1>3, <2>1, <2>2 DEF CompleteSession
<1>4. CASE LookForEvent(r)
    <2>0. q.at = "events"
        BY <1>4 DEF LookForEvent, At
    <2>1. \A s \in Requests \ {r} : request'[s] = request[s]
        BY <1>0, <1>4 DEF LookForEvent, Goto
    <2>2. /\ unseen \subseteq unseen'
          /\ request'[r].id = q.id
          /\ request'[r].at = "record" /\ w \notin unseen' => ~(memory.recorded[q.id] > 0)
          /\ request'[r].at \in {"record", "refresh"}
        BY <1>0, <1>4 DEF LookForEvent, Goto, Miss, Request
    <2>3. memory' = memory
        BY <1>4 DEF LookForEvent
    <2> SUFFICES ASSUME NEW t \in Threads, Work("events", t, None) \notin unseen'
                 PROVE  Recorder(t)'
        BY DEF RecordInv
    <2>4. Recorder(t)
        BY <2>2 DEF RecordInv
    <2>5. \A s \in Requests : Records(request'[s], t) => Records(request[s], t)
        BY <2>0, <2>1, <2>2 DEF Records, Recording
    <2>6. ASSUME Records(request'[r], t), request'[r].at = "record"
          PROVE  memory.recorded[t] = 0
        <3>1. t = q.id
            BY <2>2, <2>6 DEF Records
        <3>2. ~(memory.recorded[t] > 0) /\ memory.recorded[t] \in Nat
            BY <1>c, <2>2, <2>6, <3>1
        <3> QED
            BY <3>2
    <2> HIDE DEF q, w
    <2> QED
        BY <2>1, <2>3, <2>4, <2>5, <2>6 DEF Recorder
<1>5. CASE RecordInterview(r)
    <2>0. q.at = "record" /\ q.id \in Threads
        BY <1>5, <1>a DEF RecordInterview, At, PointsOf
    <2>1. request'[r].at = "refresh"
        BY <1>0, <1>5 DEF RecordInterview, Goto, Request
    <2>2. \A s \in Requests \ {r} : request'[s] = request[s]
        BY <1>0, <1>5 DEF RecordInterview, Goto
    <2>3. unseen' = unseen
        BY <1>5 DEF RecordInterview
    <2>4. /\ \A t \in Threads \ {q.id} : memory'.recorded[t] = memory.recorded[t]
          /\ memory'.recorded[q.id] \in {memory.recorded[q.id], memory.recorded[q.id] + 1}
        <3>1. PICK k \in Threads \union {None} :
                  \/ memory' = [memory EXCEPT !.recorded[q.id] = @ + 1, !.kept = k]
                  \/ memory' = memory
            BY <1>5, <2>0, <1>k DEF RecordInterview
        <3>2. CASE memory' = memory
            BY <3>2
        <3>3. CASE memory' = [memory EXCEPT !.recorded[q.id] = @ + 1, !.kept = k]
            <4> DEFINE more == memory.recorded[q.id] + 1
            <4>1. memory' = [memory EXCEPT !.recorded[q.id] = more, !.kept = k]
                BY <3>3
            <4> HIDE DEF more
            <4>2. memory'.recorded = [memory.recorded EXCEPT ![q.id] = more]
                BY <4>1, <1>k
            <4>3. /\ \A t \in Threads \ {q.id} : memory'.recorded[t] = memory.recorded[t]
                  /\ memory'.recorded[q.id] = more
                BY <4>2, <1>k, <2>0
            <4> QED
                BY <4>3 DEF more
        <3> QED
            BY <3>1, <3>2, <3>3
    <2> SUFFICES ASSUME NEW t \in Threads, Work("events", t, None) \notin unseen'
                 PROVE  Recorder(t)'
        BY DEF RecordInv
    <2>5. Recorder(t)
        BY <2>3 DEF RecordInv
    <2>6. \A s \in Requests : Records(request'[s], t) => s # r /\ Records(request[s], t)
        BY <2>1, <2>2 DEF Records, Recording
    <2>7. CASE t = q.id
        <3>1. Records(request[r], t) /\ request[r].at = "record"
            BY <2>0, <2>7 DEF Records, Recording
        <3>2. memory.recorded[t] = 0 /\ \A s \in Requests : ~Records(request'[s], t)
            BY <2>5, <2>6, <3>1 DEF Recorder
        <3>3. memory'.recorded[t] \in {0, 1}
            BY <2>4, <2>7, <3>2
        <3> QED
            BY <3>2, <3>3 DEF Recorder
    <2>8. CASE t # q.id
        <3>1. memory'.recorded[t] = memory.recorded[t]
            BY <2>4, <2>8
        <3> QED
            BY <2>2, <2>5, <2>6, <3>1 DEF Recorder
    <2> QED
        BY <2>7, <2>8
<1> QED
    BY <1>1, <1>2, <1>3, <1>4, <1>5 DEF FinishStep

LEMMA NextKeepsRecordInv == ChatInv /\ RecordInv /\ [Next]_chatVars => RecordInv'
<1> SUFFICES ASSUME ChatInv, RecordInv, [Next]_chatVars PROVE RecordInv'
    OBVIOUS
<1>1. CASE UNCHANGED chatVars
    BY <1>1 DEF chatVars, RecordInv, Recorder, Records
<1> QED
    BY <1>1, OthersDoNotRecord, FinishRecords DEF Next

LEMMA RecordedOnceHolds == ChatInv /\ RecordInv => RecordedOnce
<1> SUFFICES ASSUME ChatInv, RecordInv, NEW t \in Threads, Work("events", t, None) \notin unseen
             PROVE  ~(memory.recorded[t] > 1)
    BY DEF RecordedOnce
<1>1. memory.recorded[t] \in Nat /\ memory.recorded[t] <= 1
    BY DEF ChatInv, ThreadInv, TypeOK, RecordInv, Recorder
<1> QED
    BY <1>1

-----------------------------------------------------------------------------
(* What is sent again is not done again.                                   *)

LEMMA InitRepeats == Init => AnswerInv /\ RecordInv
<1> SUFFICES ASSUME Init PROVE AnswerInv /\ RecordInv
    OBVIOUS
<1>1. \A r \in Requests : request[r].at = "idle"
    BY DEF Init, Idle
<1>2. \A t \in Threads : \A c : Replies(t, c) = {}
    BY DEF Init, Replies
<1>3. AnswerInv
    BY <1>1, <1>2 DEF AnswerInv, Answers, Answering
<1>4. RecordInv
    BY <1>1 DEF Init, RecordInv, Recorder, Records, Recording
<1> QED
    BY <1>3, <1>4

(***************************************************************************)
(* A turn that is sent again gets the one complete reply, and an interview *)
(* that is finished again is recorded once, whatever else is done to the   *)
(* thread; the exceptions are the requests that unseen names (Turn,        *)
(* Finish).                                                                *)
(***************************************************************************)
THEOREM RepeatsAreHarmlessHolds == Spec => []RepeatsAreHarmless
<1> DEFINE Inv == ChatInv /\ AnswerInv /\ RecordInv
<1>1. Init => Inv
    BY InitChatInv, InitRepeats
<1>2. Inv /\ [Next]_chatVars => Inv'
    BY NextKeepsChatInv, NextKeepsAnswerInv, NextKeepsRecordInv
<1>3. Inv => RepeatsAreHarmless
    BY AnsweredOnceHolds, RecordedOnceHolds DEF RepeatsAreHarmless
<1> QED
    BY <1>1, <1>2, <1>3, PTL DEF Spec

-----------------------------------------------------------------------------
(* A thread that is over stays over.                                       *)

\* The row of t that a request writes back is active only in a late turn.
LEMMA WrittenRowIsOver ==
    ASSUME ChatInv, NEW t \in Threads, threads[t].status \in {"closed", "completed"},
           NEW u \in Threads, NEW row \in Thread, UpdateThread(u, row),
           u = t => row.status # "active"
    PROVE  threads'[t].status # "active"
<1>1. threads \in [Threads -> Thread]
    BY DEF ChatInv, ThreadInv, TypeOK
<1> QED
    BY <1>1 DEF UpdateThread

LEMMA OverHolds ==
    ASSUME ChatInv, NEW r \in Requests,
           CreateStep(r) \/ TurnStep(r) \/ ResetStep(r) \/ FinishStep(r) \/ Abandon(r),
           NEW t \in Threads, threads[t].status \in {"closed", "completed"}, ~LateTurn(t)
    PROVE  threads'[t].status # "active"
<1> DEFINE q == request[r]
<1>0. /\ threads \in [Threads -> Thread] /\ q \in Request /\ Whole(q)
      /\ q.op \in {"none", "create", "turn", "reset", "finish"}
    BY InvGives DEF TypeOK
<1>a. ASSUME q.at \in {"touch", "close", "link", "complete"}
      PROVE  q.id \in Threads /\ q.row \in Thread
    BY <1>0, <1>a, PointTells DEF Whole, PointsOf, Request
<1>1. CASE threads' = threads
    BY <1>1
<1>2. CASE InsertThread(r)
    BY <1>0, <1>2 DEF InsertThread, Absent
<1>3. CASE TouchThread(r)
    <2>1. q.at = "touch" /\ UpdateThread(q.id, q.row)
        BY <1>3 DEF TouchThread, At
    <2>2. q.op = "turn"
        BY <1>0, <2>1, PointTells
    <2>3. q.id # t
        BY <2>2 DEF LateTurn
    <2> HIDE DEF q
    <2> QED
        BY <1>a, <2>1, <2>3, WrittenRowIsOver
<1>4. CASE CloseThread(r)
    <2> DEFINE closed == [q.row EXCEPT !.status = "closed"]
    <2>1. q.at = "close" /\ UpdateThread(q.id, closed)
        BY <1>4 DEF CloseThread, At
    <2>2. closed \in Thread /\ closed.status = "closed"
        BY <1>a, <2>1 DEF Thread, ThreadStatus
    <2> HIDE DEF q, closed
    <2> QED
        BY <1>a, <2>1, <2>2, WrittenRowIsOver
<1>5. CASE LinkSuccessor(r)
    <2> DEFINE linked == [q.row EXCEPT !.successor = q.next]
    <2>1. q.at = "link" /\ UpdateThread(q.id, linked)
        BY <1>5 DEF LinkSuccessor, At
    <2>2. q.op = "reset" /\ q.next \in Threads
        BY <1>0, <2>1, PointTells DEF Whole
    <2>3. q.row.status = "closed"
        BY <1>0, <2>1, <2>2 DEF Whole
    <2>4. linked \in Thread /\ linked.status = "closed"
        BY <1>a, <2>1, <2>2, <2>3 DEF Thread
    <2> HIDE DEF q, linked
    <2> QED
        BY <1>a, <2>1, <2>4, WrittenRowIsOver
<1>6. CASE CompleteThread(r)
    <2> DEFINE completed == [q.row EXCEPT !.status = "completed"]
    <2>1. q.at = "complete" /\ UpdateThread(q.id, completed)
        BY <1>6 DEF CompleteThread, At
    <2>2. completed \in Thread /\ completed.status = "completed"
        BY <1>a, <2>1 DEF Thread, ThreadStatus
    <2> HIDE DEF q, completed
    <2> QED
        BY <1>a, <2>1, <2>2, WrittenRowIsOver
<1>7. CreateStep(r) => InsertThread(r) \/ threads' = threads
    BY DEF CreateStep, Create, FindActive, LookAtMessages, GenerateOpening
<1>8. TurnStep(r) => TouchThread(r) \/ threads' = threads
    BY DEF TurnStep, ReadForTurn, Read, AppendTurn, FindReply, EndStream
<1>9. ResetStep(r) => CloseThread(r) \/ LinkSuccessor(r) \/ threads' = threads
    BY DEF ResetStep, ReadForReset, Read
<1>10. FinishStep(r) => CompleteThread(r) \/ threads' = threads
    BY DEF FinishStep, ReadForFinish, Read, Assess, CompleteSession, LookForEvent,
           RecordInterview, Refresh, SetStatus
<1>11. Abandon(r) => threads' = threads
    BY DEF Abandon
<1> QED
    BY <1>1, <1>2, <1>3, <1>4, <1>5, <1>6, <1>7, <1>8, <1>9, <1>10, <1>11

(***************************************************************************)
(* A closed or completed thread is active again only by a turn that read   *)
(* it before (Turn, UpdateThread): what a reset or a finish writes back is *)
(* a row that it has closed or completed itself.                           *)
(***************************************************************************)
THEOREM OverStaysOverHolds == Spec => OverStaysOver
<1>1. ChatInv /\ [Next]_chatVars =>
          [\A t \in Threads :
               threads[t].status \in {"closed", "completed"} /\ ~LateTurn(t) =>
                   threads'[t].status # "active"]_chatVars
    BY OverHolds DEF Next
<1> QED
    BY <1>1, ChatInvariant, PTL DEF Spec, OverStaysOver

=============================================================================
