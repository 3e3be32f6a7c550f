---------------------- MODULE SubmissionRequestsProofs ----------------------
(***************************************************************************)
(* Proofs about SubmissionRequests for any set of requests, tokens and     *)
(* contents.  Everything follows from one inductive invariant,             *)
(* ReservationInv.                                                         *)
(***************************************************************************)
EXTENDS SubmissionRequests, TLAPS

USE NullAssumption

Points == {"idle"} \union ActivePoints \union Replies

(***************************************************************************)
(* What an assignment to one handler does.                                 *)
(***************************************************************************)
LEMMA MoveOne ==
    ASSUME TypeOK, NEW r \in Requests, NEW point \in Points, Goto(r, point)
    PROVE  /\ handler' \in [Requests -> HandlerState]
           /\ handler'[r].at = point
           /\ handler'[r].token = handler[r].token
           /\ handler'[r].content = handler[r].content
           /\ handler'[r].run = handler[r].run
           /\ handler'[r].verdict = handler[r].verdict
           /\ \A q \in Requests \ {r} : handler'[q] = handler[q]
<1>1. [handler[r] EXCEPT !.at = point] \in HandlerState
    BY DEF TypeOK, HandlerState, Points
<1>2. handler' = [handler EXCEPT ![r] = [handler[r] EXCEPT !.at = point]]
    BY DEF Goto
<1>3. /\ handler' \in [Requests -> HandlerState]
      /\ handler'[r] = [handler[r] EXCEPT !.at = point]
      /\ \A q \in Requests \ {r} : handler'[q] = handler[q]
    BY <1>1, <1>2 DEF TypeOK
<1> QED
    BY <1>3 DEF TypeOK, HandlerState

LEMMA ReplaceOne ==
    ASSUME TypeOK, NEW r \in Requests, NEW h \in HandlerState,
           handler' = [handler EXCEPT ![r] = h]
    PROVE  /\ handler' \in [Requests -> HandlerState]
           /\ handler'[r] = h
           /\ \A q \in Requests \ {r} : handler'[q] = handler[q]
    BY DEF TypeOK

LEMMA ReserveOne ==
    ASSUME TypeOK, NEW t \in Tokens, NEW v \in Reservation,
           tokens' = [tokens EXCEPT ![t] = v]
    PROVE  /\ tokens' \in [Tokens -> Reservation]
           /\ tokens'[t] = v
           /\ \A u \in Tokens \ {t} : tokens'[u] = tokens[u]
    BY DEF TypeOK

LEMMA RunOne ==
    ASSUME TypeOK, NEW r \in Requests, NEW s \in RunStatus,
           runs' = [runs EXCEPT ![r] = s]
    PROVE  /\ runs' \in [Requests -> RunStatus]
           /\ runs'[r] = s
           /\ \A q \in Requests \ {r} : runs'[q] = runs[q]
    BY DEF TypeOK

(***************************************************************************)
(* The initial state satisfies the invariant.                              *)
(***************************************************************************)
LEMMA InitInv == Init => ReservationInv
<1> SUFFICES ASSUME Init PROVE ReservationInv
    OBVIOUS
<1>1. TypeOK
    BY DEF Init, TypeOK, Reservation, Unreserved, TokenStatus, RunStatus, HandlerState, Idle
<1>2. \A r \in Requests : ~Holds(r)
    BY DEF Init, Holds, Idle
<1>3. ReservationConsistent
    BY DEF Init, ReservationConsistent, Unreserved
<1>4. HandlersConsistent
    BY DEF Init, HandlersConsistent, Consistent, Idle
<1> QED
    BY <1>1, <1>2, <1>3, <1>4 DEF ReservationInv, OneHolder, HolderReserved

LEMMA BindOne ==
    ASSUME TypeOK, NEW t \in Tokens, NEW run \in Requests,
           tokens' = [tokens EXCEPT ![t].run = run]
    PROVE  /\ tokens' \in [Tokens -> Reservation]
           /\ tokens'[t].status = tokens[t].status
           /\ tokens'[t].fingerprint = tokens[t].fingerprint
           /\ tokens'[t].submission = tokens[t].submission
           /\ tokens'[t].run = run
           /\ \A u \in Tokens \ {t} : tokens'[u] = tokens[u]
<1> DEFINE bound == [tokens[t] EXCEPT !.run = run]
<1>1. bound \in Reservation
    BY DEF TypeOK, Reservation
<1>2. tokens' = [tokens EXCEPT ![t] = bound]
    OBVIOUS
<1>3. /\ bound.status = tokens[t].status
      /\ bound.fingerprint = tokens[t].fingerprint
      /\ bound.submission = tokens[t].submission
      /\ bound.run = run
    BY DEF TypeOK, Reservation
<1> HIDE DEF bound
<1> QED
    BY <1>1, <1>2, <1>3, ReserveOne

LEMMA CompleteOne ==
    ASSUME TypeOK, NEW t \in Tokens, NEW run \in Requests,
           tokens' = Completed(t, run)
    PROVE  /\ tokens' \in [Tokens -> Reservation]
           /\ tokens'[t].status = "completed"
           /\ tokens'[t].fingerprint = tokens[t].fingerprint
           /\ tokens'[t].submission = run
           /\ tokens'[t].run = run
           /\ \A u \in Tokens \ {t} : tokens'[u] = tokens[u]
<1> DEFINE done == [tokens[t] EXCEPT !.status = "completed", !.submission = run, !.run = run]
<1>1. done \in Reservation
    BY ZenonT(60) DEF TypeOK, Reservation, TokenStatus
<1>2. tokens' = [tokens EXCEPT ![t] = done]
    BY DEF Completed
<1>3. /\ done.status = "completed"
      /\ done.fingerprint = tokens[t].fingerprint
      /\ done.submission = run
      /\ done.run = run
    BY DEF TypeOK, Reservation
<1> HIDE DEF done
<1> QED
    BY <1>1, <1>2, <1>3, ReserveOne

(***************************************************************************)
(* A step of one handler that leaves the reservations alone preserves the  *)
(* invariant when it neither takes a token nor disturbs a bound run.       *)
(***************************************************************************)
LEMMA ReservationsUntouched ==
    ASSUME ReservationInv, NEW r \in Requests,
           UNCHANGED tokens,
           handler' \in [Requests -> HandlerState],
           runs' \in [Requests -> RunStatus],
           \A q \in Requests \ {r} : handler'[q] = handler[q] /\ runs'[q] = runs[q],
           Holds(r)' => Holds(r) /\ handler'[r].token = handler[r].token
                                /\ handler'[r].content = handler[r].content,
           \A t \in Tokens : tokens[t].run = r =>
              /\ handler'[r].token = handler[r].token
              /\ isTerminal(runs'[r])
              /\ handler'[r].at \in {"complete", "accepted", "error"},
           Consistent(r)'
    PROVE  ReservationInv'
<1>1. \A q \in Requests : Holds(q)' => Holds(q) /\ handler'[q].token = handler[q].token
                                      /\ handler'[q].content = handler[q].content
    BY DEF Holds
<1>2. OneHolder'
    BY <1>1 DEF ReservationInv, OneHolder
<1>3. HolderReserved'
    BY <1>1 DEF ReservationInv, HolderReserved
<1>4. ReservationConsistent'
    BY DEF ReservationInv, ReservationConsistent, TypeOK, Reservation
<1>5. HandlersConsistent'
    BY DEF ReservationInv, HandlersConsistent, Consistent
<1>6. TypeOK'
    BY DEF ReservationInv, TypeOK
<1> QED
    BY <1>2, <1>3, <1>4, <1>5, <1>6 DEF ReservationInv

\* A handler that only moves on, without reaching a point that holds a token.
LEMMA MovePreservesInv ==
    ASSUME ReservationInv, NEW r \in Requests, NEW point \in Points, Goto(r, point),
           UNCHANGED <<tokens, runs>>,
           point \notin HolderPoints,
           \A t \in Tokens : tokens[t].run = r =>
              point \in {"complete", "accepted", "error"},
           Consistent(r)'
    PROVE  ReservationInv'
<1>0. TypeOK
    BY DEF ReservationInv
<1>1. /\ handler' \in [Requests -> HandlerState]
      /\ handler'[r].at = point
      /\ handler'[r].token = handler[r].token
      /\ handler'[r].content = handler[r].content
      /\ \A q \in Requests \ {r} : handler'[q] = handler[q]
    BY <1>0, MoveOne
<1>2. Holds(r)' => Holds(r)
    BY <1>1 DEF Holds
<1>3. \A t \in Tokens : tokens[t].run = r => isTerminal(runs[r])
    BY DEF ReservationInv, ReservationConsistent
<1>4. runs' \in [Requests -> RunStatus] /\ \A q \in Requests : runs'[q] = runs[q]
    BY <1>0 DEF TypeOK
<1> QED
    BY <1>1, <1>2, <1>3, <1>4, ReservationsUntouched

\* Where the handler of a bound run can stand.
LEMMA BoundHandler ==
    ASSUME ReservationInv, NEW r \in Requests,
           handler[r].at \notin {"complete", "accepted", "error"}
    PROVE  \A t \in Tokens : tokens[t].run # r
    BY DEF ReservationInv, ReservationConsistent

LEMMA RejectInv ==
    ASSUME ReservationInv, NEW r \in Requests, Reject(r) PROVE ReservationInv'
<1>1. Consistent(r)'
    BY MoveOne DEF ReservationInv, Reject, Consistent, Points, Replies
<1> QED
    BY <1>1, MovePreservesInv, BoundHandler DEF Reject, At, Points, Replies, HolderPoints

LEMMA ReserveConflictInv ==
    ASSUME ReservationInv, NEW r \in Requests, ReserveConflict(r) PROVE ReservationInv'
<1>1. Consistent(r)'
    BY MoveOne DEF ReservationInv, HandlersConsistent, ReserveConflict, At, Consistent,
                   Points, Replies
<1> QED
    BY <1>1, MovePreservesInv, BoundHandler
       DEF ReserveConflict, At, Points, Replies, HolderPoints

LEMMA FetchReplayInv ==
    ASSUME ReservationInv, NEW r \in Requests, FetchReplay(r) PROVE ReservationInv'
<1>1. Consistent(r)'
    BY MoveOne DEF ReservationInv, HandlersConsistent, FetchReplay, At, Consistent,
                   Points, Replies
<1> QED
    BY <1>1, MovePreservesInv, BoundHandler
       DEF FetchReplay, At, Points, Replies, HolderPoints

LEMMA GiveUpBindingInv ==
    ASSUME ReservationInv, NEW r \in Requests, GiveUpBinding(r) PROVE ReservationInv'
<1>1. Consistent(r)'
    BY MoveOne DEF ReservationInv, HandlersConsistent, GiveUpBinding, At, Consistent,
                   Points, Replies
<1> QED
    BY <1>1, MovePreservesInv, BoundHandler
       DEF GiveUpBinding, At, Points, Replies, HolderPoints

LEMMA WaitForRunInv ==
    ASSUME ReservationInv, NEW r \in Requests, WaitForRun(r) PROVE ReservationInv'
<1>1. Consistent(r)'
    BY MoveOne DEF ReservationInv, HandlersConsistent, WaitForRun, At, Consistent,
                   Points, ActivePoints
<1> QED
    BY <1>1, MovePreservesInv, BoundHandler
       DEF WaitForRun, At, Points, ActivePoints, HolderPoints

LEMMA AbortInv ==
    ASSUME ReservationInv, NEW r \in Requests, Abort(r) PROVE ReservationInv'
<1>1. Consistent(r)'
    BY MoveOne DEF ReservationInv, Abort, Consistent, Points, Replies
<1> QED
    BY <1>1, MovePreservesInv DEF Abort, Points, Replies, HolderPoints

\* The owner's steps that touch only its handler and its run.
LEMMA OwnerPreservesInv ==
    ASSUME ReservationInv, NEW r \in Requests,
           handler[r].at \in HolderPoints \ {"bind", "complete"},
           UNCHANGED tokens,
           handler' \in [Requests -> HandlerState],
           runs' \in [Requests -> RunStatus],
           \A q \in Requests \ {r} : handler'[q] = handler[q] /\ runs'[q] = runs[q],
           handler'[r].token = handler[r].token,
           handler'[r].content = handler[r].content,
           Consistent(r)'
    PROVE  ReservationInv'
<1>1. Holds(r)' => Holds(r)
    BY DEF Holds
<1>2. \A t \in Tokens : tokens[t].run # r
    BY BoundHandler DEF HolderPoints
<1> QED
    BY <1>1, <1>2, ReservationsUntouched

LEMMA CreateRunInv ==
    ASSUME ReservationInv, NEW r \in Requests, CreateRun(r) PROVE ReservationInv'
<1>1. TypeOK /\ At(r, "create_run")
    BY DEF ReservationInv, CreateRun
<1>2. /\ runs' \in [Requests -> RunStatus]
      /\ runs'[r] = "queued"
      /\ \A q \in Requests \ {r} : runs'[q] = runs[q]
    BY <1>1, RunOne DEF CreateRun, RunStatus
<1>3. /\ handler' \in [Requests -> HandlerState]
      /\ handler'[r].at = "start_run"
      /\ handler'[r].token = handler[r].token
      /\ handler'[r].content = handler[r].content
      /\ \A q \in Requests \ {r} : handler'[q] = handler[q]
    BY <1>1, MoveOne DEF CreateRun, Points, ActivePoints
<1>4. Consistent(r)'
    BY <1>2, <1>3 DEF Consistent
<1> QED
    BY <1>1, <1>2, <1>3, <1>4, OwnerPreservesInv DEF CreateRun, At, HolderPoints

LEMMA StartRunInv ==
    ASSUME ReservationInv, NEW r \in Requests, StartRun(r) PROVE ReservationInv'
<1>1. TypeOK /\ At(r, "start_run")
    BY DEF ReservationInv, StartRun
<1>2. /\ runs' \in [Requests -> RunStatus]
      /\ runs'[r] = "running"
      /\ \A q \in Requests \ {r} : runs'[q] = runs[q]
    BY <1>1, RunOne DEF StartRun, RunStatus
<1>3. /\ handler' \in [Requests -> HandlerState]
      /\ handler'[r].at = "execute"
      /\ handler'[r].token = handler[r].token
      /\ handler'[r].content = handler[r].content
      /\ \A q \in Requests \ {r} : handler'[q] = handler[q]
    BY <1>1, MoveOne DEF StartRun, Points, ActivePoints
<1>4. Consistent(r)'
    BY <1>2, <1>3 DEF Consistent
<1> QED
    BY <1>1, <1>2, <1>3, <1>4, OwnerPreservesInv DEF StartRun, At, HolderPoints

LEMMA ExecuteInv ==
    ASSUME ReservationInv, NEW r \in Requests, Execute(r) PROVE ReservationInv'
<1>1. /\ TypeOK
      /\ At(r, "execute")
      /\ handler[r] \in HandlerState
      /\ runs[r] # "absent"
    BY DEF ReservationInv, HandlersConsistent, Consistent, Execute, At, TypeOK
<1>2. PICK v \in Verdicts :
        handler' = [handler EXCEPT ![r] = [handler[r] EXCEPT !.at = "store_outcome", !.verdict = v]]
    BY DEF Execute
<1> DEFINE h == [handler[r] EXCEPT !.at = "store_outcome", !.verdict = v]
<1>3. /\ h \in HandlerState
      /\ h.at = "store_outcome"
      /\ h.verdict = v
      /\ h.token = handler[r].token
      /\ h.content = handler[r].content
    BY <1>1 DEF HandlerState, ActivePoints
<1> HIDE DEF h
<1>4. /\ handler' \in [Requests -> HandlerState]
      /\ handler'[r] = h
      /\ \A q \in Requests \ {r} : handler'[q] = handler[q]
    BY <1>1, <1>2, <1>3, ReplaceOne DEF h
<1>5. runs' \in [Requests -> RunStatus] /\ \A q \in Requests : runs'[q] = runs[q]
    BY <1>1 DEF Execute, TypeOK
<1>6. Consistent(r)'
    BY <1>1, <1>3, <1>4, <1>5 DEF Consistent
<1> QED
    BY <1>1, <1>3, <1>4, <1>5, <1>6, OwnerPreservesInv DEF Execute, At, HolderPoints

LEMMA StoreOutcomeInv ==
    ASSUME ReservationInv, NEW r \in Requests, StoreOutcome(r) PROVE ReservationInv'
<1>1. /\ TypeOK
      /\ At(r, "store_outcome")
      /\ handler[r] \in HandlerState
      /\ handler[r].verdict \in Verdicts
    BY DEF ReservationInv, HandlersConsistent, Consistent, StoreOutcome, At, TypeOK
<1> DEFINE next == IF handler[r].token = NoToken THEN "accepted" ELSE "bind"
           h == [handler[r] EXCEPT !.at = next, !.run = r]
<1>2. /\ h \in HandlerState
      /\ h.at = next
      /\ h.run = r
      /\ h.token = handler[r].token
      /\ h.content = handler[r].content
    BY <1>1 DEF HandlerState, ActivePoints, Replies
<1>3. handler' = [handler EXCEPT ![r] = h]
    BY DEF StoreOutcome
<1> HIDE DEF h
<1>4. /\ handler' \in [Requests -> HandlerState]
      /\ handler'[r] = h
      /\ \A q \in Requests \ {r} : handler'[q] = handler[q]
    BY <1>1, <1>2, <1>3, ReplaceOne
<1>5. /\ runs' \in [Requests -> RunStatus]
      /\ runs'[r] \in Verdicts
      /\ \A q \in Requests \ {r} : runs'[q] = runs[q]
    BY <1>1, RunOne DEF StoreOutcome, RunStatus
<1>6. Consistent(r)'
    BY <1>1, <1>2, <1>4, <1>5 DEF Consistent, isTerminal, Verdicts
<1> QED
    BY <1>1, <1>2, <1>4, <1>5, <1>6, OwnerPreservesInv DEF StoreOutcome, At, HolderPoints

\* The duplicate's step from the reservation to the run that it names.
LEMMA ReserveExistingInv ==
    ASSUME ReservationInv, NEW r \in Requests, ReserveExisting(r) PROVE ReservationInv'
<1> DEFINE t == handler[r].token
           found == tokens[t]
           next == IF found.status = "completed"
                   THEN IF found.submission # NoRun THEN "fetch_replay" ELSE "create_run"
                   ELSE IF found.run = NoRun THEN "await_bind" ELSE "wait_run"
           h == [handler[r] EXCEPT !.at = next, !.run = found.run]
<1>1. /\ TypeOK
      /\ At(r, "reserve")
      /\ handler[r] \in HandlerState
      /\ t \in Tokens
      /\ runs[r] = "absent"
      /\ found \in Reservation
    <2>1. TypeOK /\ At(r, "reserve") /\ Consistent(r)
        BY DEF ReservationInv, HandlersConsistent, ReserveExisting
    <2>2. handler[r] \in HandlerState /\ handler[r].token # NoToken /\ runs[r] = "absent"
        BY <2>1 DEF TypeOK, Consistent, At
    <2>3. t \in Tokens
        BY <2>2 DEF HandlerState
    <2> QED
        BY <2>1, <2>2, <2>3 DEF TypeOK
<1>2. /\ found.status # "absent"
      /\ found.fingerprint = handler[r].content
      /\ found.run = NoRun => next = "await_bind"
      /\ found.run # NoRun => next \in {"fetch_replay", "wait_run"}
    BY <1>1 DEF ReserveExisting, ReservationInv, ReservationConsistent
<1>3. handler' = [handler EXCEPT ![r] = h]
    BY DEF ReserveExisting
<1>4. /\ h \in HandlerState
      /\ h.at = next
      /\ h.run = found.run
      /\ h.token = t
      /\ h.content = handler[r].content
    BY ZenonT(60), <1>1 DEF HandlerState, ActivePoints, Reservation
<1> HIDE DEF h, next
<1>5. /\ handler' \in [Requests -> HandlerState]
      /\ handler'[r] = h
      /\ \A q \in Requests \ {r} : handler'[q] = handler[q]
    BY <1>1, <1>3, <1>4, ReplaceOne
<1>6. UNCHANGED tokens /\ runs' = runs /\ runs' \in [Requests -> RunStatus]
    BY <1>1 DEF ReserveExisting, TypeOK
<1>7. Consistent(r)'
    BY <1>1, <1>2, <1>4, <1>5, <1>6 DEF Consistent
<1>8. ~Holds(r)'
    BY <1>1, <1>2, <1>4, <1>5, <1>6 DEF Holds, HolderPoints
<1>9. \A u \in Tokens : tokens[u].run # r
    BY <1>1, BoundHandler DEF At
<1> QED
    BY <1>5, <1>6, <1>7, <1>8, <1>9, ReservationsUntouched

LEMMA SeeBindingInv ==
    ASSUME ReservationInv, NEW r \in Requests, SeeBinding(r) PROVE ReservationInv'
<1> DEFINE t == handler[r].token
           found == tokens[t]
           h == [handler[r] EXCEPT !.at = "wait_run", !.run = found.run]
<1>1. /\ TypeOK
      /\ At(r, "await_bind")
      /\ Consistent(r)
      /\ handler[r] \in HandlerState
      /\ t \in Tokens
      /\ runs[r] = "absent"
      /\ found \in Reservation
      /\ found.run # NoRun
    <2>1. TypeOK /\ At(r, "await_bind") /\ Consistent(r) /\ found.run # NoRun
        BY DEF ReservationInv, HandlersConsistent, SeeBinding
    <2>2. handler[r] \in HandlerState /\ handler[r].token # NoToken /\ runs[r] = "absent"
        BY <2>1 DEF TypeOK, Consistent, At
    <2>3. t \in Tokens
        BY <2>2 DEF HandlerState
    <2> QED
        BY <2>1, <2>2, <2>3 DEF TypeOK
<1>2. handler' = [handler EXCEPT ![r] = h]
    BY DEF SeeBinding
<1>3. /\ h \in HandlerState
      /\ h.at = "wait_run"
      /\ h.run = found.run
      /\ h.token = t
      /\ h.content = handler[r].content
    BY <1>1 DEF HandlerState, ActivePoints, Reservation
<1> HIDE DEF h
<1>4. /\ handler' \in [Requests -> HandlerState]
      /\ handler'[r] = h
      /\ \A q \in Requests \ {r} : handler'[q] = handler[q]
    BY <1>1, <1>2, <1>3, ReplaceOne
<1>5. UNCHANGED tokens /\ runs' = runs /\ runs' \in [Requests -> RunStatus]
    BY <1>1 DEF SeeBinding, TypeOK
<1>6. Consistent(r)'
    BY <1>1, <1>3, <1>4, <1>5 DEF Consistent, At
<1>7. ~Holds(r)'
    BY <1>1, <1>3, <1>4, <1>5 DEF Holds, HolderPoints
<1>8. \A u \in Tokens : tokens[u].run # r
    BY <1>1, BoundHandler DEF At
<1> QED
    BY <1>4, <1>5, <1>6, <1>7, <1>8, ReservationsUntouched

LEMMA ArriveInv ==
    ASSUME ReservationInv, NEW r \in Requests, Arrive(r) PROVE ReservationInv'
<1>1. /\ TypeOK
      /\ At(r, "idle")
      /\ runs[r] = "absent"
    BY DEF ReservationInv, HandlersConsistent, Consistent, Arrive, At
<1>2. PICK t \in Tokens \union {NoToken}, c \in Contents :
        handler' = [handler EXCEPT ![r] =
                      [Idle EXCEPT !.at = IF t = NoToken THEN "create_run" ELSE "reserve",
                                   !.token = t, !.content = c]]
    BY DEF Arrive
<1> DEFINE next == IF t = NoToken THEN "create_run" ELSE "reserve"
           h == [Idle EXCEPT !.at = next, !.token = t, !.content = c]
<1>3. /\ h \in HandlerState
      /\ h.at = next
      /\ h.token = t
    BY DEF Idle, HandlerState, ActivePoints
<1> HIDE DEF h
<1>4. /\ handler' \in [Requests -> HandlerState]
      /\ handler'[r] = h
      /\ \A q \in Requests \ {r} : handler'[q] = handler[q]
    BY <1>1, <1>2, <1>3, ReplaceOne DEF h
<1>5. UNCHANGED tokens /\ runs' = runs /\ runs' \in [Requests -> RunStatus]
    BY <1>1 DEF Arrive, TypeOK
<1>6. Consistent(r)'
    BY <1>1, <1>3, <1>4, <1>5 DEF Consistent
<1>7. ~Holds(r)'
    BY <1>1, <1>3, <1>4, <1>5 DEF Holds, HolderPoints
<1>8. \A u \in Tokens : tokens[u].run # r
    BY <1>1, BoundHandler DEF At
<1> QED
    BY <1>4, <1>5, <1>6, <1>7, <1>8, ReservationsUntouched

(***************************************************************************)
(* The steps that write a reservation.                                     *)
(***************************************************************************)
LEMMA WritersKnowTheirToken ==
    ASSUME ReservationInv, NEW r \in Requests,
           handler[r].at \in {"reserve", "join", "bind", "complete"}
    PROVE  /\ handler[r] \in HandlerState
           /\ handler[r].token \in Tokens
           /\ Consistent(r)
<1>1. Consistent(r) /\ handler[r] \in HandlerState
    BY DEF ReservationInv, HandlersConsistent, TypeOK
<1>2. handler[r].token # NoToken
    BY <1>1 DEF Consistent
<1> QED
    BY <1>1, <1>2 DEF HandlerState

LEMMA ReserveFreshInv ==
    ASSUME ReservationInv, NEW r \in Requests, ReserveFresh(r) PROVE ReservationInv'
<1> DEFINE t == handler[r].token
           fresh == [Unreserved EXCEPT !.status = "in_progress", !.fingerprint = handler[r].content]
<1>1. /\ TypeOK
      /\ At(r, "reserve")
      /\ handler[r] \in HandlerState
      /\ t \in Tokens
      /\ Consistent(r)
      /\ runs[r] = "absent"
    BY WritersKnowTheirToken DEF ReservationInv, ReserveFresh, At, Consistent
<1>2. tokens[t].status = "absent" /\ tokens[t].run = NoRun
    BY <1>1 DEF ReservationInv, ReservationConsistent, ReserveFresh
<1>3. /\ fresh \in Reservation
      /\ fresh.status = "in_progress"
      /\ fresh.fingerprint = handler[r].content
      /\ fresh.run = NoRun
      /\ fresh.submission = NoRun
    BY <1>1 DEF Unreserved, Reservation, TokenStatus, HandlerState
<1>4. tokens' = [tokens EXCEPT ![t] = fresh]
    BY DEF ReserveFresh
<1> HIDE DEF fresh
<1>5. /\ tokens' \in [Tokens -> Reservation]
      /\ tokens'[t] = fresh
      /\ \A u \in Tokens \ {t} : tokens'[u] = tokens[u]
    BY <1>1, <1>3, <1>4, ReserveOne
<1>6. /\ handler' \in [Requests -> HandlerState]
      /\ handler'[r].at = "create_run"
      /\ handler'[r].token = t
      /\ handler'[r].content = handler[r].content
      /\ \A q \in Requests \ {r} : handler'[q] = handler[q]
    BY <1>1, MoveOne DEF ReserveFresh, Points, ActivePoints
<1>7. runs' = runs /\ runs' \in [Requests -> RunStatus]
    BY <1>1 DEF ReserveFresh, TypeOK
<1>8. \A q \in Requests : Holds(q) => handler[q].token # t
    BY <1>2 DEF ReservationInv, HolderReserved
<1>9. \A q \in Requests \ {r} : Holds(q)' => Holds(q)
    BY <1>6, <1>7 DEF Holds
<1>10. OneHolder'
    BY <1>6, <1>8, <1>9 DEF OneHolder, ReservationInv
<1>11. HolderReserved'
    <2>1. ASSUME NEW q \in Requests, q # r, Holds(q)'
          PROVE  /\ tokens'[handler'[q].token].status # "absent"
                 /\ tokens'[handler'[q].token].fingerprint = handler'[q].content
        <3>1. handler'[q] = handler[q] /\ Holds(q)
            BY <1>6, <1>9, <2>1
        <3>2. handler[q].token \in Tokens \ {t}
            BY <1>1, <1>8, <3>1 DEF Holds, TypeOK, HandlerState
        <3> QED
            BY <1>5, <3>1, <3>2 DEF ReservationInv, HolderReserved
    <2> QED
        BY <1>3, <1>5, <1>6, <2>1 DEF HolderReserved
<1>12. ReservationConsistent'
    <2>1. ASSUME NEW u \in Tokens, u # t, tokens[u].run # NoRun
          PROVE  handler'[tokens[u].run] = handler[tokens[u].run]
        BY <1>1, <1>6, <2>1, BoundHandler DEF At, TypeOK, Reservation
    <2> QED
        BY <1>3, <1>5, <1>7, <2>1 DEF ReservationConsistent, ReservationInv
<1>13. HandlersConsistent'
    <2>1. ASSUME NEW q \in Requests, q # r PROVE Consistent(q)'
        <3>1. Consistent(q) /\ handler'[q] = handler[q] /\ handler[q] \in HandlerState
            BY <1>1, <1>6, <2>1 DEF ReservationInv, HandlersConsistent, TypeOK
        <3>2. CASE handler[q].token = t
            BY <1>2, <1>3, <1>5, <1>7, <3>1, <3>2 DEF Consistent
        <3>3. CASE handler[q].token # t
            BY <1>5, <1>7, <3>1, <3>3 DEF Consistent, HandlerState
        <3> QED
            BY <3>2, <3>3
    <2>2. Consistent(r)'
        BY <1>1, <1>6, <1>7 DEF Consistent
    <2> QED
        BY <2>1, <2>2 DEF HandlersConsistent
<1> QED
    BY <1>5, <1>6, <1>7, <1>10, <1>11, <1>12, <1>13 DEF ReservationInv, TypeOK

(***************************************************************************)
(* A write that leaves the content of a reserved token and the run of a    *)
(* bound one as they are, and disturbs nobody who waits for the token.     *)
(***************************************************************************)
LEMMA ReservationAdvances ==
    ASSUME ReservationInv, NEW r \in Requests, NEW t \in Tokens,
           handler[r].token = t,
           tokens' \in [Tokens -> Reservation],
           tokens[t].status # "absent",
           tokens'[t].status # "absent",
           tokens'[t].fingerprint = tokens[t].fingerprint,
           tokens[t].run # NoRun => tokens'[t].run = tokens[t].run,
           \A u \in Tokens \ {t} : tokens'[u] = tokens[u],
           UNCHANGED runs,
           handler' \in [Requests -> HandlerState],
           handler'[r].token = t,
           handler'[r].content = handler[r].content,
           \A q \in Requests \ {r} : handler'[q] = handler[q],
           Holds(r)' => Holds(r),
           handler'[r].at \in {"complete", "accepted", "error"},
           \* the reservation is consistent afterwards
           tokens'[t].run # NoRun,
           tokens'[t].submission \in {NoRun, tokens'[t].run},
           tokens'[t].status = "completed" => tokens'[t].submission = tokens'[t].run,
           handler'[tokens'[t].run].token = t,
           isTerminal(runs[tokens'[t].run]),
           handler'[tokens'[t].run].at \in {"complete", "accepted", "error"},
           Consistent(r)'
    PROVE  ReservationInv'
<1>1. TypeOK
    BY DEF ReservationInv
<1>2. \A q \in Requests : Holds(q)' => Holds(q) /\ handler'[q].token = handler[q].token
                                      /\ handler'[q].content = handler[q].content
    BY DEF Holds
<1>3. \A q \in Requests : Holds(q) => handler[q].token \in Tokens
    BY <1>1 DEF Holds, TypeOK, HandlerState
<1>4. OneHolder'
    BY <1>2 DEF ReservationInv, OneHolder
<1>5. HolderReserved'
    BY <1>2, <1>3 DEF ReservationInv, HolderReserved
<1>6. ReservationConsistent'
    <2>1. ASSUME NEW u \in Tokens, u # t, tokens[u].run # NoRun
          PROVE  handler'[tokens[u].run] = handler[tokens[u].run]
        BY <1>1, <2>1 DEF ReservationInv, ReservationConsistent, TypeOK, Reservation
    <2> QED
        BY <2>1 DEF ReservationInv, ReservationConsistent
<1>7. HandlersConsistent'
    <2>1. ASSUME NEW q \in Requests, q # r PROVE Consistent(q)'
        <3>1. Consistent(q) /\ handler'[q] = handler[q] /\ handler[q] \in HandlerState
            BY <1>1, <2>1 DEF ReservationInv, HandlersConsistent, TypeOK
        <3>2. CASE handler[q].token = t
            BY <3>1, <3>2 DEF Consistent
        <3>3. CASE handler[q].token # t
            BY <3>1, <3>3 DEF Consistent, HandlerState
        <3> QED
            BY <3>2, <3>3
    <2> QED
        BY <2>1 DEF HandlersConsistent
<1> QED
    BY <1>1, <1>4, <1>5, <1>6, <1>7 DEF ReservationInv, TypeOK

\* A duplicate completes the reservation with the run it already names.
LEMMA JoinRunEffect ==
    ASSUME ReservationInv, NEW r \in Requests, JoinRun(r),
           NEW t, t = handler[r].token, NEW run, run = handler[r].run
    PROVE  /\ t \in Tokens /\ run \in Requests
           /\ At(r, "join") /\ runs[r] = "absent"
           /\ tokens[t].status # "absent"
           /\ tokens[t].fingerprint = handler[r].content
           /\ tokens[t].run = run
           /\ handler[run].token = t
           /\ isTerminal(runs[run])
           /\ handler[run].at \in {"complete", "accepted", "error"}
           /\ run # r
           /\ tokens' \in [Tokens -> Reservation]
           /\ tokens'[t].status = "completed"
           /\ tokens'[t].fingerprint = tokens[t].fingerprint
           /\ tokens'[t].submission = run
           /\ tokens'[t].run = run
           /\ \A u \in Tokens \ {t} : tokens'[u] = tokens[u]
           /\ handler' \in [Requests -> HandlerState]
           /\ handler'[r].at = "accepted"
           /\ handler'[r].token = t
           /\ handler'[r].content = handler[r].content
           /\ handler'[r].run = run
           /\ \A q \in Requests \ {r} : handler'[q] = handler[q]
           /\ UNCHANGED runs
<1>1. /\ TypeOK
      /\ At(r, "join")
      /\ handler[r] \in HandlerState
      /\ t \in Tokens
      /\ Consistent(r)
      /\ runs[r] = "absent"
    BY WritersKnowTheirToken DEF ReservationInv, JoinRun, At, Consistent
<1>2. /\ tokens[t].status # "absent"
      /\ tokens[t].fingerprint = handler[r].content
      /\ run = tokens[t].run
      /\ run \in Requests
    BY <1>1 DEF Consistent, At, HandlerState
<1>3. /\ handler[run].token = t
      /\ isTerminal(runs[run])
      /\ handler[run].at \in {"complete", "accepted", "error"}
    BY <1>1, <1>2 DEF ReservationInv, ReservationConsistent
<1>4. /\ tokens' \in [Tokens -> Reservation]
      /\ tokens'[t].status = "completed"
      /\ tokens'[t].fingerprint = tokens[t].fingerprint
      /\ tokens'[t].submission = run
      /\ tokens'[t].run = run
      /\ \A u \in Tokens \ {t} : tokens'[u] = tokens[u]
    BY <1>1, <1>2, CompleteOne DEF JoinRun
<1>5. /\ handler' \in [Requests -> HandlerState]
      /\ handler'[r].at = "accepted"
      /\ handler'[r].token = t
      /\ handler'[r].content = handler[r].content
      /\ handler'[r].run = run
      /\ \A q \in Requests \ {r} : handler'[q] = handler[q]
    BY <1>1, MoveOne DEF JoinRun, Points, Replies
<1>6. run # r
    BY <1>1, <1>3 DEF isTerminal, Verdicts
<1> QED
    BY <1>1, <1>2, <1>3, <1>4, <1>5, <1>6 DEF JoinRun

LEMMA JoinRunInv ==
    ASSUME ReservationInv, NEW r \in Requests, JoinRun(r) PROVE ReservationInv'
<1> DEFINE t == handler[r].token
           run == handler[r].run
<1>1. /\ ~Holds(r)'
      /\ Consistent(r)'
    BY JoinRunEffect DEF Holds, HolderPoints, Consistent
<1> QED
    BY <1>1, JoinRunEffect, ReservationAdvances

\* Only the holder binds, and it binds a reservation that names no run.
LEMMA BindRunEffect ==
    ASSUME ReservationInv, NEW r \in Requests, BindRun(r), NEW t, t = handler[r].token
    PROVE  /\ t \in Tokens
           /\ At(r, "bind") /\ Holds(r) /\ isTerminal(runs[r])
           /\ tokens[t].status \notin {"absent", "completed"}
           /\ tokens[t].fingerprint = handler[r].content
           /\ tokens[t].run = NoRun /\ tokens[t].submission = NoRun
           /\ tokens' \in [Tokens -> Reservation]
           /\ tokens'[t].status = tokens[t].status
           /\ tokens'[t].fingerprint = tokens[t].fingerprint
           /\ tokens'[t].submission = tokens[t].submission
           /\ tokens'[t].run = r
           /\ \A u \in Tokens \ {t} : tokens'[u] = tokens[u]
           /\ handler' \in [Requests -> HandlerState]
           /\ handler'[r].at = "complete"
           /\ handler'[r].token = t
           /\ handler'[r].content = handler[r].content
           /\ handler'[r].run = r
           /\ \A q \in Requests \ {r} : handler'[q] = handler[q]
           /\ UNCHANGED runs
<1>1. /\ TypeOK
      /\ At(r, "bind")
      /\ t \in Tokens
      /\ Consistent(r)
      /\ handler[r].run = r
      /\ isTerminal(runs[r])
    BY WritersKnowTheirToken DEF ReservationInv, BindRun, At, Consistent
<1>2. Holds(r)
    BY <1>1 DEF Holds, At, HolderPoints, Consistent
<1>3. /\ tokens[t].status # "absent"
      /\ tokens[t].fingerprint = handler[r].content
    BY <1>2 DEF ReservationInv, HolderReserved
<1>4. tokens[t].run = NoRun
    <2> SUFFICES ASSUME tokens[t].run # NoRun PROVE FALSE
        OBVIOUS
    <2>1. /\ tokens[t].run \in Requests
          /\ handler[tokens[t].run].token = t
          /\ isTerminal(runs[tokens[t].run])
          /\ handler[tokens[t].run].at \in {"complete", "accepted", "error"}
        BY <1>1 DEF ReservationInv, ReservationConsistent, TypeOK, Reservation
    <2>2. Holds(tokens[t].run)
        BY <1>1, <2>1 DEF Holds, isTerminal, Verdicts, Consistent, At
    <2>3. tokens[t].run = r
        BY <1>2, <2>1, <2>2 DEF ReservationInv, OneHolder
    <2> QED
        BY <1>1, <2>1, <2>3 DEF At
<1>5. tokens[t].submission = NoRun /\ tokens[t].status # "completed"
    BY <1>1, <1>4 DEF ReservationInv, ReservationConsistent
<1>6. /\ tokens' \in [Tokens -> Reservation]
      /\ tokens'[t].status = tokens[t].status
      /\ tokens'[t].fingerprint = tokens[t].fingerprint
      /\ tokens'[t].submission = tokens[t].submission
      /\ tokens'[t].run = r
      /\ \A u \in Tokens \ {t} : tokens'[u] = tokens[u]
    BY <1>1, BindOne DEF BindRun
<1>7. /\ handler' \in [Requests -> HandlerState]
      /\ handler'[r].at = "complete"
      /\ handler'[r].token = t
      /\ handler'[r].content = handler[r].content
      /\ handler'[r].run = r
      /\ \A q \in Requests \ {r} : handler'[q] = handler[q]
    BY <1>1, MoveOne DEF BindRun, Points, ActivePoints
<1> QED
    BY <1>1, <1>2, <1>3, <1>4, <1>5, <1>6, <1>7 DEF BindRun

LEMMA BindRunInv ==
    ASSUME ReservationInv, NEW r \in Requests, BindRun(r) PROVE ReservationInv'
<1> DEFINE t == handler[r].token
<1>1. Consistent(r)'
    BY BindRunEffect DEF Consistent, Holds
<1> QED
    BY <1>1, BindRunEffect, ReservationAdvances

\* The holder completes the reservation that it has bound.
LEMMA CompleteRunEffect ==
    ASSUME ReservationInv, NEW r \in Requests, CompleteRun(r), NEW t, t = handler[r].token
    PROVE  /\ t \in Tokens
           /\ At(r, "complete") /\ Holds(r) /\ isTerminal(runs[r])
           /\ tokens[t].status # "absent"
           /\ tokens[t].fingerprint = handler[r].content
           /\ tokens[t].run = r
           /\ tokens' \in [Tokens -> Reservation]
           /\ tokens'[t].status = "completed"
           /\ tokens'[t].fingerprint = tokens[t].fingerprint
           /\ tokens'[t].submission = r
           /\ tokens'[t].run = r
           /\ \A u \in Tokens \ {t} : tokens'[u] = tokens[u]
           /\ handler' \in [Requests -> HandlerState]
           /\ handler'[r].at = "accepted"
           /\ handler'[r].token = t
           /\ handler'[r].content = handler[r].content
           /\ handler'[r].run = r
           /\ \A q \in Requests \ {r} : handler'[q] = handler[q]
           /\ UNCHANGED runs
<1>1. /\ TypeOK
      /\ At(r, "complete")
      /\ t \in Tokens
      /\ Consistent(r)
      /\ handler[r].run = r
      /\ isTerminal(runs[r])
      /\ tokens[t].run = r
    BY WritersKnowTheirToken DEF ReservationInv, CompleteRun, At, Consistent
<1>2. Holds(r)
    BY <1>1 DEF Holds, At, HolderPoints, Consistent
<1>3. /\ tokens[t].status # "absent"
      /\ tokens[t].fingerprint = handler[r].content
    BY <1>2 DEF ReservationInv, HolderReserved
<1>4. /\ tokens' \in [Tokens -> Reservation]
      /\ tokens'[t].status = "completed"
      /\ tokens'[t].fingerprint = tokens[t].fingerprint
      /\ tokens'[t].submission = r
      /\ tokens'[t].run = r
      /\ \A u \in Tokens \ {t} : tokens'[u] = tokens[u]
    BY <1>1, CompleteOne DEF CompleteRun
<1>5. /\ handler' \in [Requests -> HandlerState]
      /\ handler'[r].at = "accepted"
      /\ handler'[r].token = t
      /\ handler'[r].content = handler[r].content
      /\ handler'[r].run = r
      /\ \A q \in Requests \ {r} : handler'[q] = handler[q]
    BY <1>1, MoveOne DEF CompleteRun, Points, Replies
<1> QED
    BY <1>1, <1>2, <1>3, <1>4, <1>5 DEF CompleteRun

LEMMA CompleteRunInv ==
    ASSUME ReservationInv, NEW r \in Requests, CompleteRun(r) PROVE ReservationInv'
<1> DEFINE t == handler[r].token
<1>1. Consistent(r)'
    BY CompleteRunEffect DEF Consistent, Holds
<1> QED
    BY <1>1, CompleteRunEffect, ReservationAdvances

(***************************************************************************)
(* One step of the specification preserves the invariant.                  *)
(***************************************************************************)
LEMMA StepInv == ReservationInv /\ [Next]_requestVars => ReservationInv'
<1> SUFFICES ASSUME ReservationInv, [Next]_requestVars PROVE ReservationInv'
    OBVIOUS
<1>1. CASE UNCHANGED requestVars
    BY <1>1 DEF requestVars, ReservationInv, TypeOK, OneHolder, Holds, HolderReserved,
                ReservationConsistent, HandlersConsistent, Consistent
<1>2. ASSUME NEW r \in Requests, Step(r) PROVE ReservationInv'
    BY <1>2, ReserveFreshInv, ReserveConflictInv, ReserveExistingInv, FetchReplayInv,
       SeeBindingInv, GiveUpBindingInv, WaitForRunInv, JoinRunInv, CreateRunInv, StartRunInv,
       ExecuteInv, StoreOutcomeInv, BindRunInv, CompleteRunInv DEF Step
<1> QED
    BY <1>1, <1>2, ArriveInv, RejectInv, AbortInv DEF Next

(***************************************************************************)
(* The reservation protocol keeps its inductive invariant, and so the      *)
(* types of its tables and handlers, whatever requests arrive, duplicate,  *)
(* fail or die (submission.Service.Submit and the two execution stores).   *)
(***************************************************************************)
THEOREM ReservationsInvariant == Spec => []ReservationInv
    BY InitInv, StepInv, PTL DEF Spec

\* Every table and handler keeps its type.
THEOREM TypesCorrect == Spec => []TypeOK
<1>1. ReservationInv => TypeOK
    BY DEF ReservationInv
<1> QED
    BY <1>1, ReservationsInvariant, PTL

(***************************************************************************)
(* The learner's code is executed at most once for a token: the request    *)
(* that created the reservation is the only one that ever creates a run.   *)
(***************************************************************************)
THEOREM AtMostOneExecution == Spec => []OneExecutionPerToken
<1>1. ReservationInv => OneExecutionPerToken
    BY DEF ReservationInv, OneExecutionPerToken, OneHolder, Holds
<1> QED
    BY <1>1, ReservationsInvariant, PTL

\* A duplicate that finds a bound run finds its outcome.
THEOREM BoundRunsAreOver == Spec => []BoundRunIsOver
<1>1. ReservationInv => BoundRunIsOver
    BY DEF ReservationInv, BoundRunIsOver, ReservationConsistent
<1> QED
    BY <1>1, ReservationsInvariant, PTL

(***************************************************************************)
(* Requests with one token are told one submission, the execution of the   *)
(* content they sent, however they were answered: by executing, by joining *)
(* a bound run or by replaying a completed one.                            *)
(***************************************************************************)
THEOREM DuplicatesAgree == Spec => []SameTokenSameAnswer
<1>1. ReservationInv => SameTokenSameAnswer
    <2> SUFFICES ASSUME ReservationInv, NEW q \in Requests, NEW r \in Requests,
                        At(q, "accepted"), At(r, "accepted"),
                        handler[q].token = handler[r].token, handler[q].token # NoToken
                 PROVE  /\ handler[q].run = handler[r].run
                        /\ handler[q].content = handler[r].content
                        /\ handler[handler[r].run].token = handler[r].token
                        /\ handler[handler[r].run].content = handler[r].content
        BY DEF SameTokenSameAnswer
    <2> DEFINE t == handler[r].token
               run == tokens[t].run
    <2>1. Consistent(q) /\ Consistent(r) /\ handler[r] \in HandlerState
        BY DEF ReservationInv, HandlersConsistent, TypeOK
    <2>2. t \in Tokens
        BY <2>1 DEF HandlerState
    <2>3. /\ handler[q].run = run /\ handler[r].run = run /\ run # NoRun
          /\ tokens[t].fingerprint = handler[q].content
          /\ tokens[t].fingerprint = handler[r].content
        BY <2>1 DEF Consistent, At
    <2>4. run \in Requests /\ handler[run].token = t /\ runs[run] # "absent"
        BY <2>2, <2>3 DEF ReservationInv, ReservationConsistent, TypeOK, Reservation,
                          isTerminal, Verdicts
    <2>5. tokens[t].fingerprint = handler[run].content
        BY <2>4, <2>2 DEF ReservationInv, HolderReserved, Holds
    <2> QED
        BY <2>3, <2>4, <2>5
<1> QED
    BY <1>1, ReservationsInvariant, PTL

(***************************************************************************)
(* A reservation only moves forward.                                       *)
(***************************************************************************)
Advances(t) ==
    /\ tokens[t].status # "absent" => tokens'[t].fingerprint = tokens[t].fingerprint
    /\ tokens[t].run # NoRun => tokens'[t].run = tokens[t].run
    /\ tokens[t].status = "completed" => tokens'[t] = tokens[t]
    /\ tokens'[t].submission \in {NoRun, tokens'[t].run}

LEMMA StepAdvances ==
    ASSUME ReservationInv, ReservationInv', [Next]_requestVars, NEW t \in Tokens
    PROVE  Advances(t)
<1>1. tokens'[t].submission \in {NoRun, tokens'[t].run}
    BY DEF ReservationInv, ReservationConsistent
<1>2. CASE tokens'[t] = tokens[t]
    BY <1>1, <1>2 DEF Advances
<1>3. CASE \E r \in Requests : ReserveFresh(r) /\ handler[r].token = t
    BY <1>1, <1>3 DEF Advances, ReserveFresh, ReservationInv, ReservationConsistent
<1>4. CASE \E r \in Requests : JoinRun(r) /\ handler[r].token = t
    <2>1. /\ tokens[t].run # NoRun
          /\ tokens'[t].fingerprint = tokens[t].fingerprint
          /\ tokens'[t].run = tokens[t].run
          /\ tokens'[t].submission = tokens[t].run
          /\ tokens'[t].status = "completed"
        BY <1>4, JoinRunEffect
    <2> QED
        BY <1>1, <2>1 DEF Advances, ReservationInv, ReservationConsistent, TypeOK, Reservation
<1>5. CASE \E r \in Requests : BindRun(r) /\ handler[r].token = t
    BY <1>1, <1>5, BindRunEffect DEF Advances
<1>6. CASE \E r \in Requests : CompleteRun(r) /\ handler[r].token = t
    <2>1. /\ tokens[t].run # NoRun
          /\ tokens'[t].fingerprint = tokens[t].fingerprint
          /\ tokens'[t].run = tokens[t].run
          /\ tokens'[t].submission = tokens[t].run
          /\ tokens'[t].status = "completed"
        BY <1>6, CompleteRunEffect
    <2> QED
        BY <1>1, <2>1 DEF Advances, ReservationInv, ReservationConsistent, TypeOK, Reservation
<1>7. ASSUME tokens'[t] # tokens[t]
      PROVE  \E r \in Requests :
               /\ handler[r].token = t
               /\ ReserveFresh(r) \/ JoinRun(r) \/ BindRun(r) \/ CompleteRun(r)
    <2>1. PICK r \in Requests : ReserveFresh(r) \/ JoinRun(r) \/ BindRun(r) \/ CompleteRun(r)
        BY <1>7 DEF Next, requestVars, Step, Arrive, Reject, Abort, ReserveConflict,
                    ReserveExisting, FetchReplay, SeeBinding, GiveUpBinding, WaitForRun,
                    CreateRun, StartRun, Execute, StoreOutcome
    <2>2. handler[r].token = t
        BY <1>7, <2>1 DEF ReserveFresh, JoinRun, BindRun, CompleteRun, Completed,
                          ReservationInv, TypeOK
    <2> QED
        BY <2>1, <2>2
<1> QED
    BY <1>2, <1>3, <1>4, <1>5, <1>6, <1>7

(***************************************************************************)
(* Whatever fails, is retried or raced, the content and the run of a       *)
(* reservation are decided once and a completed one never reopens.         *)
(***************************************************************************)
THEOREM ReservationsAdvance == Spec => ReservationsOnlyAdvance
<1>1. ReservationInv /\ ReservationInv' /\ [Next]_requestVars
        => [\A t \in Tokens : Advances(t)]_requestVars
    BY StepAdvances
<1> QED
    BY <1>1, ReservationsInvariant, PTL DEF Spec, ReservationsOnlyAdvance, Advances

(***************************************************************************)
(* The refinement of LogicalSubmissions.  The abstract variables:          *)
(***************************************************************************)
askedToken == [r \in Requests |-> handler[r].token]
executed == {r \in Requests : runs[r] # "absent"}
settled == [t \in Tokens |-> tokens[t].run]
answered == [r \in Requests |-> IF handler[r].at = "accepted" THEN handler[r].run ELSE NoRun]

LEMMA LogicalInit == Init => Logical!Init
    BY DEF Init, Logical!Init, Idle, Unreserved

\* A step of one handler that the abstract specification does not see.
LEMMA Stutters ==
    ASSUME NEW r \in Requests,
           \A q \in Requests \ {r} : handler'[q] = handler[q],
           handler'[r].token = handler[r].token,
           handler[r].at # "accepted", handler'[r].at # "accepted",
           \A q \in Requests : (runs'[q] = "absent") <=> (runs[q] = "absent"),
           \A t \in Tokens : tokens'[t].run = tokens[t].run
    PROVE  UNCHANGED Logical!logicalVars
<1>1. askedToken' = askedToken
    BY DEF askedToken
<1>2. executed' = executed
    BY DEF executed
<1>3. settled' = settled
    BY DEF settled
<1>4. answered' = answered
    BY DEF answered
<1> QED
    BY <1>1, <1>2, <1>3, <1>4 DEF Logical!logicalVars, askedToken, executed, settled, answered

\* A handler is told the run that its token has settled on, or its own run.
LEMMA Answers ==
    ASSUME ReservationInv, NEW r \in Requests,
           \A q \in Requests \ {r} : handler'[q] = handler[q],
           handler'[r].token = handler[r].token,
           handler[r].at # "accepted", handler'[r].at = "accepted",
           handler[r].token \in Tokens \union {NoToken},
           IF handler[r].token = NoToken
           THEN handler'[r].run = r /\ runs[r] # "absent"
           ELSE /\ tokens[handler[r].token].run # NoRun
                /\ handler'[r].run = tokens[handler[r].token].run,
           \A q \in Requests : (runs'[q] = "absent") <=> (runs[q] = "absent"),
           \A t \in Tokens : tokens'[t].run = tokens[t].run
    PROVE  Logical!Answer(r)
<1>1. askedToken' = askedToken
    BY DEF askedToken
<1>2. executed' = executed
    BY DEF executed
<1>3. settled' = settled
    BY DEF settled
<1>4. answered[r] = NoRun
    BY DEF answered
<1>5. answered' = [answered EXCEPT ![r] = handler'[r].run]
    BY DEF answered
<1>6. askedToken[r] = handler[r].token
    BY DEF askedToken
<1>7. askedToken[r] = NoToken => r \in executed /\ handler'[r].run = r
    BY <1>6 DEF executed
<1>8. askedToken[r] # NoToken =>
        settled[askedToken[r]] # NoRun /\ handler'[r].run = settled[askedToken[r]]
    BY <1>6 DEF settled
<1> QED
    BY <1>1, <1>2, <1>3, <1>4, <1>5, <1>7, <1>8
       DEF Logical!Answer, askedToken, executed, settled, answered

LEMMA ArriveLogical ==
    ASSUME ReservationInv, NEW r \in Requests, Arrive(r)
    PROVE  [Logical!Next]_(Logical!logicalVars)
<1>1. PICK t \in Tokens \union {NoToken}, c \in Contents :
        handler' = [handler EXCEPT ![r] =
                      [Idle EXCEPT !.at = IF t = NoToken THEN "create_run" ELSE "reserve",
                                   !.token = t, !.content = c]]
    BY DEF Arrive
<1>2. /\ handler'[r].token = t
      /\ handler'[r].at \in {"create_run", "reserve"}
      /\ \A q \in Requests \ {r} : handler'[q] = handler[q]
    BY <1>1 DEF Idle, ReservationInv, TypeOK
<1>3. /\ handler[r] = Idle
      /\ runs[r] = "absent"
      /\ UNCHANGED <<tokens, runs>>
    BY DEF Arrive, ReservationInv, HandlersConsistent, Consistent, At
<1>4. CASE t = NoToken
    <2>1. UNCHANGED Logical!logicalVars
        BY <1>2, <1>3, <1>4, Stutters DEF Idle
    <2> QED
        BY <2>1
<1>5. CASE t \in Tokens
    <2>1. askedToken[r] = NoToken /\ r \notin executed
        BY <1>3 DEF askedToken, executed, Idle
    <2>2. askedToken' = [askedToken EXCEPT ![r] = t]
        BY <1>2 DEF askedToken
    <2>3. executed' = executed /\ settled' = settled
        BY <1>3 DEF executed, settled
    <2>4. answered' = answered
        BY <1>2, <1>3 DEF answered, Idle
    <2>5. Logical!Ask(r, t)
        BY <2>1, <2>2, <2>3, <2>4 DEF Logical!Ask, askedToken, executed, settled, answered
    <2> QED
        BY <1>5, <2>5 DEF Logical!Next
<1> QED
    BY <1>4, <1>5

LEMMA CreateRunLogical ==
    ASSUME ReservationInv, NEW r \in Requests, CreateRun(r)
    PROVE  Logical!Execute(r)
<1>1. /\ handler'[r].token = handler[r].token
      /\ handler[r].at = "create_run" /\ handler'[r].at = "start_run"
      /\ \A q \in Requests \ {r} : handler'[q] = handler[q]
    BY MoveOne DEF ReservationInv, CreateRun, At, Points, ActivePoints
<1>2. runs' = [runs EXCEPT ![r] = "queued"] /\ UNCHANGED tokens /\ runs[r] = "absent"
    BY <1>1 DEF CreateRun, ReservationInv, HandlersConsistent, Consistent
<1>3. askedToken' = askedToken /\ settled' = settled /\ answered' = answered
    BY <1>1, <1>2 DEF askedToken, settled, answered
<1>4. r \notin executed /\ executed' = executed \union {r}
    BY <1>2 DEF executed, ReservationInv, TypeOK
<1>5. ASSUME handler[r].token # NoToken, NEW q \in executed
      PROVE  askedToken[q] # askedToken[r]
    <2>1. q \in Requests /\ runs[q] # "absent" /\ q # r
        BY <1>4 DEF executed
    <2>2. Holds(r)
        BY <1>1, <1>5 DEF Holds, HolderPoints
    <2>3. handler[q].token = handler[r].token => Holds(q)
        BY <1>5, <2>1 DEF Holds
    <2>4. handler[q].token # handler[r].token
        BY <2>1, <2>2, <2>3 DEF ReservationInv, OneHolder
    <2> QED
        BY <2>1, <2>4 DEF askedToken
<1>6. askedToken[r] # NoToken => \A q \in executed : askedToken[q] # askedToken[r]
    BY <1>5 DEF askedToken
<1> QED
    BY <1>3, <1>4, <1>6 DEF Logical!Execute, askedToken, executed, settled, answered

LEMMA BindRunLogical ==
    ASSUME ReservationInv, NEW r \in Requests, BindRun(r)
    PROVE  Logical!Settle(r)
<1> DEFINE t == handler[r].token
<1>1. t \in Tokens /\ t # NoToken
    BY BindRunEffect
<1>2. askedToken' = askedToken /\ answered' = answered /\ executed' = executed
    BY BindRunEffect DEF askedToken, answered, executed, At
<1>3. settled' = [settled EXCEPT ![t] = r]
    <2>1. tokens'[t].run = r /\ \A u \in Tokens \ {t} : tokens'[u] = tokens[u]
        BY BindRunEffect
    <2> HIDE DEF t
    <2> QED
        BY <1>1, <2>1 DEF settled
<1>4. askedToken[r] = t /\ settled[t] = NoRun
    BY <1>1, BindRunEffect DEF askedToken, settled
<1>5. r \in executed
    BY BindRunEffect DEF executed, isTerminal, Verdicts
<1> HIDE DEF t
<1> QED
    BY <1>1, <1>2, <1>3, <1>4, <1>5
       DEF Logical!Settle, askedToken, executed, settled, answered

(***************************************************************************)
(* Every step of the protocol is a step of the abstract specification or   *)
(* invisible to it.                                                        *)
(***************************************************************************)
LEMMA LogicalStep ==
    ReservationInv /\ [Next]_requestVars => [Logical!Next]_(Logical!logicalVars)
<1> SUFFICES ASSUME ReservationInv, [Next]_requestVars
             PROVE  [Logical!Next]_(Logical!logicalVars)
    OBVIOUS
<1>0. TypeOK
    BY DEF ReservationInv
<1>1. CASE UNCHANGED requestVars
    <2>1. askedToken' = askedToken /\ executed' = executed
          /\ settled' = settled /\ answered' = answered
        BY <1>1 DEF requestVars, askedToken, executed, settled, answered
    <2> QED
        BY <2>1 DEF Logical!logicalVars, askedToken, executed, settled, answered
<1>2. ASSUME NEW r \in Requests, Step(r)
      PROVE  [Logical!Next]_(Logical!logicalVars)
    <2>0. handler[r] \in HandlerState /\ Consistent(r)
        BY <1>0 DEF TypeOK, ReservationInv, HandlersConsistent
    <2>1. CASE ReserveFresh(r)
        <3>1. handler[r].token \in Tokens /\ tokens[handler[r].token].run = NoRun
            BY <2>1, WritersKnowTheirToken
               DEF ReserveFresh, At, ReservationInv, ReservationConsistent
        <3>2. \A t \in Tokens : tokens'[t].run = tokens[t].run
            BY <1>0, <2>1, <3>1 DEF ReserveFresh, Unreserved, TypeOK
        <3>3. UNCHANGED Logical!logicalVars
            BY <1>0, <2>1, <3>2, MoveOne, Stutters DEF ReserveFresh, At, Points, ActivePoints
        <3> QED
            BY <3>3
    <2>2. CASE ReserveConflict(r) \/ GiveUpBinding(r) \/ WaitForRun(r)
        <3>1. UNCHANGED Logical!logicalVars
            BY <1>0, <2>2, MoveOne, Stutters
               DEF ReserveConflict, GiveUpBinding, WaitForRun, At, Points, ActivePoints, Replies
        <3> QED
            BY <3>1
    <2>3. CASE ReserveExisting(r) \/ SeeBinding(r) \/ Execute(r)
        <3>1. /\ \A q \in Requests \ {r} : handler'[q] = handler[q]
              /\ handler'[r].token = handler[r].token
              /\ handler[r].at # "accepted" /\ handler'[r].at # "accepted"
              /\ UNCHANGED <<tokens, runs>>
            BY <1>0, <2>0, <2>3
               DEF ReserveExisting, SeeBinding, Execute, At, TypeOK, HandlerState
        <3>2. UNCHANGED Logical!logicalVars
            BY <3>1, Stutters
        <3> QED
            BY <3>2
    <2>4. CASE FetchReplay(r)
        <3>1. Logical!Answer(r)
            BY <1>0, <2>0, <2>4, MoveOne, Answers
               DEF FetchReplay, At, Points, Replies, Consistent, HandlerState
        <3> QED
            BY <3>1 DEF Logical!Next
    <2>5. CASE JoinRun(r)
        <3> DEFINE t == handler[r].token
        <3>1. /\ t \in Tokens /\ t # NoToken
              /\ handler'[r].run = tokens[t].run /\ tokens[t].run # NoRun
              /\ handler'[r].token = t /\ handler'[r].at = "accepted"
              /\ handler[r].at # "accepted"
              /\ \A q \in Requests \ {r} : handler'[q] = handler[q]
              /\ UNCHANGED runs
            BY <2>5, JoinRunEffect DEF At
        <3>2. \A u \in Tokens : tokens'[u].run = tokens[u].run
            BY <2>5, JoinRunEffect
        <3>3. Logical!Answer(r)
            BY <3>1, <3>2, Answers
        <3> QED
            BY <3>3 DEF Logical!Next
    <2>6. CASE CreateRun(r)
        BY <2>6, CreateRunLogical DEF Logical!Next
    <2>7. CASE StartRun(r)
        <3>1. \A q \in Requests : (runs'[q] = "absent") <=> (runs[q] = "absent")
            BY <1>0, <2>0, <2>7 DEF StartRun, At, Consistent, TypeOK
        <3>2. UNCHANGED Logical!logicalVars
            BY <1>0, <2>7, <3>1, MoveOne, Stutters DEF StartRun, At, Points, ActivePoints
        <3> QED
            BY <3>2
    <2>8. CASE StoreOutcome(r)
        <3>1. \A q \in Requests : (runs'[q] = "absent") <=> (runs[q] = "absent")
            BY <1>0, <2>0, <2>8 DEF StoreOutcome, At, Consistent, TypeOK, Verdicts
        <3>2. /\ \A q \in Requests \ {r} : handler'[q] = handler[q]
              /\ handler'[r].token = handler[r].token
              /\ handler'[r].run = r
              /\ handler[r].at # "accepted"
              /\ handler'[r].at = IF handler[r].token = NoToken THEN "accepted" ELSE "bind"
              /\ UNCHANGED tokens
              /\ runs[r] # "absent"
            BY <1>0, <2>0, <2>8 DEF StoreOutcome, At, TypeOK, HandlerState, Consistent
        <3>3. CASE handler[r].token = NoToken
            <4>1. Logical!Answer(r)
                BY <3>1, <3>2, <3>3, Answers
            <4> QED
                BY <4>1 DEF Logical!Next
        <3>4. CASE handler[r].token # NoToken
            <4>1. UNCHANGED Logical!logicalVars
                BY <3>1, <3>2, <3>4, Stutters
            <4> QED
                BY <4>1
        <3> QED
            BY <3>3, <3>4
    <2>9. CASE BindRun(r)
        BY <2>9, BindRunLogical DEF Logical!Next
    <2>10. CASE CompleteRun(r)
        <3> DEFINE t == handler[r].token
        <3>1. /\ t \in Tokens /\ t # NoToken
              /\ handler'[r].run = tokens[t].run /\ tokens[t].run # NoRun
              /\ handler'[r].token = t /\ handler'[r].at = "accepted"
              /\ handler[r].at # "accepted"
              /\ \A q \in Requests \ {r} : handler'[q] = handler[q]
              /\ UNCHANGED runs
            BY <2>10, CompleteRunEffect DEF At
        <3>2. \A u \in Tokens : tokens'[u].run = tokens[u].run
            BY <2>10, CompleteRunEffect
        <3>3. Logical!Answer(r)
            BY <3>1, <3>2, Answers
        <3> QED
            BY <3>3 DEF Logical!Next
    <2> QED
        BY <1>2, <2>1, <2>2, <2>3, <2>4, <2>5, <2>6, <2>7, <2>8, <2>9, <2>10 DEF Step
<1>3. ASSUME NEW r \in Requests, Reject(r) \/ Abort(r)
      PROVE  [Logical!Next]_(Logical!logicalVars)
    <2>1. UNCHANGED Logical!logicalVars
        BY <1>0, <1>3, MoveOne, Stutters DEF Reject, Abort, At, Points, ActivePoints, Replies
    <2> QED
        BY <2>1
<1> QED
    BY <1>1, <1>2, <1>3, ArriveLogical DEF Next

(***************************************************************************)
(* The reservation protocol implements at-most-once execution with one     *)
(* answer per token, for any number of requests, tokens and contents.      *)
(***************************************************************************)
THEOREM SubmitImplementsLogical == Spec => ImplementsLogical
    BY LogicalInit, LogicalStep, ReservationsInvariant, PTL
       DEF Spec, ImplementsLogical, Logical!Spec
=============================================================================
